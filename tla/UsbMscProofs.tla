---------------------------- MODULE UsbMscProofs ----------------------------
(***************************************************************************)
(* Proofs about the mass storage device, for disks, transfers and          *)
(* mailboxes of any size: first what holds of the device whatever its      *)
(* hosts did, then how it and a host stay in step, and last what becomes   *)
(* of the next host after one was lost in a command.                       *)
(***************************************************************************)
EXTENDS UsbMsc, UsbStorageProofs, SequenceTheorems

-----------------------------------------------------------------------------
(* What is in the packets *)

\* Commands, packets and the absence of one are told apart.
LEMMA Kinds ==
  /\ \A l : InBlock(l) # None /\ InBlock(l).kind = "in"
  /\ \A l, t : OutBlock(l, t) # None /\ OutBlock(l, t).kind = "out"
  /\ \A t, b : /\ Csw(t, b) # None /\ Csw(t, b).kind = "csw"
               /\ Csw(t, b).tag = t /\ Csw(t, b).bad = b
  /\ Blank # None /\ Blank.kind = "blank"
  /\ Response # None /\ Response.kind = "response"
BY DEF InBlock, OutBlock, Csw, Blank, Response, None

\* A command is not the absence of one.
LEMMA CommandIs ==
  ASSUME NEW c \in LegalCommands
  PROVE  /\ c # None
         /\ c.op \in AllOps /\ c.lba \in LBA /\ c.n \in 1..MaxBlocks /\ c.tag \in BOOLEAN
         /\ c.op \in {"READ", "WRITE"} => c.lba + c.n <= MaxLBA + 1
         /\ c.op \notin {"READ", "WRITE"} => c.lba = 0 /\ c.n = 1
<1>1. c \in Commands /\ Legal(c)
  BY DEF LegalCommands
<1>2. DOMAIN c = {"op", "lba", "n", "tag"} /\ DOMAIN None = {"kind"}
  BY <1>1 DEF Commands, None
<1>3. c # None
  BY <1>2
<1> QED
  BY <1>1, <1>3, OpsAssumption DEF Commands, Legal

\* Blocks are packets, and none is a status.
LEMMA BlockIs ==
  ASSUME NEW b \in Blocks
  PROVE  b \in Packets /\ b # None /\ b.kind # "csw"
BY Kinds DEF Blocks, Packets

-----------------------------------------------------------------------------
(* The mailbox *)

\* What the daemon takes from the mailbox
LEMMA TakeType ==
  ASSUME MscTypeOK, NEW m, Take(m)
  PROVE  /\ mbox' \in Seq(Mails) /\ Len(mbox') <= NUMMSGS
         /\ moves' \in 0..MaxMoves
         /\ aborted' = FALSE /\ aborted = FALSE
         /\ daemon = "ready" /\ job = "none"
BY MscAssumption DEF MscAssumption, MscTypeOK, Take, Goes

\* What the interrupt posts
LEMMA PostType ==
  ASSUME MscTypeOK, NEW m \in Mails, Post(m)
  PROVE  /\ mbox' \in Seq(Mails) /\ Len(mbox') <= NUMMSGS
         /\ aborted' \in BOOLEAN
         /\ aborted' => aborted \/ Len(mbox') = NUMMSGS
         /\ Len(mbox') >= Len(mbox)
<1> USE MscAssumption DEF MscAssumption, MscTypeOK
<1>1. CASE Len(mbox) < NUMMSGS
  <2>1. mbox' = Append(mbox, m) /\ aborted' = aborted
    BY <1>1 DEF Post
  <2>2. mbox' \in Seq(Mails) /\ Len(mbox') = Len(mbox) + 1
    BY <2>1
  <2> QED
    BY <1>1, <2>1, <2>2
<1>2. CASE ~(Len(mbox) < NUMMSGS)
  BY <1>2 DEF Post
<1> QED
  BY <1>1, <1>2

-----------------------------------------------------------------------------
(* The loan *)

\* Every step is one of the loan protocol, or a use of the flash.
LEMMA StorageSteps ==
  ASSUME MscNext
  PROVE  \/ [StorageNext]_storageVars
         \/ daemon = "ready" /\ \E j \in {"read", "sendNext", "receive"} : UseFlash(j)
<1>1. CASE HostStep
  BY <1>1
  DEF HostStep, HostProgress, DmaIn, Ask, Fetch, SeeInStall, SeeOutStall, SendBlock, Plug,
      DoNotWait, Unplug, GiveUp, SendCommand, Outside
<1>2. CASE PythonStep
  BY <1>2 DEF PythonStep, StorageNext
<1>3. CASE DaemonStep
  <2>1. CASE SendNext \/ ReceiveBlock \/ Read10
    BY <2>1 DEF SendNext, ReceiveBlock, Read10, Obey, Take
  <2>2. CASE SendNextRead \/ Read10Read \/ BlockWritten
    BY <2>2 DEF SendNextRead, Read10Read, BlockRead, BlockWritten, StorageNext, StorageDaemon
  <2>3. CASE Open
    BY <2>3 DEF Open, StorageNext, StorageDaemon
  <2>4. CASE Opened \/ Hangs
    BY <2>4 DEF Opened, Hangs, StorageNext, StorageDaemon, OpenUsb
  <2>5. CASE Eject \/ Disconnect
    BY <2>5 DEF Eject, Disconnect, StorageNext, StorageDaemon, NoStorage
  <2>6. CASE Ejected \/ Disconnected \/ Flushed
    BY <2>6 DEF Ejected, Disconnected, Flushed, StorageNext, StorageDaemon
  <2>7. CASE \/ SendLast \/ StatusPhase \/ StatusGone \/ Ignore \/ Respond \/ RefuseData \/ Write10
             \/ TestUnitReady \/ Removal \/ Fail \/ RefuseNoData \/ Unknown
             \/ ConfigChange \/ Request
    BY <2>7
    DEF SendLast, StatusPhase, StatusGone, Ignore, Respond, RefuseData, Write10, TestUnitReady,
        Removal, Fail, RefuseNoData, Unknown, ConfigChange, Request, NoStorage
  <2> QED
    BY <1>3, <2>1, <2>2, <2>3, <2>4, <2>5, <2>6, <2>7 DEF DaemonStep
<1> QED
  BY <1>1, <1>2, <1>3 DEF MscNext

\* So the loan stays what it is.
LEMMA MscLoan ==
  ASSUME LoanInv, MscNext
  PROVE  LoanInv'
<1>1. CASE [StorageNext]_storageVars
  BY <1>1, LoanStep
<1>2. ASSUME daemon = "ready", NEW j \in {"read", "sendNext", "receive"}, UseFlash(j)
      PROVE  LoanInv'
  BY <1>2
  DEF UseFlash, LoanInv, StorageTypeOK, ClearingExcludesOpening, EnabledWhileInUse, usbVars,
      pyVars, DaemonPlaces
<1> QED
  BY <1>1, <1>2, StorageSteps
-----------------------------------------------------------------------------
(* The records of the machine and of the endpoints *)

Machine(s, n, l, b, d) ==
  [psInst EXCEPT !.scsi = s, !.left = n, !.lba = l, !.buf = b, !.dmaIn = d]

Pipe(p, c, m, d, i, o) ==
  [pipe EXCEPT !.in = p, !.out = c, !.dmaIn = m, !.dmaOut = d, !.inStall = i, !.outStall = o]

\* The fields of a machine
LEMMA MachineIs ==
  ASSUME psInst \in Machines, NEW s \in ScsiStates, NEW n \in 0..MaxBlocks,
         NEW l \in 0..(MaxLBA + 1), NEW b \in Blocks, NEW d \in BOOLEAN,
         psInst' = Machine(s, n, l, b, d)
  PROVE  /\ psInst' \in Machines
         /\ psInst'.scsi = s /\ psInst'.left = n /\ psInst'.lba = l
         /\ psInst'.buf = b /\ psInst'.dmaIn = d
BY DEF Machine, Machines

\* What the handlers and the interrupt do to it
LEMMA MachineUpdates ==
  ASSUME psInst \in Machines, NEW s, NEW n, NEW l, NEW b, NEW d
  PROVE  /\ [psInst EXCEPT !.scsi = s]
              = Machine(s, psInst.left, psInst.lba, psInst.buf, psInst.dmaIn)
         /\ [psInst EXCEPT !.left = n]
              = Machine(psInst.scsi, n, psInst.lba, psInst.buf, psInst.dmaIn)
         /\ [psInst EXCEPT !.left = n, !.lba = l]
              = Machine(psInst.scsi, n, l, psInst.buf, psInst.dmaIn)
         /\ [psInst EXCEPT !.left = n, !.dmaIn = d, !.scsi = s]
              = Machine(s, n, psInst.lba, psInst.buf, d)
         /\ [psInst EXCEPT !.buf = b, !.dmaIn = d, !.left = n, !.scsi = s]
              = Machine(s, n, psInst.lba, b, d)
         /\ [psInst EXCEPT !.lba = l]
              = Machine(psInst.scsi, psInst.left, l, psInst.buf, psInst.dmaIn)
         /\ [psInst EXCEPT !.lba = l, !.scsi = s]
              = Machine(s, psInst.left, l, psInst.buf, psInst.dmaIn)
         /\ [psInst EXCEPT !.scsi = s, !.lba = l, !.left = n]
              = Machine(s, n, l, psInst.buf, psInst.dmaIn)
         /\ [psInst EXCEPT !.buf = b]
              = Machine(psInst.scsi, psInst.left, psInst.lba, b, psInst.dmaIn)
BY DEF Machines, Machine

\* What they do to the medium
LEMMA MediumUpdates ==
  ASSUME psInst \in Machines, NEW s \in ScsiStates, NEW e \in BOOLEAN,
         \/ psInst' = [psInst EXCEPT !.scsi = s, !.ejected = e]
         \/ psInst' = [psInst EXCEPT !.ejected = e] /\ psInst.scsi = s
         \/ psInst' = [Scsi(s) EXCEPT !.ejected = e]
         \/ psInst' = [Scsi(s) EXCEPT !.removal = e]
  PROVE  /\ psInst' \in Machines
         /\ psInst'.scsi = s /\ psInst'.left = psInst.left /\ psInst'.lba = psInst.lba
         /\ psInst'.buf = psInst.buf /\ psInst'.dmaIn = psInst.dmaIn
BY DEF Machines, Scsi

\* The fields of the endpoints
LEMMA PipeIs ==
  ASSUME pipe \in Pipes, NEW p \in Packets, NEW c \in LegalCommands \cup {None},
         NEW m \in Blocks \cup {None}, NEW d \in BOOLEAN, NEW i \in BOOLEAN,
         NEW o \in BOOLEAN, pipe' = Pipe(p, c, m, d, i, o)
  PROVE  /\ pipe' \in Pipes
         /\ pipe'.in = p /\ pipe'.out = c /\ pipe'.dmaIn = m /\ pipe'.dmaOut = d
         /\ pipe'.inStall = i /\ pipe'.outStall = o
BY DEF Pipe, Pipes

\* What the handlers, the hardware and the host do to them
LEMMA PipeUpdates ==
  ASSUME pipe \in Pipes, NEW p, NEW c, NEW m, NEW d, NEW i, NEW o
  PROVE  /\ [pipe EXCEPT !.in = p]
              = Pipe(p, pipe.out, pipe.dmaIn, pipe.dmaOut, pipe.inStall, pipe.outStall)
         /\ [pipe EXCEPT !.dmaIn = m]
              = Pipe(pipe.in, pipe.out, m, pipe.dmaOut, pipe.inStall, pipe.outStall)
         /\ [pipe EXCEPT !.dmaOut = d]
              = Pipe(pipe.in, pipe.out, pipe.dmaIn, d, pipe.inStall, pipe.outStall)
         /\ [pipe EXCEPT !.out = c]
              = Pipe(pipe.in, c, pipe.dmaIn, pipe.dmaOut, pipe.inStall, pipe.outStall)
         /\ [pipe EXCEPT !.out = c, !.in = p]
              = Pipe(p, c, pipe.dmaIn, pipe.dmaOut, pipe.inStall, pipe.outStall)
         /\ [pipe EXCEPT !.out = c, !.in = p, !.inStall = i]
              = Pipe(p, c, pipe.dmaIn, pipe.dmaOut, i, pipe.outStall)
         /\ [pipe EXCEPT !.out = c, !.inStall = i]
              = Pipe(pipe.in, c, pipe.dmaIn, pipe.dmaOut, i, pipe.outStall)
         /\ [pipe EXCEPT !.out = c, !.outStall = o]
              = Pipe(pipe.in, c, pipe.dmaIn, pipe.dmaOut, pipe.inStall, o)
         /\ [pipe EXCEPT !.out = c, !.dmaOut = d]
              = Pipe(pipe.in, c, pipe.dmaIn, d, pipe.inStall, pipe.outStall)
         /\ [pipe EXCEPT !.dmaIn = m, !.dmaOut = d]
              = Pipe(pipe.in, pipe.out, m, d, pipe.inStall, pipe.outStall)
         /\ [pipe EXCEPT !.in = p, !.dmaIn = m]
              = Pipe(p, pipe.out, m, pipe.dmaOut, pipe.inStall, pipe.outStall)
         /\ [pipe EXCEPT !.in = p, !.out = c, !.inStall = i, !.outStall = o]
              = Pipe(p, c, pipe.dmaIn, pipe.dmaOut, i, o)
         /\ [pipe EXCEPT !.inStall = i]
              = Pipe(pipe.in, pipe.out, pipe.dmaIn, pipe.dmaOut, i, pipe.outStall)
         /\ [pipe EXCEPT !.outStall = o]
              = Pipe(pipe.in, pipe.out, pipe.dmaIn, pipe.dmaOut, pipe.inStall, o)
         /\ [pipe EXCEPT !.inStall = i, !.outStall = o]
              = Pipe(pipe.in, pipe.out, pipe.dmaIn, pipe.dmaOut, i, o)
BY DEF Pipes, Pipe

-----------------------------------------------------------------------------
(* What every step keeps *)

Jobs == {"none", "read", "sendNext", "receive", "test", "load", "eject", "disconnect"}

\* The mailbox, the calls and the histories
LEMMA MailKept ==
  ASSUME MscTypeOK, MscNext
  PROVE  /\ mbox' \in Seq(Mails) /\ Len(mbox') <= NUMMSGS
         /\ moves' \in 0..MaxMoves
         /\ aborted' \in BOOLEAN /\ (aborted' => Len(mbox') = NUMMSGS)
         /\ ~aborted
         /\ job' \in Jobs
         /\ lost' \in BOOLEAN /\ badRead' \in BOOLEAN
         /\ (lost => lost') /\ (badRead => badRead')
<1> USE DEF Jobs
<1>1. CASE DaemonStep
  <2>1. /\ job' \in Jobs /\ lost' \in BOOLEAN /\ badRead' \in BOOLEAN
        /\ (lost => lost') /\ (badRead => badRead')
    <3> USE DEF NoStorage, UseFlash, Resume, histVars, MscTypeOK
    <3>1. CASE SendNext \/ ReceiveBlock \/ Read10
      BY <3>1 DEF SendNext, ReceiveBlock, Read10
    <3>2. CASE SendNextRead \/ Read10Read \/ BlockWritten
      BY <3>2 DEF SendNextRead, Read10Read, BlockRead, BlockWritten
    <3>3. CASE Open \/ Opened \/ Hangs
      BY <3>3 DEF Open, Opened, Hangs
    <3>4. CASE Eject \/ Disconnect
      BY <3>4 DEF Eject, Disconnect
    <3>5. CASE Ejected \/ Disconnected \/ Flushed
      BY <3>5 DEF Ejected, Disconnected, Flushed
    <3>6. CASE SendLast \/ StatusPhase \/ StatusGone \/ Ignore \/ ConfigChange
      BY <3>6 DEF SendLast, StatusPhase, StatusGone, Ignore, ConfigChange
    <3>7. CASE Respond \/ RefuseData \/ Write10 \/ TestUnitReady
      BY <3>7 DEF Respond, RefuseData, Write10, TestUnitReady
    <3>8. CASE Removal \/ Fail \/ RefuseNoData \/ Unknown
      BY <3>8 DEF Removal, Fail, RefuseNoData, Unknown
    <3>9. CASE Request
      BY <3>9 DEF Request
    <3> QED
      BY <1>1, <3>1, <3>2, <3>3, <3>4, <3>5, <3>6, <3>7, <3>8, <3>9 DEF DaemonStep
  <2>2. \/ \E m : Take(m)
        \/ Goes /\ UNCHANGED <<mbox, aborted, moves>>
    <3>1. CASE SendNext \/ ReceiveBlock \/ SendLast \/ StatusPhase \/ StatusGone \/ Ignore
      BY <3>1 DEF SendNext, ReceiveBlock, SendLast, StatusPhase, StatusGone, Ignore
    <3>2. CASE Respond \/ RefuseData \/ Read10 \/ Write10 \/ TestUnitReady \/ Open
      BY <3>2 DEF Respond, RefuseData, Read10, Write10, TestUnitReady, Open, Obey
    <3>3. CASE Removal \/ Fail \/ Eject \/ RefuseNoData \/ Unknown
      BY <3>3 DEF Removal, Fail, Eject, RefuseNoData, Unknown, Obey
    <3>4. CASE Disconnect \/ ConfigChange \/ Request
      BY <3>4 DEF Disconnect, ConfigChange, Request
    <3>5. CASE \/ SendNextRead \/ Read10Read \/ BlockWritten \/ Opened \/ Ejected \/ Disconnected
      BY <3>5 DEF SendNextRead, Read10Read, BlockWritten, Opened, Ejected, Disconnected, Resume
    <3>6. CASE Hangs \/ Flushed
      BY <3>6 DEF Hangs, Flushed
    <3> QED
      BY <1>1, <3>1, <3>2, <3>3, <3>4, <3>5, <3>6 DEF DaemonStep
  <2>3. CASE \E m : Take(m)
    BY <2>1, <2>3, TakeType
  <2>4. CASE Goes /\ UNCHANGED <<mbox, aborted, moves>>
    BY <2>1, <2>4 DEF Goes, MscTypeOK
  <2> QED
    BY <2>2, <2>3, <2>4
<1>2. CASE PythonStep
  BY <1>2 DEF PythonStep, Goes, MscTypeOK, histVars
<1>3. CASE HostStep
  <2>1. Outside
    BY <1>3
    DEF HostStep, HostProgress, DmaIn, Ask, Fetch, SeeInStall, SeeOutStall, SendBlock, Plug,
        DoNotWait, Unplug, GiveUp, SendCommand
  <2>2. moves' \in 0..MaxMoves
    BY <1>3, MscAssumption
    DEF HostStep, HostProgress, DmaIn, Ask, Fetch, SeeInStall, SeeOutStall, SendBlock, Plug,
        DoNotWait, Unplug, GiveUp, SendCommand, MscTypeOK, MscAssumption
  <2>3. UNCHANGED <<mbox, aborted>> \/ \E m \in Mails : Post(m)
    BY <1>3
    DEF HostStep, HostProgress, DmaIn, Ask, Fetch, SeeInStall, SeeOutStall, SendBlock, Plug,
        DoNotWait, Unplug, GiveUp, SendCommand, Mails
  <2>4. /\ ~aborted
        /\ job' \in Jobs /\ lost' \in BOOLEAN /\ badRead' \in BOOLEAN
        /\ (lost => lost') /\ (badRead => badRead')
    BY <2>1 DEF Outside, Goes, MscTypeOK
  <2>5. CASE UNCHANGED <<mbox, aborted>>
    BY <2>2, <2>4, <2>5 DEF MscTypeOK
  <2>6. CASE \E m \in Mails : Post(m)
    BY <2>2, <2>4, <2>6, PostType
  <2> QED
    BY <2>3, <2>5, <2>6
<1> QED
  BY <1>1, <1>2, <1>3 DEF MscNext
-----------------------------------------------------------------------------
(* The daemon and its invariant *)

\* What a handler starts from
LEMMA Starts ==
  ASSUME DeviceInv
  PROVE  /\ psInst \in Machines /\ pipe \in Pipes /\ host \in Hosts
         /\ csw \in [tag : BOOLEAN, bad : BOOLEAN] /\ csw.tag \in BOOLEAN /\ csw.bad \in BOOLEAN
         /\ command \in LegalCommands \cup {None}
         /\ psInst.scsi \in ScsiStates /\ psInst.left \in 0..MaxBlocks
         /\ psInst.lba \in 0..(MaxLBA + 1) /\ psInst.buf \in Blocks /\ psInst.dmaIn \in BOOLEAN
         /\ pipe.in \in Packets /\ pipe.out \in LegalCommands \cup {None}
         /\ pipe.dmaIn \in Blocks \cup {None} /\ pipe.dmaOut \in BOOLEAN
         /\ pipe.inStall \in BOOLEAN /\ pipe.outStall \in BOOLEAN
         /\ host.st \in HostStates /\ host.cmd \in LegalCommands \cup {None}
         /\ host.done \in 0..MaxBlocks /\ host.tag \in BOOLEAN
BY DEF DeviceInv, MscTypeOK, Machines, Pipes, Hosts

\* The packets it puts
LEMMA Puts ==
  /\ \A t \in BOOLEAN, b \in BOOLEAN : Csw(t, b) \in Packets
  /\ Response \in Packets /\ None \in Packets
  /\ pipe.in \in Packets => \A p \in Packets : PutIn(p) \in Packets
BY DEF Packets, PutIn

\* An OUT event in IDLE finds a command.
LEMMA Receives ==
  ASSUME DeviceInv, NEW op, Obey(op)
  PROVE  /\ Received \in LegalCommands /\ Received.op = op /\ Received.tag \in BOOLEAN
         /\ daemon = "ready" /\ job = "none" /\ psInst.scsi = "IDLE"
         /\ UNCHANGED host
<1>1. Received \in LegalCommands
  BY Starts DEF Obey, Received
<1> QED
  BY <1>1, CommandIs DEF Obey, Take

\* A handler that ends outside of a transfer has little to keep.
LEMMA Rests ==
  ASSUME job' = "none", daemon' = "ready", psInst'.scsi \in {"IDLE", "SEND_STATUS", "SENT_STATUS"}
  PROVE  JobInv' /\ RangeInv' /\ MediaInv'
BY DEF JobInv, RangeInv, MediaInv

\* What the handlers may change, and what they keep
DeviceKept ==
  /\ psInst' \in Machines /\ pipe' \in Pipes
  /\ csw' \in [tag : BOOLEAN, bad : BOOLEAN]
  /\ command' \in LegalCommands \cup {None}
  /\ JobInv' /\ RangeInv' /\ MediaInv'

\* The IN events,
LEMMA InKept ==
  ASSUME DeviceInv, SendNext \/ SendLast \/ StatusPhase \/ StatusGone
  PROVE  DeviceKept
<1>1. psInst \in Machines /\ pipe \in Pipes
  BY Starts
<1>2. CASE SendNext
  <2>1. /\ psInst.scsi = "SEND_BLOCKS" /\ psInst.left # 1 /\ psInst.left > 0
        /\ psInst.lba + psInst.left + (IF job = "receive" THEN 1 ELSE 0) <= MaxLBA + 1
        /\ daemon = "ready" /\ job = "none" /\ daemon' = "io" /\ job' = "sendNext"
        /\ pvMedia \/ lost
        /\ UNCHANGED <<pipe, csw, command, pvMedia, lost>>
    BY <1>2 DEF SendNext, Take, UseFlash, histVars, DeviceInv, RangeInv, MediaInv
  <2>2. psInst' = Machine(psInst.scsi, psInst.left - 1, psInst.lba + 1, psInst.buf, psInst.dmaIn)
    BY <1>1, <1>2, MachineUpdates DEF SendNext
  <2>3. psInst.left - 1 \in 0..MaxBlocks /\ psInst.lba + 1 \in 0..(MaxLBA + 1)
    BY <2>1, Starts, MscAssumption DEF MscAssumption
  <2>4. /\ psInst' \in Machines /\ psInst'.scsi = "SEND_BLOCKS"
        /\ psInst'.left = psInst.left - 1 /\ psInst'.lba = psInst.lba + 1
    BY <1>1, <2>1, <2>2, <2>3, Starts, MachineIs
  <2>5. RangeInv'
    BY <2>1, <2>3, <2>4, Starts, MscAssumption DEF RangeInv, MscAssumption
  <2> QED
    BY <1>1, <2>1, <2>4, <2>5, Starts DEF DeviceKept, JobInv, MediaInv
<1>3. CASE SendLast
  <2>1. /\ daemon = "ready" /\ job = "none" /\ UNCHANGED <<daemon, job, command>>
        /\ csw' = [csw EXCEPT !.bad = FALSE]
    BY <1>3 DEF SendLast, Take, NoStorage, storageVars
  <2>2. PICK s \in {"SEND_STATUS", "SENT_STATUS"} :
          psInst' = [psInst EXCEPT !.left = 0, !.dmaIn = FALSE, !.scsi = s]
    BY <1>3 DEF SendLast
  <2>3. psInst' = Machine(s, 0, psInst.lba, psInst.buf, FALSE)
    BY <1>1, <2>2 DEF Machine, Machines
  <2>4. s \in ScsiStates /\ 0 \in 0..MaxBlocks
    BY MscAssumption DEF MscAssumption, ScsiStates
  <2>5. psInst' \in Machines /\ psInst'.scsi = s
    BY <1>1, <2>3, <2>4, Starts, MachineIs
  <2>6. pipe' \in Pipes
    <3>1. CASE pipe' = [pipe EXCEPT !.in = Csw(csw.tag, FALSE)]
      <4>1. Csw(csw.tag, FALSE) \in Packets
        BY Starts, Puts
      <4>2. pipe' = Pipe(Csw(csw.tag, FALSE), pipe.out, pipe.dmaIn, pipe.dmaOut, pipe.inStall,
                         pipe.outStall)
        BY <1>1, <3>1, PipeUpdates
      <4> QED
        BY <1>1, <4>1, <4>2, Starts, PipeIs
    <3> QED
      BY <1>1, <1>3, <3>1 DEF SendLast
  <2> QED
    BY <2>1, <2>2, <2>5, <2>6, Rests, Starts DEF DeviceKept
<1>4. CASE StatusPhase
  <2>1. /\ daemon = "ready" /\ job = "none" /\ UNCHANGED <<daemon, job, csw, command>>
    BY <1>4 DEF StatusPhase, Take, NoStorage, storageVars
  <2>2. psInst' = Machine("SENT_STATUS", psInst.left, psInst.lba, psInst.buf, psInst.dmaIn)
    BY <1>1, <1>4, MachineUpdates DEF StatusPhase, Scsi
  <2>3. psInst' \in Machines /\ psInst'.scsi = "SENT_STATUS"
    BY <1>1, <2>2, Starts, MachineIs DEF ScsiStates
  <2>4. PutIn(Csw(csw.tag, csw.bad)) \in Packets
    BY Starts, Puts
  <2>5. pipe' = Pipe(PutIn(Csw(csw.tag, csw.bad)), pipe.out, pipe.dmaIn, pipe.dmaOut,
                     pipe.inStall, pipe.outStall)
    BY <1>1, <1>4, PipeUpdates DEF StatusPhase
  <2>6. pipe' \in Pipes
    BY <1>1, <2>4, <2>5, Starts, PipeIs
  <2> QED
    BY <2>1, <2>3, <2>6, Rests, Starts DEF DeviceKept
<1>5. CASE StatusGone
  <2>1. /\ daemon = "ready" /\ job = "none" /\ UNCHANGED <<daemon, job, csw, command, pipe>>
    BY <1>5 DEF StatusGone, Take, NoStorage, storageVars
  <2>2. psInst' = Machine("IDLE", psInst.left, psInst.lba, psInst.buf, psInst.dmaIn)
    BY <1>1, <1>5, MachineUpdates DEF StatusGone, Scsi
  <2>3. psInst' \in Machines /\ psInst'.scsi = "IDLE"
    BY <1>1, <2>2, Starts, MachineIs DEF ScsiStates
  <2> QED
    BY <1>1, <2>1, <2>3, Rests, Starts DEF DeviceKept
<1> QED
  BY <1>2, <1>3, <1>4, <1>5
\* The blocks that have been read
LEMMA BlockReadIs ==
  ASSUME DeviceInv, NEW left \in 1..MaxBlocks, BlockRead(left), psInst.lba \in LBA
  PROVE  \E b \in Blocks :
           /\ psInst' = Machine("SEND_BLOCKS", left, psInst.lba, b, TRUE)
           /\ pipe' = Pipe(pipe.in, pipe.out, b, pipe.dmaOut, pipe.inStall, pipe.outStall)
           /\ b = InBlock(psInst.lba) \/ badRead'
<1>1. psInst \in Machines /\ pipe \in Pipes /\ psInst.buf \in Blocks
  BY Starts
<1>2. PICK ok \in BOOLEAN :
        LET b == IF ok THEN InBlock(psInst.lba) ELSE psInst.buf IN
        /\ psInst' = [psInst EXCEPT !.buf = b, !.dmaIn = TRUE, !.left = left,
                                    !.scsi = "SEND_BLOCKS"]
        /\ pipe' = [pipe EXCEPT !.dmaIn = b]
        /\ badRead' = (badRead \/ ~ok)
  BY DEF BlockRead
<1> DEFINE b == IF ok THEN InBlock(psInst.lba) ELSE psInst.buf
<1>3. b \in Blocks
  BY <1>1 DEF Blocks
<1>4. psInst' = Machine("SEND_BLOCKS", left, psInst.lba, b, TRUE)
  <2>1. psInst' = [psInst EXCEPT !.buf = b, !.dmaIn = TRUE, !.left = left, !.scsi = "SEND_BLOCKS"]
    BY <1>2
  <2> HIDE DEF b
  <2> QED
    BY <1>1, <2>1 DEF Machine, Machines
<1>5. pipe' = Pipe(pipe.in, pipe.out, b, pipe.dmaOut, pipe.inStall, pipe.outStall)
  BY <1>1, <1>2, PipeUpdates
<1>6. b = InBlock(psInst.lba) \/ badRead'
  BY <1>2
<1> QED
  BY <1>3, <1>4, <1>5, <1>6

\* and the handlers that have read them,
LEMMA ReadKept ==
  ASSUME DeviceInv, SendNextRead \/ Read10Read
  PROVE  DeviceKept
<1>1. psInst \in Machines /\ pipe \in Pipes
  BY Starts
<1>2. PICK left \in 1..MaxBlocks :
        BlockRead(left) /\ psInst.lba \in LBA /\ psInst.lba + left <= MaxLBA + 1
  <2>1. CASE SendNextRead
    <3>1. BlockRead(psInst.left) /\ job = "sendNext"
      BY <2>1 DEF SendNextRead, Resume
    <3>2. psInst.left > 0 /\ psInst.lba + psInst.left <= MaxLBA + 1
      BY <3>1, Starts, MscAssumption DEF DeviceInv, JobInv, RangeInv, MscAssumption
    <3> QED
      BY <3>1, <3>2, Starts, MscAssumption DEF LBA, MscAssumption
  <2>2. CASE Read10Read
    <3>1. BlockRead(command.n) /\ job = "read"
      BY <2>2 DEF Read10Read, Resume
    <3>2. command # None /\ command.op = "READ" /\ psInst.lba = command.lba
      BY <3>1 DEF DeviceInv, RangeInv
    <3>3. command \in LegalCommands
      BY <3>2, Starts
    <3> QED
      BY <3>1, <3>2, <3>3, CommandIs
  <2> QED
    BY <2>1, <2>2
<1>3. PICK b \in Blocks :
        /\ psInst' = Machine("SEND_BLOCKS", left, psInst.lba, b, TRUE)
        /\ pipe' = Pipe(pipe.in, pipe.out, b, pipe.dmaOut, pipe.inStall, pipe.outStall)
  BY <1>2, BlockReadIs
<1>4. /\ psInst' \in Machines /\ psInst'.scsi = "SEND_BLOCKS"
      /\ psInst'.left = left /\ psInst'.lba = psInst.lba
  <2>1. left \in 0..MaxBlocks /\ "SEND_BLOCKS" \in ScsiStates
    BY MscAssumption DEF ScsiStates, MscAssumption
  <2> QED
    BY <1>1, <1>3, <2>1, Starts, MachineIs
<1>5. pipe' \in Pipes
  BY <1>1, <1>3, Starts, PipeIs
<1>6. /\ job' = "none" /\ daemon' = "ready"
      /\ job \in {"read", "sendNext"}
      /\ UNCHANGED <<csw, command, pvMedia, lost>>
  BY DEF SendNextRead, Read10Read, Resume, BlockRead, BlockDone
<1>7. RangeInv'
  BY <1>2, <1>4, <1>6, MscAssumption DEF RangeInv, LBA, MscAssumption
<1>8. pvMedia \/ lost
  BY <1>6 DEF DeviceInv, JobInv, MediaInv
<1> QED
  BY <1>4, <1>5, <1>6, <1>7, <1>8, Starts DEF DeviceKept, JobInv, MediaInv

\* the OUT events in a transfer,
LEMMA OutKept ==
  ASSUME DeviceInv, ReceiveBlock \/ BlockWritten \/ Ignore
  PROVE  DeviceKept
<1>1. psInst \in Machines /\ pipe \in Pipes
  BY Starts
<1>2. CASE ReceiveBlock
  <2>1. /\ psInst.scsi = "RECEIVE_BLOCKS" /\ psInst.left > 0
        /\ psInst.lba + psInst.left <= MaxLBA + 1
        /\ daemon = "ready" /\ job = "none" /\ daemon' = "io" /\ job' = "receive"
        /\ pvMedia \/ lost
        /\ UNCHANGED <<pipe, csw, command, pvMedia, lost>>
    BY <1>2, Starts, MscAssumption
    DEF ReceiveBlock, Take, UseFlash, histVars, DeviceInv, RangeInv, MediaInv, MscAssumption
  <2>2. psInst' = Machine(psInst.scsi, psInst.left - 1, psInst.lba, psInst.buf, psInst.dmaIn)
    BY <1>1, <1>2, MachineUpdates DEF ReceiveBlock
  <2>3. psInst.left - 1 \in 0..MaxBlocks
    BY <2>1, Starts, MscAssumption DEF MscAssumption
  <2>4. /\ psInst' \in Machines /\ psInst'.scsi = "RECEIVE_BLOCKS"
        /\ psInst'.left = psInst.left - 1 /\ psInst'.lba = psInst.lba
    BY <1>1, <2>1, <2>2, <2>3, Starts, MachineIs
  <2>5. RangeInv'
    BY <2>1, <2>4, Starts, MscAssumption DEF RangeInv, MscAssumption
  <2> QED
    BY <1>1, <2>1, <2>4, <2>5, Starts DEF DeviceKept, JobInv, MediaInv
<1>3. CASE BlockWritten
  <2>1. /\ job = "receive" /\ psInst.scsi = "RECEIVE_BLOCKS"
        /\ psInst.lba + psInst.left + 1 <= MaxLBA + 1
        /\ job' = "none" /\ daemon' = "ready"
        /\ pvMedia \/ lost
        /\ UNCHANGED <<command, pvMedia, lost>>
    BY <1>3, Starts, MscAssumption
    DEF BlockWritten, Resume, BlockDone, histVars, DeviceInv, JobInv, RangeInv, MediaInv,
        MscAssumption
  <2>2. psInst.lba + 1 \in 0..(MaxLBA + 1)
    BY <2>1, Starts, MscAssumption DEF MscAssumption
  <2>3. CASE psInst.left = 0
    <3>1. psInst' = Machine("SENT_STATUS", psInst.left, psInst.lba + 1, psInst.buf, psInst.dmaIn)
      <4>1. psInst' = [psInst EXCEPT !.lba = @ + 1, !.scsi = "SENT_STATUS"]
        BY <1>3, <2>3 DEF BlockWritten
      <4> QED
        BY <1>1, <4>1 DEF Machine, Machines
    <3>2. psInst' \in Machines /\ psInst'.scsi = "SENT_STATUS"
      BY <1>1, <2>2, <3>1, Starts, MachineIs DEF ScsiStates
    <3>3. PutIn(Csw(csw.tag, FALSE)) \in Packets
      BY Starts, Puts
    <3>4. pipe' = Pipe(PutIn(Csw(csw.tag, FALSE)), pipe.out, pipe.dmaIn, pipe.dmaOut,
                       pipe.inStall, pipe.outStall)
      BY <1>1, <1>3, <2>3, PipeUpdates DEF BlockWritten
    <3>5. pipe' \in Pipes
      BY <1>1, <3>3, <3>4, Starts, PipeIs
    <3>6. csw' = [csw EXCEPT !.bad = FALSE]
      BY <1>3, <2>3 DEF BlockWritten
    <3> QED
      BY <2>1, <3>2, <3>5, <3>6, Rests, Starts DEF DeviceKept
  <2>4. CASE psInst.left # 0
    <3>1. psInst' = Machine(psInst.scsi, psInst.left, psInst.lba + 1, psInst.buf, psInst.dmaIn)
      BY <1>1, <1>3, <2>4, MachineUpdates DEF BlockWritten
    <3>2. /\ psInst' \in Machines /\ psInst'.scsi = "RECEIVE_BLOCKS"
          /\ psInst'.left = psInst.left /\ psInst'.lba = psInst.lba + 1
      BY <1>1, <2>1, <2>2, <3>1, Starts, MachineIs
    <3>3. pipe' = Pipe(pipe.in, pipe.out, pipe.dmaIn, TRUE, pipe.inStall, pipe.outStall)
      BY <1>1, <1>3, <2>4, PipeUpdates DEF BlockWritten
    <3>4. pipe' \in Pipes
      BY <1>1, <3>3, Starts, PipeIs
    <3>5. csw' = csw
      BY <1>3, <2>4 DEF BlockWritten
    <3>6. RangeInv'
      BY <2>1, <2>4, <3>2, Starts, MscAssumption DEF RangeInv, MscAssumption
    <3> QED
      BY <2>1, <3>2, <3>4, <3>5, <3>6, Starts DEF DeviceKept, JobInv, MediaInv
  <2> QED
    BY <2>3, <2>4
<1>4. CASE Ignore
  BY <1>1, <1>4, Starts
  DEF Ignore, NoStorage, storageVars, usbVars, mscVars, histVars, DeviceKept, DeviceInv, JobInv,
      RangeInv, MediaInv
<1> QED
  BY <1>2, <1>3, <1>4

\* the answers,
LEMMA AnswerKept ==
  ASSUME DeviceInv, NEW op, Obey(op),
         AnswerStall \/ \E bad \in BOOLEAN : Answer(bad)
  PROVE  /\ pipe' \in Pipes
         /\ csw' \in [tag : BOOLEAN, bad : BOOLEAN]
         /\ command' \in LegalCommands \cup {None}
<1>1. pipe \in Pipes /\ Received \in LegalCommands /\ Received.tag \in BOOLEAN
  BY Starts, Receives
<1>2. CASE AnswerStall
  <2>1. PutIn(Csw(Received.tag, TRUE)) \in Packets
    BY <1>1, Starts, Puts
  <2>2. pipe' = Pipe(PutIn(Csw(Received.tag, TRUE)), None, pipe.dmaIn, pipe.dmaOut, TRUE,
                     pipe.outStall)
    <3>1. pipe' = [pipe EXCEPT !.out = None, !.in = PutIn(Csw(Received.tag, TRUE)),
                               !.inStall = TRUE]
      BY <1>2 DEF AnswerStall
    <3> QED
      BY <1>1, <3>1 DEF Pipe, Pipes
  <2>3. pipe' \in Pipes
    BY <1>1, <2>1, <2>2, Starts, PipeIs
  <2> QED
    BY <1>1, <1>2, <2>3 DEF AnswerStall
<1>3. ASSUME NEW bad \in BOOLEAN, Answer(bad)
      PROVE  /\ pipe' \in Pipes
             /\ csw' \in [tag : BOOLEAN, bad : BOOLEAN]
             /\ command' \in LegalCommands
  <2>1. PutIn(Csw(Received.tag, bad)) \in Packets
    BY <1>1, Starts, Puts
  <2>2. pipe' = Pipe(PutIn(Csw(Received.tag, bad)), None, pipe.dmaIn, pipe.dmaOut, pipe.inStall,
                     pipe.outStall)
    BY <1>1, <1>3, PipeUpdates DEF Answer
  <2>3. pipe' \in Pipes
    BY <1>1, <2>1, <2>2, Starts, PipeIs
  <2> QED
    BY <1>1, <1>3, <2>3 DEF Answer
<1> QED
  BY <1>2, <1>3

\* the commands without data,
LEMMA NoDataKept ==
  ASSUME DeviceInv, TestUnitReady \/ Removal \/ Fail \/ RefuseNoData
  PROVE  DeviceKept
<1>1. psInst \in Machines
  BY Starts
<1>2. PICK op : Obey(op)
  BY DEF TestUnitReady, Removal, Fail, RefuseNoData
<1>3. /\ daemon = "ready" /\ job = "none"
  BY <1>2, Receives
<1>4. /\ UNCHANGED <<daemon, job>>
      /\ AnswerStall \/ \E bad \in BOOLEAN : Answer(bad)
  BY Starts
  DEF TestUnitReady, Removal, Fail, RefuseNoData, NoStorage, storageVars, DeviceInv, LoanInv,
      StorageTypeOK
<1>5. /\ pipe' \in Pipes
      /\ csw' \in [tag : BOOLEAN, bad : BOOLEAN]
      /\ command' \in LegalCommands \cup {None}
  BY <1>2, <1>4, AnswerKept
<1>6. psInst' \in Machines /\ psInst'.scsi = "SENT_STATUS"
  <2>1. \/ psInst' = Scsi("SENT_STATUS")
        \/ \E e \in BOOLEAN : \/ psInst' = [Scsi("SENT_STATUS") EXCEPT !.ejected = e]
                              \/ psInst' = [Scsi("SENT_STATUS") EXCEPT !.removal = e]
    BY DEF TestUnitReady, Removal, Fail, RefuseNoData
  <2> QED
    BY <1>1, <2>1 DEF Scsi, Machines, ScsiStates
<1> QED
  BY <1>3, <1>4, <1>5, <1>6, Rests DEF DeviceKept

\* the responses and the refusals,
LEMMA ShortKept ==
  ASSUME DeviceInv, Respond \/ RefuseData \/ Unknown
  PROVE  DeviceKept
<1>1. psInst \in Machines /\ pipe \in Pipes /\ psInst.scsi \in ScsiStates
  BY Starts
<1>2. PICK op : Obey(op)
  BY DEF Respond, RefuseData, Unknown
<1>3. /\ daemon = "ready" /\ job = "none" /\ psInst.scsi = "IDLE"
      /\ Received \in LegalCommands /\ Received.tag \in BOOLEAN
  BY <1>2, Receives
<1>4. UNCHANGED <<daemon, job>>
  BY DEF Respond, RefuseData, Unknown, NoStorage, storageVars
<1>5. csw' \in [tag : BOOLEAN, bad : BOOLEAN] /\ command' \in LegalCommands \cup {None}
  <2>1. /\ \E bad \in BOOLEAN : csw' = [tag |-> Received.tag, bad |-> bad]
        /\ command' \in {Received, None}
    BY DEF Respond, RefuseData, Unknown
  <2> QED
    BY <1>3, <2>1
<1>6. psInst' \in Machines /\ psInst'.scsi \in {"IDLE", "SEND_STATUS"}
  BY <1>1, <1>3 DEF Respond, RefuseData, Unknown, Scsi, Machines, ScsiStates
<1>7. pipe' \in Pipes
  <2>1. CASE Respond
    <3>1. PutIn(Response) \in Packets
      BY <1>1, Starts, Puts
    <3>2. pipe' = Pipe(PutIn(Response), None, pipe.dmaIn, pipe.dmaOut, pipe.inStall,
                       pipe.outStall)
      BY <1>1, <2>1, PipeUpdates DEF Respond
    <3> QED
      BY <1>1, <3>1, <3>2, Starts, PipeIs
  <2>2. CASE RefuseData \/ Unknown
    <3>1. \/ pipe' = [pipe EXCEPT !.out = None, !.outStall = TRUE]
          \/ pipe' = [pipe EXCEPT !.out = None, !.inStall = TRUE]
      BY <2>2 DEF RefuseData, Unknown
    <3> QED
      BY <1>1, <3>1 DEF Pipes
  <2> QED
    BY <2>1, <2>2
<1> QED
  BY <1>3, <1>4, <1>5, <1>6, <1>7, Rests DEF DeviceKept

\* the start of a transfer,
LEMMA TransferKept ==
  ASSUME DeviceInv, Read10 \/ Write10
  PROVE  DeviceKept
<1>1. psInst \in Machines /\ pipe \in Pipes
  BY Starts
<1>2. PICK op \in {"READ", "WRITE"} : Obey(op)
  BY DEF Read10, Write10
<1>3. /\ daemon = "ready" /\ job = "none" /\ psInst.scsi = "IDLE"
      /\ Received \in LegalCommands /\ Received.op = op /\ Received.tag \in BOOLEAN
  BY <1>2, Receives
<1>4. /\ Received # None
      /\ Received.lba \in LBA /\ Received.n \in 1..MaxBlocks
      /\ Received.lba + Received.n <= MaxLBA + 1
  BY <1>3, CommandIs
<1>5. /\ csw' = [tag |-> Received.tag, bad |-> FALSE] /\ command' = Received
      /\ pvMedia /\ UNCHANGED <<pvMedia, lost>>
  BY DEF Read10, Write10, NoStorage, UseFlash, storageVars, histVars
<1>6. /\ csw' \in [tag : BOOLEAN, bad : BOOLEAN]
      /\ command' \in LegalCommands \cup {None}
  BY <1>3, <1>5
<1>7. pipe' \in Pipes
  <2>1. \/ pipe' = [pipe EXCEPT !.out = None]
        \/ pipe' = [pipe EXCEPT !.out = None, !.dmaOut = TRUE]
    BY DEF Read10, Write10
  <2> QED
    BY <1>1, <2>1 DEF Pipes
<1>8. CASE Read10
  <2>1. psInst' = Machine(psInst.scsi, psInst.left, Received.lba, psInst.buf, psInst.dmaIn)
    BY <1>1, <1>8, MachineUpdates DEF Read10
  <2>2. Received.lba \in 0..(MaxLBA + 1)
    BY <1>4, MscAssumption DEF LBA, MscAssumption
  <2>3. psInst' \in Machines /\ psInst'.scsi = "IDLE" /\ psInst'.lba = Received.lba
    BY <1>1, <1>3, <2>1, <2>2, Starts, MachineIs
  <2>4. daemon' = "io" /\ job' = "read" /\ Received.op = "READ"
    BY <1>3, <1>8 DEF Read10, UseFlash, Obey
  <2>5. JobInv' /\ RangeInv'
    BY <1>4, <1>5, <2>3, <2>4 DEF JobInv, RangeInv
  <2> QED
    BY <1>5, <1>6, <1>7, <2>3, <2>4, <2>5 DEF DeviceKept, MediaInv
<1>9. CASE Write10
  <2>1. psInst' = Machine("RECEIVE_BLOCKS", Received.n, Received.lba, psInst.buf, psInst.dmaIn)
    BY <1>1, <1>9, MachineUpdates DEF Write10
  <2>2. Received.lba \in 0..(MaxLBA + 1) /\ Received.n \in 0..MaxBlocks
    BY <1>4, MscAssumption DEF LBA, MscAssumption
  <2>3. /\ psInst' \in Machines /\ psInst'.scsi = "RECEIVE_BLOCKS"
        /\ psInst'.lba = Received.lba /\ psInst'.left = Received.n
    BY <1>1, <2>1, <2>2, Starts, MachineIs DEF ScsiStates
  <2>4. daemon' = "ready" /\ job' = "none"
    BY <1>3, <1>9 DEF Write10, NoStorage, storageVars
  <2>5. JobInv' /\ RangeInv'
    BY <1>4, <2>3, <2>4, MscAssumption DEF JobInv, RangeInv, LBA, MscAssumption
  <2> QED
    BY <1>5, <1>6, <1>7, <2>3, <2>4, <2>5 DEF DeviceKept, MediaInv
<1> QED
  BY <1>8, <1>9

\* the commands that open the drive or close it,
LEMMA CallKept ==
  ASSUME DeviceInv, Open \/ Opened \/ Eject \/ Ejected
  PROVE  DeviceKept
<1>1. psInst \in Machines /\ pipe \in Pipes /\ csw.tag \in BOOLEAN
  BY Starts
<1>2. CASE Open \/ Eject
  <2>1. PICK op : Obey(op)
    BY <1>2 DEF Open, Eject
  <2>2. /\ daemon = "ready" /\ job = "none" /\ psInst.scsi = "IDLE"
        /\ Received \in LegalCommands /\ Received.tag \in BOOLEAN
    BY <2>1, Receives
  <2>3. /\ csw' = [tag |-> Received.tag, bad |-> FALSE] /\ command' = Received
        /\ pipe' = [pipe EXCEPT !.out = None]
        /\ psInst' \in {psInst, [psInst EXCEPT !.ejected = TRUE]}
    BY <1>2 DEF Open, Eject
  <2>4. /\ csw' \in [tag : BOOLEAN, bad : BOOLEAN]
        /\ command' \in LegalCommands \cup {None}
    BY <2>2, <2>3
  <2>5. pipe' \in Pipes
    BY <1>1, <2>3 DEF Pipes
  <2>6. psInst' \in Machines /\ psInst'.scsi = "IDLE"
    BY <1>1, <2>2, <2>3 DEF Machines
  <2>7. \/ daemon' = "open" /\ job' \in {"test", "load"}
        \/ daemon' = "flush" /\ job' = "eject"
    BY <1>2 DEF Open, Eject, CallOpen, CallClose
  <2> QED
    BY <2>4, <2>5, <2>6, <2>7 DEF DeviceKept, JobInv, RangeInv, MediaInv
<1>3. CASE Opened \/ Ejected
  <2>1. PICK bad \in BOOLEAN :
          /\ csw' \in {csw, [csw EXCEPT !.bad = bad]}
          /\ pipe' = [pipe EXCEPT !.in = PutIn(Csw(csw.tag, bad))]
    <3>1. CASE Opened
      BY <3>1 DEF Opened
    <3>2. CASE Ejected
      BY <3>2 DEF Ejected
    <3> QED
      BY <1>3, <3>1, <3>2
  <2>2. PutIn(Csw(csw.tag, bad)) \in Packets
    BY <1>1, Starts, Puts
  <2>3. pipe' \in Pipes
    <3> DEFINE p == PutIn(Csw(csw.tag, bad))
    <3>1. p \in Packets /\ pipe' = [pipe EXCEPT !.in = p]
      BY <2>1, <2>2
    <3> HIDE DEF p
    <3> QED
      BY <1>1, <3>1 DEF Pipes
  <2>4. psInst' \in Machines /\ psInst'.scsi = "SENT_STATUS"
    <3>1. \/ psInst' = Scsi("SENT_STATUS")
          \/ \E granted \in BOOLEAN :
               psInst' = [psInst EXCEPT !.scsi = "SENT_STATUS", !.ejected = @ /\ ~granted]
      BY <1>3 DEF Opened, Ejected
    <3> QED
      BY <1>1, <3>1 DEF Scsi, Machines, ScsiStates
  <2>5. job' = "none" /\ daemon' = "ready" /\ command' = command
    BY <1>3 DEF Opened, Ejected, Resume, OpenGranted, OpenRefused, CloseUsb
  <2>6. csw' \in [tag : BOOLEAN, bad : BOOLEAN]
    BY <2>1, Starts
  <2> QED
    BY <2>3, <2>4, <2>5, <2>6, Rests, Starts DEF DeviceKept
<1> QED
  BY <1>2, <1>3

\* and the other handlers.
LEMMA OtherKept ==
  ASSUME DeviceInv, Hangs \/ Flushed \/ Disconnect \/ Disconnected \/ ConfigChange \/ Request
  PROVE  DeviceKept
<1>1. psInst \in Machines /\ pipe \in Pipes
  BY Starts
<1> USE DEF DeviceInv, JobInv, RangeInv, MediaInv
<1>2. CASE Hangs \/ Flushed
  <2>1. UNCHANGED <<psInst, pipe, csw, command, job, lost>>
    BY <1>2 DEF Hangs, Flushed, mscVars, histVars
  <2>2. \/ daemon = "open" /\ daemon' = "hung" /\ pvMedia' = pvMedia
        \/ daemon = "flush" /\ daemon' = "close" /\ pvMedia' = pvMedia
    BY <1>2 DEF Hangs, Flushed, OpenHangs, FlushDone
  <2> QED
    BY <1>1, <2>1, <2>2, Starts DEF DeviceKept
<1>3. CASE Disconnect
  <2>1. UNCHANGED <<psInst, pipe, csw, command, pvMedia>>
    BY <1>3 DEF Disconnect, mscVars, NoStorage, storageVars, CallClose
  <2>2. /\ daemon = "ready" /\ job = "none"
        /\ lost' = (lost \/ psInst.scsi # "IDLE")
        /\ \/ daemon' = "flush" /\ job' = "disconnect"
           \/ daemon' = daemon /\ job' = job
    BY <1>3 DEF Disconnect, Take, NoStorage, storageVars, CallClose
  <2> QED
    BY <1>1, <2>1, <2>2, Starts DEF DeviceKept
<1>4. CASE Disconnected
  <2>1. UNCHANGED <<psInst, pipe, csw, command, lost>>
    BY <1>4 DEF Disconnected, mscVars, histVars
  <2>2. job = "disconnect" /\ job' = "none" /\ daemon' = "ready"
    BY <1>4 DEF Disconnected, Resume, CloseUsb
  <2> QED
    BY <1>1, <2>1, <2>2, Starts DEF DeviceKept
<1>5. CASE ConfigChange \/ Request
  <2>1. UNCHANGED <<psInst, csw, command, daemon, job, pvMedia>>
    BY <1>5 DEF ConfigChange, Request, mscVars, NoStorage, storageVars
  <2>2. lost => lost'
    BY <1>5 DEF ConfigChange, Request, histVars
  <2>3. pipe' \in Pipes
    <3>1. pipe' = pipe \/ pipe' = [pipe EXCEPT !.dmaIn = None, !.dmaOut = FALSE]
      BY <1>5 DEF ConfigChange, Request, mscVars
    <3> QED
      BY <1>1, <3>1 DEF Pipes
  <2> QED
    BY <1>1, <2>1, <2>2, <2>3, Starts DEF DeviceKept
<1> QED
  BY <1>2, <1>3, <1>4, <1>5

\* Together
LEMMA DaemonKept ==
  ASSUME DeviceInv, DaemonStep
  PROVE  DeviceKept
BY InKept, ReadKept, OutKept, NoDataKept, ShortKept, TransferKept, CallKept, OtherKept
DEF DaemonStep

-----------------------------------------------------------------------------
(* The host *)

\* Only a request answered moves the host from the daemon's side.
LEMMA DaemonMovesHost ==
  ASSUME DaemonStep
  PROVE  host' = host \/ (host.st = "wait" /\ host' = [host EXCEPT !.st = "idle"])
<1>1. CASE Request
  BY <1>1 DEF Request
<1>2. CASE ~Request
  BY <1>2
  DEF DaemonStep, SendNext, SendNextRead, BlockRead, SendLast, StatusPhase, StatusGone,
      ReceiveBlock, BlockWritten, Ignore, Respond, RefuseData, Read10, Read10Read, Write10,
      TestUnitReady, Open, Opened, Hangs, Removal, Fail, Eject, Ejected, RefuseNoData, Unknown,
      Disconnect, Disconnected, Flushed, ConfigChange, Obey
<1> QED
  BY <1>1, <1>2

\* A step of the host leaves the daemon where it is,
LEMMA HostLeaves ==
  ASSUME DeviceInv, HostStep
  PROVE  /\ UNCHANGED <<storageVars, job, csw, command, badRead, lost>>
         /\ psInst' = psInst \/ SendBlock
BY DEF HostStep, HostProgress, DmaIn, Ask, Fetch, SeeInStall, SeeOutStall, SendBlock, Plug,
       DoNotWait, Unplug, GiveUp, SendCommand, Outside

\* one that fetches or sends a block counts it,
LEMMA Advances ==
  ASSUME DeviceInv, host.st \in {"in", "out"}, host' = Advance
  PROVE  /\ host' \in Hosts /\ HostInv'
         /\ host'.done = host.done + 1 /\ host'.cmd = host.cmd /\ host'.tag = host.tag
         /\ host'.st = IF host.done + 1 = host.cmd.n THEN "status" ELSE host.st
<1>1. /\ host \in Hosts /\ host.st \in HostStates /\ host.done \in 0..MaxBlocks
      /\ host.cmd \in LegalCommands \cup {None}
  BY Starts
<1>2. host.cmd # None /\ host.done < host.cmd.n
  BY DEF DeviceInv, HostInv
<1>3. host.cmd.n \in 1..MaxBlocks
  BY <1>1, <1>2, CommandIs
<1>4. host.done + 1 \in 0..MaxBlocks /\ host.done + 1 <= host.cmd.n
  BY <1>1, <1>2, <1>3, MscAssumption DEF MscAssumption
<1> DEFINE st == IF host.done + 1 = host.cmd.n THEN "status" ELSE host.st
<1>5. host' = [host EXCEPT !.done = host.done + 1, !.st = st]
  BY <1>1 DEF Advance, Hosts
<1>6. st \in HostStates
  BY <1>1 DEF HostStates
<1>7. /\ host' \in Hosts
      /\ host'.done = host.done + 1 /\ host'.cmd = host.cmd /\ host'.tag = host.tag
      /\ host'.st = st
  <2> HIDE DEF st
  <2> QED
    BY <1>1, <1>4, <1>5, <1>6 DEF Hosts
<1>8. HostInv'
  BY <1>1, <1>2, <1>3, <1>4, <1>7 DEF HostInv
<1> QED
  BY <1>7, <1>8

\* and keeps its own state.
LEMMA HostKept ==
  ASSUME DeviceInv, MscNext
  PROVE  host' \in Hosts /\ HostInv'
<1>1. /\ host \in Hosts /\ host.st \in HostStates /\ HostInv
  BY Starts DEF DeviceInv
<1>2. ASSUME NEW s \in {"off", "configured", "wait", "idle"}, host' = [host EXCEPT !.st = s]
      PROVE  host' \in Hosts /\ HostInv'
  BY <1>1, <1>2 DEF Hosts, HostStates, HostInv
<1>3. ASSUME host' = host
      PROVE  host' \in Hosts /\ HostInv'
  BY <1>1, <1>3 DEF HostInv
<1>4. CASE DaemonStep
  BY <1>2, <1>3, <1>4, DaemonMovesHost
<1>5. CASE PythonStep
  BY <1>3, <1>5 DEF PythonStep
<1>6. CASE DmaIn \/ Ask \/ Plug \/ DoNotWait \/ Unplug \/ GiveUp
  BY <1>2, <1>3, <1>6 DEF DmaIn, Ask, Plug, DoNotWait, Unplug, GiveUp
<1>7. CASE Fetch
  <2>1. \/ host' = [host EXCEPT !.st = "idle"]
        \/ host.st = "in" /\ host' = Advance
        \/ host' = host
    BY <1>7 DEF Fetch
  <2> QED
    BY <1>2, <1>3, <2>1, Advances
<1>8. CASE SeeInStall \/ SeeOutStall
  <2>1. host.st \in {"in", "out", "status"} /\ host' = [host EXCEPT !.st = "status"]
    BY <1>8 DEF SeeInStall, SeeOutStall
  <2>2. host' \in Hosts /\ host'.st = "status" /\ host'.cmd = host.cmd /\ host'.done = host.done
    BY <1>1, <2>1 DEF Hosts, HostStates
  <2> QED
    BY <1>1, <2>1, <2>2 DEF HostInv
<1>9. CASE SendBlock
  BY <1>9, Advances DEF SendBlock
<1>10. ASSUME NEW c \in Commands, Legal(c), SendCommand(c)
       PROVE  host' \in Hosts /\ HostInv'
  <2>1. host' = [st |-> FirstPhase(c.op), cmd |-> c, done |-> 0, tag |-> ~host.tag]
    BY <1>10 DEF SendCommand
  <2>2. c \in LegalCommands
    BY <1>10 DEF LegalCommands
  <2>3. c # None /\ c.n \in 1..MaxBlocks /\ c.op \in AllOps
    BY <2>2, CommandIs
  <2>4. FirstPhase(c.op) \in {"in", "out", "status"}
    BY <2>3 DEF FirstPhase, AllOps
  <2>5. host'.st \in {"in", "out", "status"} /\ host'.cmd = c /\ host'.done = 0
    BY <2>1, <2>4
  <2>6. FirstPhase(c.op) \in HostStates /\ 0 \in 0..MaxBlocks /\ (~host.tag) \in BOOLEAN
    BY <2>4, MscAssumption DEF HostStates, MscAssumption
  <2>7. host' \in Hosts
    BY <2>1, <2>2, <2>6 DEF Hosts
  <2> QED
    BY <2>3, <2>5, <2>7 DEF HostInv
<1> QED
  BY <1>4, <1>5, <1>6, <1>7, <1>8, <1>9, <1>10 DEF MscNext, HostStep, HostProgress

\* What it does to the endpoints
LEMMA HostPipe ==
  ASSUME DeviceInv, HostStep
  PROVE  pipe' \in Pipes
<1>1. /\ pipe \in Pipes /\ pipe.dmaIn \in Blocks \cup {None}
  BY Starts
<1>2. CASE \/ Fetch \/ SeeInStall \/ SeeOutStall \/ SendBlock \/ Plug \/ GiveUp
  <2>1. \/ pipe' = [pipe EXCEPT !.in = None]
        \/ pipe' = [pipe EXCEPT !.inStall = FALSE]
        \/ pipe' = [pipe EXCEPT !.outStall = FALSE]
        \/ pipe' = [pipe EXCEPT !.dmaOut = FALSE]
        \/ pipe' = [pipe EXCEPT !.in = None, !.out = None, !.inStall = FALSE, !.outStall = FALSE]
        \/ pipe' = [pipe EXCEPT !.inStall = FALSE, !.outStall = FALSE]
    BY <1>2 DEF Fetch, SeeInStall, SeeOutStall, SendBlock, Plug, GiveUp
  <2>2. None \in Packets
    BY Puts
  <2> QED
    BY <1>1, <2>1, <2>2 DEF Pipes
<1>3. CASE DmaIn
  <2>1. pipe' = [pipe EXCEPT !.in = pipe.dmaIn, !.dmaIn = None] /\ pipe.dmaIn # None
    BY <1>1, <1>3 DEF DmaIn
  <2>2. pipe.dmaIn \in Packets
    BY <1>1, <2>1, BlockIs
  <2> QED
    BY <1>1, <2>1, <2>2 DEF Pipes
<1>4. ASSUME NEW c \in Commands, Legal(c), SendCommand(c)
      PROVE  pipe' \in Pipes
  <2>1. pipe' = [pipe EXCEPT !.out = c]
    BY <1>4 DEF SendCommand
  <2>2. c \in LegalCommands
    BY <1>4 DEF LegalCommands
  <2> QED
    BY <1>1, <2>1, <2>2 DEF Pipes
<1>5. CASE Ask \/ DoNotWait \/ Unplug
  BY <1>1, <1>5 DEF Ask, DoNotWait, Unplug
<1> QED
  BY <1>2, <1>3, <1>4, <1>5 DEF HostStep, HostProgress

\* The block it sends is one of the disk.
LEMMA SentBlock ==
  ASSUME DeviceInv, SendBlock
  PROVE  /\ psInst' \in Machines
         /\ psInst' = Machine(psInst.scsi, psInst.left, psInst.lba,
                              OutBlock(host.cmd.lba + host.done, host.cmd.tag), psInst.dmaIn)
         /\ psInst'.scsi = psInst.scsi /\ psInst'.left = psInst.left /\ psInst'.lba = psInst.lba
         /\ psInst'.dmaIn = psInst.dmaIn
<1>1. psInst \in Machines /\ host.cmd \in LegalCommands \cup {None} /\ host.done \in 0..MaxBlocks
  BY Starts
<1>2. /\ host.st = "out"
      /\ psInst' = [psInst EXCEPT !.buf = OutBlock(host.cmd.lba + host.done, host.cmd.tag)]
  BY DEF SendBlock
<1>3. host.cmd \in LegalCommands /\ host.done < host.cmd.n
  BY <1>1, <1>2 DEF DeviceInv, HostInv
<1>4. host.cmd.tag \in BOOLEAN /\ host.cmd.lba + host.done \in LBA
  <2>1. /\ host.cmd.lba \in 0..MaxLBA /\ host.cmd.n \in 1..MaxBlocks /\ host.cmd.tag \in BOOLEAN
        /\ \/ host.cmd.lba + host.cmd.n <= MaxLBA + 1
           \/ host.cmd.lba = 0 /\ host.cmd.n = 1
    BY <1>3, CommandIs DEF LBA
  <2> QED
    BY <1>1, <1>3, <2>1, MscAssumption DEF LBA, MscAssumption
<1>5. OutBlock(host.cmd.lba + host.done, host.cmd.tag) \in Blocks
  BY <1>4 DEF Blocks
<1> DEFINE b == OutBlock(host.cmd.lba + host.done, host.cmd.tag)
<1>6. psInst' = Machine(psInst.scsi, psInst.left, psInst.lba, b, psInst.dmaIn)
  <2>1. psInst' = [psInst EXCEPT !.buf = b]
    BY <1>2
  <2> HIDE DEF b
  <2> QED
    BY <1>1, <2>1 DEF Machine, Machines
<1> HIDE DEF b
<1>7. b \in Blocks
  BY <1>5 DEF b
<1>8. /\ psInst' \in Machines
      /\ psInst'.scsi = psInst.scsi /\ psInst'.left = psInst.left /\ psInst'.lba = psInst.lba
      /\ psInst'.dmaIn = psInst.dmaIn
  BY <1>1, <1>6, <1>7, Starts, MachineIs
<1> QED
  BY <1>6, <1>8 DEF b

\* So every step keeps the device's invariant.
LEMMA DeviceStep ==
  ASSUME DeviceInv, MscNext
  PROVE  DeviceInv'
<1>1. LoanInv'
  BY MscLoan DEF DeviceInv
<1>2. /\ mbox' \in Seq(Mails) /\ Len(mbox') <= NUMMSGS
      /\ moves' \in 0..MaxMoves /\ aborted' \in BOOLEAN
      /\ job' \in Jobs /\ lost' \in BOOLEAN /\ badRead' \in BOOLEAN
  BY MailKept DEF DeviceInv
<1>3. host' \in Hosts /\ HostInv'
  BY HostKept
<1>4. DeviceKept
  <2>1. CASE DaemonStep
    BY <2>1, DaemonKept
  <2>2. CASE PythonStep
    <3>1. UNCHANGED <<psInst, csw, command, pipe, job, lost>>
      BY <2>2 DEF PythonStep, mscVars, histVars
    <3>2. UNCHANGED <<daemon, pvMedia>>
      BY <2>2
      DEF PythonStep, Python, EnableLoad, EnableLock, EnableSet, EnableUnlock, DisableLoad,
          DisablePend, DisableLoadMutex, DisableLock, DisableCheck, DisableClear, DisableUnlock,
          InitSem, InitMutex, InitHangs, Load, Lock, Unlock, At
    <3> QED
      BY <3>1, <3>2, Starts DEF DeviceKept, DeviceInv, JobInv, RangeInv, MediaInv
  <2>3. CASE HostStep
    <3>1. UNCHANGED <<daemon, pvMedia, job, csw, command, lost>>
      BY <2>3, HostLeaves DEF storageVars
    <3>2. /\ psInst' \in Machines
          /\ psInst'.scsi = psInst.scsi /\ psInst'.left = psInst.left /\ psInst'.lba = psInst.lba
      BY <2>3, HostLeaves, SentBlock, Starts
    <3>3. pipe' \in Pipes
      BY <2>3, HostPipe
    <3> QED
      BY <3>1, <3>2, <3>3, Starts DEF DeviceKept, DeviceInv, JobInv, RangeInv, MediaInv
  <2> QED
    BY <2>1, <2>2, <2>3 DEF MscNext
<1> QED
  BY <1>1, <1>2, <1>3, <1>4 DEF DeviceInv, DeviceKept, MscTypeOK, LoanInv, Jobs

\* It holds at first.
LEMMA DeviceInit ==
  ASSUME MscInit
  PROVE  DeviceInv
<1>1. LoanInv
  BY LoanInit DEF MscInit
<1>2. daemon = "ready"
  BY DEF MscInit, StorageInit
<1>3. psInst \in Machines /\ psInst.scsi = "IDLE"
  BY MscAssumption DEF MscInit, Machines, ScsiStates, Blocks, MscAssumption
<1>4. pipe \in Pipes
  BY DEF MscInit, Pipes, Packets
<1>5. host \in Hosts /\ host.st = "off"
  BY MscAssumption DEF MscInit, Hosts, HostStates, MscAssumption
<1>6. /\ mbox \in Seq(Mails) /\ Len(mbox) <= NUMMSGS /\ moves \in 0..MaxMoves
      /\ csw \in [tag : BOOLEAN, bad : BOOLEAN]
  BY MscAssumption DEF MscInit, MscAssumption
<1> QED
  BY <1>1, <1>2, <1>3, <1>4, <1>5, <1>6
  DEF MscInit, DeviceInv, MscTypeOK, LoanInv, JobInv, RangeInv, MediaInv, HostInv

\* Whatever its hosts do, and whatever Python does meanwhile, the device's
\* handlers wait where they should, its transfers stay within the disk and only
\* a disconnection takes the drive from one.
THEOREM DeviceInvariant == MscSpec => []DeviceInv
<1>1. MscInit => DeviceInv
  BY DeviceInit
<1>2. DeviceInv /\ [MscNext]_vars => DeviceInv'
  <2>1. CASE MscNext
    BY <2>1, DeviceStep
  <2>2. CASE UNCHANGED vars
    BY <2>2
    DEF vars, storageVars, usbVars, pyVars, mscVars, histVars, DeviceInv, MscTypeOK, LoanInv,
        StorageTypeOK, ClearingExcludesOpening, EnabledWhileInUse, JobInv, RangeInv, MediaInv,
        HostInv
  <2> QED
    BY <2>1, <2>2
<1> QED
  BY <1>1, <1>2, PTL DEF MscSpec

\* Blocks pass between a host and the disk only while the disk is lent.
THEOREM BlocksAreLent == MscSpec => []TransferIsLent
<1>1. DeviceInv => TransferIsLent
  BY DEF DeviceInv, LoanInv, JobInv, MediaInv, TransferIsLent
<1> QED
  BY <1>1, DeviceInvariant, PTL

-----------------------------------------------------------------------------
(* The queues of a device in step *)

\* What a queue starts with tells it from most others,
LEMMA QueueStarts ==
  ASSUME NEW e \in Queues, e # <<>>
  PROVE  /\ Head(e) \in {"in", "out", "reset", "config", "getMaxLun"}
         /\ Head(e) = "in" => e \in {<<"in">>, <<"in", "in">>}
         /\ Head(e) = "out" => e = <<"out">>
         /\ Head(e) = "reset" => e = <<"reset">>
         /\ Head(e) = "config" =>
              e \in {<<"config">>, <<"config", "getMaxLun">>, <<"config", "getMaxLun", "out">>}
         /\ Head(e) = "getMaxLun" => e \in {<<"getMaxLun">>, <<"getMaxLun", "out">>}
BY DEF Queues

\* a queue may be empty or not,
LEMMA QueueDistinct ==
  /\ \A m : <<m>> # <<>> /\ Head(<<m>>) = m /\ Len(<<m>>) = 1
  /\ \A m, n : <<m, n>> # <<>> /\ Head(<<m, n>>) = m /\ Len(<<m, n>>) = 2
  /\ \A m, n, o : <<m, n, o>> # <<>> /\ Head(<<m, n, o>>) = m /\ Len(<<m, n, o>>) = 3
OBVIOUS

\* what is left of it,
LEMMA QueueRests ==
  /\ Tail(<<"in">>) = <<>> /\ Tail(<<"in", "in">>) = <<"in">>
  /\ Tail(<<"out">>) = <<>> /\ Tail(<<"reset">>) = <<>>
  /\ Tail(<<"config">>) = <<>> /\ Tail(<<"config", "getMaxLun">>) = <<"getMaxLun">>
  /\ Tail(<<"config", "getMaxLun", "out">>) = <<"getMaxLun", "out">>
  /\ Tail(<<"getMaxLun">>) = <<>> /\ Tail(<<"getMaxLun", "out">>) = <<"out">>
OBVIOUS

\* and what an event makes of it.
LEMMA QueueGrows ==
  /\ \A m \in Mails : Append(<<>>, m) = <<m>>
  /\ \A m, n \in Mails : Append(<<m>>, n) = <<m, n>>
  /\ \A m, n, o \in Mails : Append(<<m, n>>, o) = <<m, n, o>>
<1>1. ASSUME NEW s \in Seq(Mails), NEW t \in Seq(Mails), Len(s) = Len(t),
             \A i \in 1..Len(s) : s[i] = t[i]
      PROVE  s = t
  BY <1>1
<1>2. ASSUME NEW m \in Mails
      PROVE  Append(<<>>, m) = <<m>>
  OBVIOUS
<1>3. ASSUME NEW m \in Mails, NEW n \in Mails
      PROVE  Append(<<m>>, n) = <<m, n>>
  <2> DEFINE s == Append(<<m>>, n)
             t == <<m, n>>
  <2>1. /\ <<m>> \in Seq(Mails) /\ Len(<<m>>) = 1 /\ <<m>>[1] = m
        /\ t \in Seq(Mails) /\ Len(t) = 2 /\ t[1] = m /\ t[2] = n
    OBVIOUS
  <2>2. s \in Seq(Mails) /\ Len(s) = 2
    BY <2>1
  <2>3. s[1] = m /\ s[2] = n
    BY <2>1
  <2> HIDE DEF s, t
  <2>4. \A i \in 1..Len(s) : s[i] = t[i]
    BY <2>1, <2>2, <2>3
  <2>5. s = t
    BY <1>1, <2>1, <2>2, <2>4
  <2> QED
    BY <2>5 DEF s, t
<1>4. ASSUME NEW m \in Mails, NEW n \in Mails, NEW o \in Mails
      PROVE  Append(<<m, n>>, o) = <<m, n, o>>
  <2> DEFINE s == Append(<<m, n>>, o)
             t == <<m, n, o>>
  <2>1. /\ <<m, n>> \in Seq(Mails) /\ Len(<<m, n>>) = 2 /\ <<m, n>>[1] = m /\ <<m, n>>[2] = n
        /\ t \in Seq(Mails) /\ Len(t) = 3 /\ t[1] = m /\ t[2] = n /\ t[3] = o
    OBVIOUS
  <2>2. s \in Seq(Mails) /\ Len(s) = 3
    BY <2>1
  <2>3. s[1] = m /\ s[2] = n /\ s[3] = o
    BY <2>1
  <2> HIDE DEF s, t
  <2>4. \A i \in 1..Len(s) : s[i] = t[i]
    BY <2>1, <2>2, <2>3
  <2>5. s = t
    BY <1>1, <2>1, <2>2, <2>4
  <2> QED
    BY <2>5 DEF s, t
<1> QED
  BY <1>2, <1>3, <1>4

\* The queues are closed under what the daemon takes.
LEMMA QueueTypes ==
  ASSUME NEW e \in Queues
  PROVE  /\ e \in Seq(Mails)
         /\ e # <<>> => Tail(e) \in Queues /\ Tail(e) \in Seq(Mails)
<1>1. e \in Seq(Mails)
  <2>1. /\ \A m \in Mails : <<m>> \in Seq(Mails)
        /\ \A m, n \in Mails : <<m, n>> \in Seq(Mails)
        /\ \A m, n, o \in Mails : <<m, n, o>> \in Seq(Mails)
        /\ <<>> \in Seq(Mails)
    OBVIOUS
  <2> QED
    BY <2>1 DEF Queues, Mails
<1>2. e # <<>> => Tail(e) \in Queues
  BY QueueStarts, QueueRests DEF Queues
<1> QED
  BY <1>1, <1>2

-----------------------------------------------------------------------------
(* The queue and the phase that a step finds *)

\* The daemon takes the first event of the host's, or the disconnection after
\* the last one.
LEMMA TakesMail ==
  ASSUME NEW s \in HostStates \ {"off"}, NEW e \in Seq(Mails), Queued(s, e), NEW m, Take(m)
  PROVE  \/ /\ e # <<>> /\ m = Head(e)
            /\ \/ host.st = s /\ mbox' = Tail(e)
               \/ host.st = "off" /\ moves' > 0 /\ mbox' = Append(Tail(e), "disconnect")
         \/ /\ e = <<>> /\ m = "disconnect"
            /\ host.st = "off" /\ mbox' = <<>>
<1>1. /\ mbox # <<>> /\ Head(mbox) = m /\ mbox' = Tail(mbox)
      /\ moves' = IF Len(mbox) = 1 THEN 0 ELSE moves
  BY DEF Take
<1>2. e \in Seq(Mails) /\ (e # <<>> => Tail(e) \in Seq(Mails)) /\ "disconnect" \in Mails
  BY DEF Mails
<1>3. CASE host.st = s /\ mbox = e
  BY <1>1, <1>3
<1>4. CASE host.st = "off" /\ moves > 0 /\ mbox = Append(e, "disconnect")
  <2>1. CASE e = <<>>
    <3>1. mbox = <<"disconnect">>
      BY <1>2, <1>4, <2>1, QueueGrows
    <3>2. Head(mbox) = "disconnect" /\ Tail(mbox) = <<>>
      BY <3>1
    <3> QED
      BY <1>1, <1>4, <2>1, <3>2
  <2>2. CASE e # <<>>
    <3>1. Head(mbox) = Head(e) /\ Tail(mbox) = Append(Tail(e), "disconnect") /\ Len(mbox) > 1
      BY <1>2, <1>4, <2>2, HeadTailAppend
    <3> QED
      BY <1>1, <1>4, <2>2, <3>1
  <2> QED
    BY <2>1, <2>2
<1> QED
  BY <1>3, <1>4 DEF Queued

\* The same of the queues of a phase
LEMMA TakesQueued ==
  ASSUME NEW s \in HostStates \ {"off"}, NEW e \in Queues, Queued(s, e), NEW m, Take(m)
  PROVE  \/ /\ e # <<>> /\ m = Head(e)
            /\ \/ host.st = s /\ mbox' = Tail(e)
               \/ host.st = "off" /\ moves' > 0 /\ mbox' = Append(Tail(e), "disconnect")
         \/ /\ e = <<>> /\ m = "disconnect"
            /\ host.st = "off" /\ mbox' = <<>>
BY QueueTypes, TakesMail

\* The phases are told apart by the state of the machine.
LEMMA PhaseIs ==
  ASSUME NEW s, NEW e, Phase(s, e)
  PROVE  /\ psInst.scsi = "SEND_BLOCKS" => host.cmd # None /\ Sending(s, e)
         /\ psInst.scsi = "RECEIVE_BLOCKS" => host.cmd # None /\ Receiving(s, e)
         /\ psInst.scsi = "SEND_STATUS" => host.cmd # None /\ Ending(s, e)
         /\ psInst.scsi = "SENT_STATUS" => host.cmd # None /\ Reporting(s, e)
         /\ psInst.scsi = "IDLE" =>
              \/ Quiet(s, e)
              \/ /\ host.cmd # None
                 /\ Sent(s, e) \/ Obeyed(s, e) \/ Reporting(s, e) \/ Stalled(s, e)
BY DEF Phase, Quiet, Sent, Obeyed, Sending, Receiving, Ending, Reporting, Stalled

\* The numbers of a command
LEMMA Numbers ==
  ASSUME DeviceInv
  PROVE  /\ psInst.left \in Nat /\ psInst.lba \in Nat /\ host.done \in Nat
         /\ host.cmd # None =>
              /\ host.cmd \in LegalCommands /\ host.cmd.op \in AllOps /\ host.cmd.tag \in BOOLEAN
              /\ host.cmd.n \in Nat /\ host.cmd.n > 0 /\ host.cmd.lba \in Nat
              /\ host.cmd.op \notin {"READ", "WRITE"} => host.cmd.n = 1
<1>1. /\ psInst.left \in 0..MaxBlocks /\ psInst.lba \in 0..(MaxLBA + 1)
      /\ host.done \in 0..MaxBlocks /\ host.cmd \in LegalCommands \cup {None}
  BY Starts
<1>2. host.cmd # None =>
        /\ host.cmd \in LegalCommands /\ host.cmd.op \in AllOps /\ host.cmd.tag \in BOOLEAN
        /\ host.cmd.n \in 1..MaxBlocks /\ host.cmd.lba \in 0..MaxLBA
        /\ host.cmd.op \notin {"READ", "WRITE"} => host.cmd.n = 1
  BY <1>1, CommandIs DEF LBA
<1> QED
  BY <1>1, <1>2, MscAssumption DEF MscAssumption

\* The IN events: a block has gone and the next is read,
LEMMA SendNextInStep ==
  ASSUME DeviceInv, NEW s, NEW e \in Queues, Phase(s, e), SendNext, e # <<>>, Head(e) = "in"
  PROVE  Phase(s, Tail(e))'
<1>1. /\ psInst \in Machines /\ psInst.scsi = "SEND_BLOCKS" /\ job' = "sendNext"
      /\ psInst' = [psInst EXCEPT !.left = @ - 1, !.lba = @ + 1]
      /\ UNCHANGED <<pipe, host, csw, badRead>>
  BY Starts DEF SendNext, UseFlash, histVars
<1>2. host.cmd # None /\ Sending(s, e)
  BY <1>1, PhaseIs
<1>3. e = <<"in">> /\ Tail(e) = <<>> /\ e # <<>>
  BY <1>2, QueueRests DEF Sending
<1>4. /\ psInst'.scsi = "SEND_BLOCKS" /\ psInst'.dmaIn = psInst.dmaIn
      /\ psInst'.left = psInst.left - 1 /\ psInst'.lba = psInst.lba + 1
  BY <1>1 DEF Machines
<1>5. Sending(s, <<>>)'
  BY <1>1, <1>2, <1>3, <1>4, Numbers DEF Sending, NoStall, Holds
<1> QED
  BY <1>1, <1>2, <1>3, <1>5 DEF Phase

\* or it was the last,
LEMMA SendLastInStep ==
  ASSUME DeviceInv, NEW s, NEW e \in Queues, Phase(s, e), SendLast, e # <<>>, Head(e) = "in"
  PROVE  Phase(s, Tail(e))'
<1>1. /\ psInst \in Machines /\ pipe \in Pipes /\ psInst.scsi = "SEND_BLOCKS"
      /\ psInst.left = 1
      /\ csw \in [tag : BOOLEAN, bad : BOOLEAN] /\ csw' = [csw EXCEPT !.bad = FALSE]
      /\ job' = job /\ UNCHANGED <<host, badRead>>
  BY Starts DEF SendLast, NoStorage, histVars
<1>2. host.cmd # None /\ Sending(s, e)
  BY <1>1, PhaseIs
<1>3. e = <<"in">> /\ Tail(e) = <<>> /\ e # <<>> /\ job = "none"
  BY <1>2, QueueRests DEF Sending
<1>4. csw'.tag = host.cmd.tag /\ csw.tag = host.cmd.tag
  BY <1>1, <1>2 DEF Sending
<1>5. CASE pipe.in # None
  <2>1. /\ pipe' = pipe
        /\ psInst' = [psInst EXCEPT !.left = 0, !.dmaIn = FALSE, !.scsi = "SEND_STATUS"]
    BY <1>5 DEF SendLast
  <2>2. psInst'.scsi = "SEND_STATUS" /\ psInst'.dmaIn = FALSE
    BY <1>1, <2>1 DEF Machines
  <2>3. /\ host.done + 1 = host.cmd.n /\ s = "in"
        /\ pipe.in.kind # "csw" /\ Holds(pipe.in, host.cmd.lba + host.done)
        /\ pipe.dmaIn = None /\ ~pipe.dmaOut /\ pipe.out = None /\ NoStall
    BY <1>1, <1>2, <1>3, <1>5, Numbers DEF Sending
  <2>4. Ending(s, <<>>)'
    BY <1>1, <1>3, <1>4, <1>5, <2>1, <2>2, <2>3 DEF Ending, NoDma, NoStall, Holds
  <2> QED
    BY <1>1, <1>2, <1>3, <2>4 DEF Phase
<1>6. CASE pipe.in = None
  <2>1. /\ pipe' = [pipe EXCEPT !.in = Csw(csw.tag, FALSE)]
        /\ psInst' = [psInst EXCEPT !.left = 0, !.dmaIn = FALSE, !.scsi = "SENT_STATUS"]
    BY <1>6 DEF SendLast
  <2>2. psInst'.scsi = "SENT_STATUS" /\ psInst'.dmaIn = FALSE
    BY <1>1, <2>1 DEF Machines
  <2>3. /\ host.done = host.cmd.n /\ s = "status"
        /\ pipe.dmaIn = None /\ ~pipe.dmaOut /\ pipe.out = None /\ NoStall
    BY <1>1, <1>2, <1>3, <1>6, Numbers DEF Sending
  <2>4. /\ pipe'.in = Csw(csw.tag, FALSE) /\ pipe'.out = pipe.out /\ pipe'.dmaIn = pipe.dmaIn
        /\ pipe'.dmaOut = pipe.dmaOut
        /\ pipe'.inStall = pipe.inStall /\ pipe'.outStall = pipe.outStall
    BY <1>1, <2>1 DEF Pipes
  <2>5. Reporting(s, <<>>)'
    BY <1>1, <1>3, <1>4, <2>2, <2>3, <2>4 DEF Reporting, NoDma, NoStall
  <2> QED
    BY <1>1, <1>2, <1>3, <2>5 DEF Phase
<1> QED
  BY <1>5, <1>6

\* or the status follows, or has gone.
LEMMA StatusInStep ==
  ASSUME DeviceInv, NEW s, NEW e \in Queues, Phase(s, e), StatusPhase \/ StatusGone,
         e # <<>>, Head(e) = "in"
  PROVE  Phase(s, Tail(e))'
<1>1. /\ psInst \in Machines /\ pipe \in Pipes /\ job' = job
      /\ UNCHANGED <<host, badRead, csw>>
  BY Starts DEF StatusPhase, StatusGone, NoStorage, histVars
<1>2. CASE StatusPhase
  <2>1. /\ psInst.scsi = "SEND_STATUS" /\ psInst' = Scsi("SENT_STATUS")
        /\ pipe' = [pipe EXCEPT !.in = PutIn(Csw(csw.tag, csw.bad))]
    BY <1>2 DEF StatusPhase
  <2>2. host.cmd # None /\ Ending(s, e)
    BY <2>1, PhaseIs
  <2>3. /\ e = <<"in">> /\ s = "status" /\ pipe.in = None /\ NoStall
        /\ csw.bad \/ host.done = host.cmd.n
        /\ job = "none" /\ NoDma /\ pipe.out = None /\ csw.tag = host.cmd.tag
    BY <2>2, QueueDistinct DEF Ending
  <2>4. psInst'.scsi = "SENT_STATUS" /\ psInst'.dmaIn = psInst.dmaIn
    BY <1>1, <2>1 DEF Machines, Scsi
  <2>5. /\ pipe'.in = Csw(csw.tag, csw.bad) /\ pipe'.out = pipe.out /\ pipe'.dmaIn = pipe.dmaIn
        /\ pipe'.dmaOut = pipe.dmaOut
        /\ pipe'.inStall = pipe.inStall /\ pipe'.outStall = pipe.outStall
    BY <1>1, <2>1, <2>3 DEF Pipes, PutIn
  <2>6. csw.bad \in BOOLEAN
    BY Starts
  <2>7. Reporting(s, <<>>)'
    BY <1>1, <2>3, <2>4, <2>5, <2>6 DEF Reporting, NoDma, NoStall
  <2> QED
    BY <1>1, <2>2, <2>3, <2>7, QueueRests DEF Phase
<1>3. CASE StatusGone
  <2>1. /\ psInst.scsi = "SENT_STATUS" /\ psInst' = Scsi("IDLE") /\ pipe' = pipe
    BY <1>3 DEF StatusGone
  <2>2. host.cmd # None /\ Reporting(s, e)
    BY <2>1, PhaseIs
  <2>3. psInst'.scsi = "IDLE" /\ psInst'.dmaIn = psInst.dmaIn
    BY <1>1, <2>1 DEF Machines, Scsi
  <2>4. e \in {<<"in">>, <<"in", "in">>}
    BY QueueStarts
  <2>5. CASE s = "status"
    <3>1. e = <<"in">>
      BY <2>1, <2>2, <2>5, QueueDistinct DEF Reporting
    <3>2. Reporting(s, <<>>)'
      BY <1>1, <2>1, <2>2, <2>3, <2>5, <3>1, QueueDistinct DEF Reporting, NoDma
    <3> QED
      BY <1>1, <2>2, <3>1, <3>2, QueueRests DEF Phase
  <2>6. CASE s # "status"
    <3>1. s \in {"wait", "idle"} /\ pipe.in = None /\ ~pipe.inStall
      BY <2>1, <2>2, <2>6 DEF Reporting
    <3>2. Tail(e) \in {<<>>, <<"in">>}
      BY <2>4, QueueRests
    <3>3. Quiet(s, Tail(e))'
      BY <1>1, <2>1, <2>2, <2>3, <3>1, <3>2 DEF Reporting, Quiet, NoDma, NoPacket, NoStall
    <3> QED
      BY <3>3 DEF Phase
  <2> QED
    BY <2>5, <2>6
<1> QED
  BY <1>2, <1>3

\* The OUT events: a block has come,
LEMMA ReceiveInStep ==
  ASSUME DeviceInv, NEW s, NEW e \in Queues, Phase(s, e), ReceiveBlock, e # <<>>, Head(e) = "out"
  PROVE  Phase(s, Tail(e))'
<1>1. /\ psInst \in Machines /\ psInst.scsi = "RECEIVE_BLOCKS" /\ job' = "receive"
      /\ psInst' = [psInst EXCEPT !.left = @ - 1]
      /\ UNCHANGED <<pipe, host, csw, badRead>>
  BY Starts DEF ReceiveBlock, UseFlash, histVars
<1>2. host.cmd # None /\ Receiving(s, e)
  BY <1>1, PhaseIs
<1>3. e = <<"out">> /\ Tail(e) = <<>> /\ e # <<>>
  BY QueueStarts, QueueRests
<1>4. /\ psInst'.scsi = "RECEIVE_BLOCKS" /\ psInst'.dmaIn = psInst.dmaIn
      /\ psInst'.left = psInst.left - 1 /\ psInst'.lba = psInst.lba /\ psInst'.buf = psInst.buf
  BY <1>1 DEF Machines
<1>5. Receiving(s, <<>>)'
  BY <1>1, <1>2, <1>3, <1>4, Numbers DEF Receiving, NoStall, NoPacket
<1> QED
  BY <1>1, <1>2, <1>3, <1>5 DEF Phase

\* or an event that nobody expects.
LEMMA IgnoreInStep ==
  ASSUME DeviceInv, NEW s, NEW e \in Queues, Phase(s, e), e # <<>>,
         UNCHANGED <<psInst, pipe, csw, command, job, badRead, pvMedia, host>>,
         \/ Head(e) = "in" /\ psInst.scsi \in {"IDLE", "RECEIVE_BLOCKS"}
         \/ Head(e) = "out" /\ psInst.scsi \in {"SEND_BLOCKS", "SEND_STATUS", "SENT_STATUS"}
  PROVE  Phase(s, Tail(e))'
<1>1. CASE Head(e) = "in" /\ psInst.scsi = "IDLE"
  <2>1. e \in {<<"in">>, <<"in", "in">>}
    BY <1>1, QueueStarts
  <2>2. \/ Quiet(s, e)
        \/ host.cmd # None /\ (Sent(s, e) \/ Obeyed(s, e) \/ Reporting(s, e) \/ Stalled(s, e))
    BY <1>1, PhaseIs
  <2>3. e = <<"in">> /\ (Quiet(s, e) \/ (host.cmd # None /\ Stalled(s, e)))
    BY <1>1, <2>1, <2>2, QueueDistinct DEF Quiet, Sent, Obeyed, Reporting, Stalled
  <2>4. Tail(e) = <<>>
    BY <2>3, QueueRests
  <2>5. CASE Quiet(s, e)
    <3>1. s \in {"wait", "idle"} /\ job = "none"
      BY <2>3, <2>5, QueueDistinct DEF Quiet
    <3>2. Quiet(s, <<>>)'
      BY <2>5, <3>1 DEF Quiet, NoDma, NoPacket, NoStall
    <3> QED
      BY <2>4, <3>2 DEF Phase
  <2>6. CASE host.cmd # None /\ Stalled(s, e)
    <3>1. Stalled(s, <<>>)'
      BY <2>3, <2>6, QueueDistinct DEF Stalled, NoDma, NoPacket
    <3> QED
      BY <2>4, <2>6, <3>1 DEF Phase
  <2> QED
    BY <2>3, <2>5, <2>6
<1>2. CASE Head(e) = "out" /\ psInst.scsi = "SEND_STATUS"
  <2>1. host.cmd # None /\ Ending(s, e)
    BY <1>2, PhaseIs
  <2>2. e = <<"out">> /\ Tail(e) = <<>>
    BY <1>2, QueueStarts, QueueRests
  <2>3. Ending(s, <<>>)'
    BY <2>1, <2>2, QueueDistinct DEF Ending, NoDma, NoStall, Holds
  <2> QED
    BY <2>1, <2>2, <2>3 DEF Phase
<1>3. ~(Head(e) = "in" /\ psInst.scsi = "RECEIVE_BLOCKS")
  <2> SUFFICES ASSUME Head(e) = "in", psInst.scsi = "RECEIVE_BLOCKS"
               PROVE  FALSE
    OBVIOUS
  <2>1. Receiving(s, e)
    BY PhaseIs
  <2> QED
    BY <2>1, QueueDistinct DEF Receiving
<1>4. ~(Head(e) = "out" /\ psInst.scsi \in {"SEND_BLOCKS", "SENT_STATUS"})
  <2> SUFFICES ASSUME Head(e) = "out", psInst.scsi \in {"SEND_BLOCKS", "SENT_STATUS"}
               PROVE  FALSE
    OBVIOUS
  <2>1. Sending(s, e) \/ Reporting(s, e)
    BY PhaseIs
  <2> QED
    BY <2>1, QueueDistinct DEF Sending, Reporting
<1> QED
  BY <1>1, <1>2, <1>3, <1>4

\* The command that is obeyed is the host's, or the one it has just given up.
LEMMA ObeysHost ==
  ASSUME DeviceInv, NEW s, NEW e \in Queues, Phase(s, e), NEW op, Obey(op),
         e # <<>>, Head(e) = "out"
  PROVE  /\ e = <<"out">> /\ Tail(e) = <<>>
         /\ host.cmd # None /\ Received = host.cmd /\ host.cmd.op = op
         /\ NoDma /\ pipe.in = None /\ ~pipe.inStall /\ ~pipe.outStall
         /\ \/ op = "SELECT" /\ s = "status"
            \/ s = FirstPhase(op) /\ host.done = 0
<1>1. e = <<"out">> /\ Tail(e) = <<>>
  BY QueueStarts, QueueRests
<1>2. psInst.scsi = "IDLE" /\ Received # None /\ Received.op = op
  BY DEF Obey
<1>3. \/ Quiet(s, e)
      \/ host.cmd # None /\ (Sent(s, e) \/ Obeyed(s, e) \/ Reporting(s, e) \/ Stalled(s, e))
  BY <1>2, PhaseIs
<1>4. host.cmd # None /\ (Sent(s, e) \/ Stalled(s, e))
  BY <1>1, <1>3, QueueDistinct DEF Quiet, Obeyed, Reporting
<1>5. CASE Sent(s, e)
  BY <1>1, <1>2, <1>4, <1>5 DEF Sent, Received, NoStall
<1>6. CASE Stalled(s, e)
  BY <1>1, <1>2, <1>4, <1>6, QueueDistinct DEF Stalled, Received, NoPacket
<1> QED
  BY <1>4, <1>5, <1>6

\* The answer to a command
LEMMA AnswerIs ==
  ASSUME pipe \in Pipes, pipe.in = None, NEW p,
         \/ pipe' = [pipe EXCEPT !.out = None, !.in = PutIn(p)]
         \/ pipe' = [pipe EXCEPT !.out = None, !.in = PutIn(p), !.inStall = TRUE]
  PROVE  /\ pipe'.in = p /\ pipe'.out = None
         /\ pipe'.dmaIn = pipe.dmaIn /\ pipe'.dmaOut = pipe.dmaOut
         /\ pipe'.outStall = pipe.outStall
         /\ pipe' = [pipe EXCEPT !.out = None, !.in = PutIn(p)] => pipe'.inStall = pipe.inStall
<1>1. PutIn(p) = p
  BY DEF PutIn
<1> QED
  BY <1>1 DEF Pipes

\* What the host waits for first
LEMMA FirstPhaseIs ==
  /\ \A op \in DataIn : FirstPhase(op) = "in"
  /\ \A op \in DataOut : FirstPhase(op) = "out"
  /\ \A op \in NoData \cup {"OTHER"} : FirstPhase(op) = "status"
<1>1. ASSUME NEW op \in DataIn
      PROVE  FirstPhase(op) = "in"
  <2>1. op \notin DataOut
    BY DEF DataIn, DataOut
  <2> QED
    BY <2>1 DEF FirstPhase
<1>2. ASSUME NEW op \in DataOut
      PROVE  FirstPhase(op) = "out"
  <2>1. op \notin DataIn
    BY DEF DataIn, DataOut
  <2> QED
    BY <2>1 DEF FirstPhase
<1>3. ASSUME NEW op \in NoData \cup {"OTHER"}
      PROVE  FirstPhase(op) = "status"
  <2>1. op \notin DataIn /\ op \notin DataOut
    BY DEF DataIn, DataOut, NoData
  <2> QED
    BY <2>1 DEF FirstPhase
<1> QED
  BY <1>1, <1>2, <1>3

\* A short response, or a refusal of data, ends the command,
LEMMA ShortInStep ==
  ASSUME DeviceInv, NEW s, NEW e \in Queues, Phase(s, e), Respond \/ RefuseData,
         e # <<>>, Head(e) = "out"
  PROVE  Phase(s, Tail(e))'
<1>1. PICK op : Obey(op)
  BY DEF Respond, RefuseData
<1>2. /\ e = <<"out">> /\ Tail(e) = <<>>
      /\ host.cmd # None /\ Received = host.cmd /\ host.cmd.op = op
      /\ NoDma /\ pipe.in = None /\ ~pipe.inStall /\ ~pipe.outStall
      /\ \/ op = "SELECT" /\ s = "status"
         \/ s = FirstPhase(op) /\ host.done = 0
  BY <1>1, ObeysHost
<1>3. /\ psInst \in Machines /\ pipe \in Pipes /\ job = "none" /\ job' = "none"
      /\ UNCHANGED <<host, badRead, pvMedia>>
  BY <1>1, Starts, Receives DEF Respond, RefuseData, NoStorage, storageVars, histVars
<1>4. psInst' = Scsi("SEND_STATUS") /\ csw'.tag = host.cmd.tag
  BY <1>2 DEF Respond, RefuseData
<1>5. psInst'.scsi = "SEND_STATUS" /\ psInst'.dmaIn = psInst.dmaIn
  BY <1>3, <1>4 DEF Machines, Scsi
<1>6. CASE Respond
  <2>1. host.cmd.op \in {"INQUIRY", "CAPACITY"}
    BY <1>2, <1>6 DEF Respond, Obey
  <2>2. s = "in" /\ host.done + 1 = host.cmd.n
    <3>1. host.cmd.op \in DataIn /\ host.cmd.op # "SELECT"
      BY <2>1 DEF DataIn
    <3> QED
      BY <1>2, <2>1, <3>1, FirstPhaseIs, Numbers
  <2>3. pipe' = [pipe EXCEPT !.out = None, !.in = PutIn(Response)]
    BY <1>6 DEF Respond
  <2>4. /\ pipe'.in = Response /\ pipe'.out = None
        /\ pipe'.dmaIn = pipe.dmaIn /\ pipe'.dmaOut = pipe.dmaOut
        /\ pipe'.outStall = pipe.outStall /\ pipe'.inStall = pipe.inStall
    BY <1>2, <1>3, <2>3, AnswerIs
  <2>5. Ending(s, <<>>)'
    BY <1>2, <1>3, <1>4, <1>5, <2>1, <2>2, <2>4, Kinds DEF Ending, NoDma, NoStall
  <2> QED
    BY <1>2, <1>3, <2>5 DEF Phase
<1>7. CASE RefuseData
  <2>1. host.cmd.op \in {"CAPACITY", "READ", "WRITE"} /\ ~pvMedia /\ csw'.bad = TRUE
    BY <1>2, <1>7 DEF RefuseData, Obey
  <2>2. CASE host.cmd.op = "WRITE"
    <3>1. s = "out"
      BY <1>2, <2>2, FirstPhaseIs DEF DataOut
    <3>2. pipe' = [pipe EXCEPT !.out = None, !.outStall = TRUE]
      BY <1>2, <1>7, <2>2 DEF RefuseData
    <3>3. /\ pipe'.in = None /\ pipe'.out = None /\ pipe'.outStall = TRUE
          /\ pipe'.dmaIn = pipe.dmaIn /\ pipe'.dmaOut = pipe.dmaOut
          /\ pipe'.inStall = pipe.inStall
      BY <1>2, <1>3, <3>2 DEF Pipes
    <3>4. Ending(s, <<>>)'
      BY <1>2, <1>3, <1>4, <1>5, <2>1, <2>2, <3>1, <3>3 DEF Ending, NoDma
    <3> QED
      BY <1>2, <1>3, <3>4 DEF Phase
  <2>3. CASE host.cmd.op # "WRITE"
    <3>1. s = "in"
      <4>1. host.cmd.op \in DataIn
        BY <2>1, <2>3 DEF DataIn
      <4> QED
        BY <1>2, <2>1, <4>1, FirstPhaseIs
    <3>2. pipe' = [pipe EXCEPT !.out = None, !.inStall = TRUE]
      BY <1>2, <1>7, <2>3 DEF RefuseData
    <3>3. /\ pipe'.in = None /\ pipe'.out = None /\ pipe'.inStall = TRUE
          /\ pipe'.dmaIn = pipe.dmaIn /\ pipe'.dmaOut = pipe.dmaOut
          /\ pipe'.outStall = pipe.outStall
      BY <1>2, <1>3, <3>2 DEF Pipes
    <3>4. Ending(s, <<>>)'
      BY <1>2, <1>3, <1>4, <1>5, <2>1, <3>1, <3>3 DEF Ending, NoDma
    <3> QED
      BY <1>2, <1>3, <3>4 DEF Phase
  <2> QED
    BY <2>2, <2>3
<1> QED
  BY <1>6, <1>7

\* a command that is not known stalls,
LEMMA UnknownInStep ==
  ASSUME DeviceInv, NEW s, NEW e \in Queues, Phase(s, e), Unknown, e # <<>>, Head(e) = "out"
  PROVE  Phase(s, Tail(e))'
<1>1. PICK op \in {"UNKNOWN", "SELECT"} : Obey(op)
  BY DEF Unknown
<1>2. /\ e = <<"out">> /\ Tail(e) = <<>>
      /\ host.cmd # None /\ Received = host.cmd /\ host.cmd.op = op
      /\ NoDma /\ pipe.in = None /\ ~pipe.inStall /\ ~pipe.outStall
      /\ \/ op = "SELECT" /\ s = "status"
         \/ s = FirstPhase(op) /\ host.done = 0
  BY <1>1, ObeysHost
<1>3. /\ psInst \in Machines /\ pipe \in Pipes /\ job = "none" /\ job' = "none"
      /\ psInst.scsi = "IDLE"
      /\ UNCHANGED <<host, psInst>>
  BY <1>1, Starts, Receives DEF Unknown, NoStorage
<1>4. command' = host.cmd
  BY <1>2 DEF Unknown
<1>5. CASE op = "SELECT"
  <2>1. s \in {"out", "status"}
    BY <1>2, <1>5, FirstPhaseIs DEF DataOut
  <2>2. pipe' = [pipe EXCEPT !.out = None, !.outStall = TRUE]
    BY <1>2, <1>5 DEF Unknown
  <2>3. /\ pipe'.in = None /\ pipe'.out = None /\ pipe'.outStall = TRUE
        /\ pipe'.dmaIn = pipe.dmaIn /\ pipe'.dmaOut = pipe.dmaOut
        /\ pipe'.inStall = pipe.inStall
    BY <1>2, <1>3, <2>2 DEF Pipes
  <2>4. Stalled(s, <<>>)'
    BY <1>2, <1>3, <1>4, <1>5, <2>1, <2>3 DEF Stalled, NoDma, NoPacket
  <2> QED
    BY <1>2, <1>3, <2>4 DEF Phase
<1>6. CASE op = "UNKNOWN"
  <2>1. s = "in"
    BY <1>2, <1>6, FirstPhaseIs DEF DataIn
  <2>2. pipe' = [pipe EXCEPT !.out = None, !.inStall = TRUE]
    BY <1>2, <1>6 DEF Unknown
  <2>3. /\ pipe'.in = None /\ pipe'.out = None /\ pipe'.inStall = TRUE
        /\ pipe'.dmaIn = pipe.dmaIn /\ pipe'.dmaOut = pipe.dmaOut
        /\ pipe'.outStall = pipe.outStall
    BY <1>2, <1>3, <2>2 DEF Pipes
  <2>4. Stalled(s, <<>>)'
    BY <1>2, <1>3, <1>6, <2>1, <2>3 DEF Stalled, NoDma, NoPacket
  <2> QED
    BY <1>2, <1>3, <2>4 DEF Phase
<1> QED
  BY <1>1, <1>5, <1>6

\* one without data is answered,
LEMMA NoDataInStep ==
  ASSUME DeviceInv, NEW s, NEW e \in Queues, Phase(s, e),
         TestUnitReady \/ Removal \/ Fail \/ RefuseNoData, e # <<>>, Head(e) = "out"
  PROVE  Phase(s, Tail(e))'
<1>1. PICK op \in NoData \cup {"OTHER"} : Obey(op)
  BY DEF TestUnitReady, Removal, Fail, RefuseNoData, NoData
<1>2. /\ e = <<"out">> /\ Tail(e) = <<>>
      /\ host.cmd # None /\ Received = host.cmd /\ host.cmd.op = op
      /\ NoDma /\ pipe.in = None /\ ~pipe.inStall /\ ~pipe.outStall
      /\ \/ op = "SELECT" /\ s = "status"
         \/ s = FirstPhase(op) /\ host.done = 0
  BY <1>1, ObeysHost
<1>3. /\ psInst \in Machines /\ pipe \in Pipes /\ job = "none" /\ job' = "none"
      /\ psInst.scsi = "IDLE"
      /\ UNCHANGED host
  BY <1>1, Starts, Receives DEF TestUnitReady, Removal, Fail, RefuseNoData, NoStorage
<1>4. s = "status"
  BY <1>1, <1>2, FirstPhaseIs DEF NoData
<1>5. psInst'.scsi = "SENT_STATUS" /\ psInst'.dmaIn = psInst.dmaIn
  <2>1. \/ psInst' = Scsi("SENT_STATUS")
        \/ \E v \in BOOLEAN : \/ psInst' = [Scsi("SENT_STATUS") EXCEPT !.ejected = v]
                              \/ psInst' = [Scsi("SENT_STATUS") EXCEPT !.removal = v]
    BY DEF TestUnitReady, Removal, Fail, RefuseNoData
  <2> QED
    BY <1>3, <2>1 DEF Scsi, Machines
<1>6. PICK bad \in BOOLEAN :
        /\ \/ pipe' = [pipe EXCEPT !.out = None, !.in = PutIn(Csw(host.cmd.tag, bad))]
           \/ pipe' = [pipe EXCEPT !.out = None, !.in = PutIn(Csw(host.cmd.tag, bad)),
                                   !.inStall = TRUE]
        /\ bad \/ op \in NoData
  <2>1. CASE TestUnitReady
    <3>1. Answer(~pvMedia) /\ (~pvMedia) \in BOOLEAN /\ Obey("TUR")
      BY <2>1 DEF TestUnitReady
    <3>2. op \in NoData
      BY <1>2, <3>1 DEF Obey, NoData
    <3> QED
      BY <1>2, <3>1, <3>2 DEF Answer
  <2>2. CASE Removal
    <3>1. op \in NoData
      BY <1>2, <2>2 DEF Removal, Obey, NoData
    <3> QED
      BY <1>2, <2>2, <3>1 DEF Removal, Answer
  <2>3. CASE Fail
    BY <1>2, <2>3 DEF Fail, Answer
  <2>4. CASE RefuseNoData
    BY <1>2, <2>4 DEF RefuseNoData, AnswerStall
  <2> QED
    BY <2>1, <2>2, <2>3, <2>4
<1>7. /\ pipe'.in = Csw(host.cmd.tag, bad) /\ pipe'.out = None
      /\ pipe'.dmaIn = pipe.dmaIn /\ pipe'.dmaOut = pipe.dmaOut
      /\ pipe'.outStall = pipe.outStall
  <2> DEFINE p == Csw(host.cmd.tag, bad)
  <2>1. \/ pipe' = [pipe EXCEPT !.out = None, !.in = PutIn(p)]
        \/ pipe' = [pipe EXCEPT !.out = None, !.in = PutIn(p), !.inStall = TRUE]
    BY <1>6
  <2> HIDE DEF p
  <2>2. /\ pipe'.in = p /\ pipe'.out = None
        /\ pipe'.dmaIn = pipe.dmaIn /\ pipe'.dmaOut = pipe.dmaOut
        /\ pipe'.outStall = pipe.outStall
    BY <1>2, <1>3, <2>1, AnswerIs
  <2> QED
    BY <2>2 DEF p
<1>8. Reporting(s, <<>>)'
  BY <1>2, <1>3, <1>4, <1>5, <1>6, <1>7 DEF Reporting, NoDma
<1> QED
  BY <1>2, <1>3, <1>8 DEF Phase

\* and the handler of one that transfers blocks, or opens the drive or closes
\* it, goes on or waits for storage.
LEMMA CallInStep ==
  ASSUME DeviceInv, NEW s, NEW e \in Queues, Phase(s, e),
         Read10 \/ Write10 \/ Open \/ Eject, e # <<>>, Head(e) = "out"
  PROVE  Phase(s, Tail(e))'
<1>1. PICK op \in {"READ", "WRITE", "TUR", "LOAD", "EJECT"} : Obey(op)
  BY DEF Read10, Write10, Open, Eject
<1>2. /\ e = <<"out">> /\ Tail(e) = <<>>
      /\ host.cmd # None /\ Received = host.cmd /\ host.cmd.op = op
      /\ NoDma /\ pipe.in = None /\ ~pipe.inStall /\ ~pipe.outStall
      /\ s = FirstPhase(op) /\ host.done = 0
  BY <1>1, ObeysHost
<1>3. /\ psInst \in Machines /\ pipe \in Pipes /\ job = "none"
      /\ psInst.scsi = "IDLE" /\ UNCHANGED <<host, badRead>>
      /\ command' = host.cmd /\ csw'.tag = host.cmd.tag
  BY <1>1, <1>2, Starts, Receives DEF Read10, Write10, Open, Eject, histVars
<1>4. CASE Read10 \/ Open \/ Eject
  <2>1. psInst'.scsi = "IDLE" /\ psInst'.dmaIn = psInst.dmaIn
    BY <1>3, <1>4 DEF Read10, Open, Eject, Machines
  <2>2. pipe' = [pipe EXCEPT !.out = None]
    BY <1>4 DEF Read10, Open, Eject
  <2>3. /\ pipe'.in = pipe.in /\ pipe'.out = None
        /\ pipe'.dmaIn = pipe.dmaIn /\ pipe'.dmaOut = pipe.dmaOut
        /\ pipe'.inStall = pipe.inStall /\ pipe'.outStall = pipe.outStall
    BY <1>3, <2>2 DEF Pipes
  <2>4. \/ job' = "read" /\ host.cmd.op = "READ"
        \/ job' \in {"test", "load", "eject"} /\ host.cmd.op \in NoData
    BY <1>2, <1>4 DEF Read10, Open, Eject, UseFlash, Obey, NoData
  <2>5. Obeyed(s, <<>>)'
    BY <1>2, <1>3, <2>1, <2>3, <2>4 DEF Obeyed, NoDma, NoPacket, NoStall
  <2> QED
    BY <1>2, <1>3, <2>5 DEF Phase
<1>5. CASE Write10
  <2>1. /\ psInst' = [psInst EXCEPT !.scsi = "RECEIVE_BLOCKS", !.lba = host.cmd.lba,
                                    !.left = host.cmd.n]
        /\ pipe' = [pipe EXCEPT !.out = None, !.dmaOut = TRUE]
        /\ job' = "none" /\ host.cmd.op = "WRITE"
    BY <1>2, <1>3, <1>5 DEF Write10, NoStorage, Obey
  <2>2. /\ psInst'.scsi = "RECEIVE_BLOCKS" /\ psInst'.lba = host.cmd.lba
        /\ psInst'.left = host.cmd.n /\ psInst'.dmaIn = psInst.dmaIn
    BY <1>3, <2>1 DEF Machines
  <2>3. /\ pipe'.in = pipe.in /\ pipe'.out = None
        /\ pipe'.dmaIn = pipe.dmaIn /\ pipe'.dmaOut = TRUE
        /\ pipe'.inStall = pipe.inStall /\ pipe'.outStall = pipe.outStall
    BY <1>3, <2>1 DEF Pipes
  <2>4. s = "out"
    BY <1>2, <2>1, FirstPhaseIs DEF DataOut
  <2>5. Receiving(s, <<>>)'
    BY <1>2, <1>3, <2>1, <2>2, <2>3, <2>4, Numbers DEF Receiving, NoDma, NoPacket, NoStall
  <2> QED
    BY <1>2, <1>3, <2>5 DEF Phase
<1> QED
  BY <1>4, <1>5

\* A handler goes on after storage: a block has been read and goes to the host,
LEMMA ReadInStep ==
  ASSUME DeviceInv, NEW s, NEW e, Phase(s, e), SendNextRead \/ Read10Read
  PROVE  Phase(s, e)'
<1>1. /\ psInst \in Machines /\ pipe \in Pipes /\ psInst.lba \in 0..(MaxLBA + 1)
      /\ job \in {"sendNext", "read"} /\ job' = "none"
      /\ UNCHANGED <<host, csw, command>>
  BY Starts DEF SendNextRead, Read10Read, Resume, BlockRead
<1>2. badRead => badRead'
  BY DEF SendNextRead, Read10Read, BlockRead
<1>3. CASE SendNextRead
  <2>1. job = "sendNext" /\ psInst.scsi = "SEND_BLOCKS" /\ BlockRead(psInst.left)
    BY <1>3 DEF SendNextRead, Resume, DeviceInv, JobInv
  <2>2. host.cmd # None /\ Sending(s, e)
    BY <2>1, PhaseIs
  <2>3. psInst.left \in 1..MaxBlocks /\ psInst.lba \in LBA
    BY <2>1, Starts, MscAssumption DEF DeviceInv, RangeInv, LBA, MscAssumption
  <2>4. PICK b \in Blocks :
          /\ psInst' = Machine("SEND_BLOCKS", psInst.left, psInst.lba, b, TRUE)
          /\ pipe' = Pipe(pipe.in, pipe.out, b, pipe.dmaOut, pipe.inStall, pipe.outStall)
          /\ b = InBlock(psInst.lba) \/ badRead'
    BY <2>1, <2>3, BlockReadIs
  <2>5. /\ psInst'.scsi = "SEND_BLOCKS" /\ psInst'.left = psInst.left
        /\ psInst'.lba = psInst.lba /\ psInst'.dmaIn = TRUE
    BY <1>1, <2>4 DEF Machine, Machines
  <2>6. /\ pipe'.in = pipe.in /\ pipe'.out = pipe.out /\ pipe'.dmaIn = b
        /\ pipe'.dmaOut = pipe.dmaOut
        /\ pipe'.inStall = pipe.inStall /\ pipe'.outStall = pipe.outStall
    BY <1>1, <2>4 DEF Pipe, Pipes
  <2>7. b # None
    BY <2>4, BlockIs
  <2>8. /\ e = <<>> /\ ~pipe.dmaOut /\ pipe.out = None /\ NoStall
        /\ host.cmd.op = "READ" /\ csw.tag = host.cmd.tag
        /\ s = IF host.done = host.cmd.n THEN "status" ELSE "in"
        /\ psInst.lba + psInst.left = host.cmd.lba + host.cmd.n
        /\ host.done + (IF pipe.in = None THEN 0 ELSE 1) = host.cmd.n - psInst.left + 0
        /\ pipe.in # None => pipe.in.kind # "csw" /\ Holds(pipe.in, host.cmd.lba + host.done)
    BY <2>1, <2>2 DEF Sending
  <2>9. Holds(pipe.dmaIn, psInst.lba)' /\ NoStall'
    BY <2>4, <2>5, <2>6, <2>8 DEF Holds, NoStall
  <2>10. (pipe.in # None => pipe.in.kind # "csw" /\ Holds(pipe.in, host.cmd.lba + host.done))'
    BY <1>1, <1>2, <2>6, <2>8 DEF Holds
  <2>11. Sending(s, e)'
    BY <1>1, <2>5, <2>6, <2>7, <2>8, <2>9, <2>10 DEF Sending
  <2> QED
    BY <1>1, <2>2, <2>11 DEF Phase
<1>4. CASE Read10Read
  <2>1. job = "read" /\ psInst.scsi = "IDLE" /\ BlockRead(command.n)
    BY <1>4 DEF Read10Read, Resume, DeviceInv, JobInv
  <2>2. host.cmd # None /\ Obeyed(s, e)
    <3>1. \/ Quiet(s, e)
          \/ host.cmd # None /\ (Sent(s, e) \/ Obeyed(s, e) \/ Reporting(s, e) \/ Stalled(s, e))
      BY <2>1, PhaseIs
    <3> QED
      BY <2>1, <3>1 DEF Quiet, Sent, Reporting, Stalled
  <2>3. /\ command = host.cmd /\ host.cmd.op = "READ" /\ e = <<>>
        /\ host.done = 0 /\ s = FirstPhase("READ")
        /\ csw.tag = host.cmd.tag /\ NoDma /\ NoPacket /\ NoStall
    BY <2>1, <2>2 DEF Obeyed
  <2>4. psInst.lba = host.cmd.lba
    BY <2>1, <2>3 DEF DeviceInv, RangeInv
  <2>5. host.cmd.n \in 1..MaxBlocks /\ psInst.lba \in LBA
    BY <2>2, <2>4, Starts, CommandIs
  <2>6. PICK b \in Blocks :
          /\ psInst' = Machine("SEND_BLOCKS", host.cmd.n, psInst.lba, b, TRUE)
          /\ pipe' = Pipe(pipe.in, pipe.out, b, pipe.dmaOut, pipe.inStall, pipe.outStall)
          /\ b = InBlock(psInst.lba) \/ badRead'
    BY <2>1, <2>3, <2>5, BlockReadIs
  <2>7. /\ psInst'.scsi = "SEND_BLOCKS" /\ psInst'.left = host.cmd.n
        /\ psInst'.lba = psInst.lba /\ psInst'.dmaIn = TRUE
    BY <1>1, <2>6 DEF Machine, Machines
  <2>8. /\ pipe'.in = pipe.in /\ pipe'.out = pipe.out /\ pipe'.dmaIn = b
        /\ pipe'.dmaOut = pipe.dmaOut
        /\ pipe'.inStall = pipe.inStall /\ pipe'.outStall = pipe.outStall
    BY <1>1, <2>6 DEF Pipe, Pipes
  <2>9. b # None /\ s = "in"
    BY <2>3, <2>6, BlockIs, FirstPhaseIs DEF DataIn
  <2>10. Holds(pipe.dmaIn, psInst.lba)' /\ NoStall'
    BY <2>3, <2>6, <2>7, <2>8 DEF Holds, NoStall
  <2>11. /\ pipe'.in = None /\ pipe'.out = None /\ ~pipe'.dmaOut
    BY <2>3, <2>8 DEF NoDma, NoPacket
  <2>12. /\ (psInst.lba + psInst.left = host.cmd.lba + host.cmd.n)'
         /\ host'.done + 0 = host'.cmd.n - psInst'.left + 0
         /\ host'.done # host'.cmd.n
    BY <1>1, <2>2, <2>3, <2>4, <2>7, Numbers
  <2>13. Sending(s, e)'
    BY <1>1, <2>3, <2>7, <2>8, <2>9, <2>10, <2>11, <2>12 DEF Sending
  <2> QED
    BY <1>1, <2>2, <2>13 DEF Phase
<1> QED
  BY <1>3, <1>4

\* one has been written and the next is awaited, or it was the last,
LEMMA WrittenInStep ==
  ASSUME DeviceInv, NEW s, NEW e, Phase(s, e), BlockWritten
  PROVE  Phase(s, e)'
<1>1. /\ psInst \in Machines /\ pipe \in Pipes
      /\ csw \in [tag : BOOLEAN, bad : BOOLEAN]
      /\ job = "receive" /\ psInst.scsi = "RECEIVE_BLOCKS" /\ job' = "none"
      /\ UNCHANGED host
  BY Starts DEF BlockWritten, Resume, DeviceInv, JobInv
<1>2. host.cmd # None /\ Receiving(s, e)
  BY <1>1, PhaseIs
<1>3. /\ e = <<>> /\ ~pipe.dmaOut /\ psInst.lba + 1 = host.cmd.lba + host.done
      /\ ~psInst.dmaIn /\ pipe.dmaIn = None /\ pipe.in = None /\ pipe.out = None
      /\ NoStall /\ csw.tag = host.cmd.tag /\ host.cmd.op = "WRITE"
      /\ s = IF host.done = host.cmd.n THEN "status" ELSE "out"
      /\ host.done = host.cmd.n - psInst.left
  BY <1>1, <1>2, Numbers DEF Receiving, NoPacket
<1>4. CASE psInst.left = 0
  <2>1. /\ psInst' = [psInst EXCEPT !.lba = @ + 1, !.scsi = "SENT_STATUS"]
        /\ csw' = [csw EXCEPT !.bad = FALSE]
        /\ pipe' = [pipe EXCEPT !.in = PutIn(Csw(csw.tag, FALSE))]
    BY <1>4 DEF BlockWritten
  <2>2. psInst'.scsi = "SENT_STATUS" /\ psInst'.dmaIn = psInst.dmaIn
    BY <1>1, <2>1 DEF Machines
  <2>3. /\ pipe'.in = Csw(csw.tag, FALSE) /\ pipe'.out = pipe.out /\ pipe'.dmaIn = pipe.dmaIn
        /\ pipe'.dmaOut = pipe.dmaOut
        /\ pipe'.inStall = pipe.inStall /\ pipe'.outStall = pipe.outStall
    BY <1>1, <1>3, <2>1 DEF Pipes, PutIn
  <2>4. host.done = host.cmd.n
    BY <1>2, <1>3, <1>4, Numbers
  <2>5. Reporting(s, e)'
    BY <1>1, <1>3, <2>2, <2>3, <2>4 DEF Reporting, NoDma, NoStall
  <2> QED
    BY <1>1, <1>2, <2>5 DEF Phase
<1>5. CASE psInst.left # 0
  <2>1. /\ psInst' = [psInst EXCEPT !.lba = @ + 1]
        /\ csw' = csw
        /\ pipe' = [pipe EXCEPT !.dmaOut = TRUE]
    BY <1>5 DEF BlockWritten
  <2>2. /\ psInst'.scsi = "RECEIVE_BLOCKS" /\ psInst'.dmaIn = psInst.dmaIn
        /\ psInst'.lba = psInst.lba + 1 /\ psInst'.left = psInst.left
    BY <1>1, <2>1 DEF Machines
  <2>3. /\ pipe'.in = pipe.in /\ pipe'.out = pipe.out /\ pipe'.dmaIn = pipe.dmaIn
        /\ pipe'.dmaOut = TRUE
        /\ pipe'.inStall = pipe.inStall /\ pipe'.outStall = pipe.outStall
    BY <1>1, <2>1 DEF Pipes
  <2>4. (psInst.lba = host.cmd.lba + host.done)' /\ NoPacket' /\ NoStall'
    BY <1>1, <1>3, <2>2, <2>3 DEF NoPacket, NoStall
  <2>5. host'.done = host'.cmd.n - psInst'.left + 0
    BY <1>1, <1>2, <1>3, <2>2, Numbers
  <2>6. Receiving(s, e)'
    BY <1>1, <1>3, <2>1, <2>2, <2>3, <2>4, <2>5 DEF Receiving
  <2> QED
    BY <1>1, <1>2, <2>6 DEF Phase
<1> QED
  BY <1>4, <1>5

\* the drive has been opened or closed and the status is sent,
LEMMA OpenedInStep ==
  ASSUME DeviceInv, NEW s, NEW e, Phase(s, e), Opened \/ Ejected
  PROVE  Phase(s, e)'
<1>1. /\ psInst \in Machines /\ pipe \in Pipes
      /\ job \in {"test", "load", "eject"} /\ psInst.scsi = "IDLE" /\ job' = "none"
      /\ UNCHANGED host
  BY Starts DEF Opened, Ejected, Resume, DeviceInv, JobInv
<1>2. host.cmd # None /\ Obeyed(s, e)
  <2>1. \/ Quiet(s, e)
        \/ host.cmd # None /\ (Sent(s, e) \/ Obeyed(s, e) \/ Reporting(s, e) \/ Stalled(s, e))
    BY <1>1, PhaseIs
  <2> QED
    BY <1>1, <2>1 DEF Quiet, Sent, Reporting, Stalled
<1>3. /\ e = <<>> /\ host.cmd.op \in NoData /\ s = "status"
      /\ csw.tag = host.cmd.tag /\ NoDma /\ NoPacket /\ NoStall
  BY <1>1, <1>2, FirstPhaseIs DEF Obeyed
<1>4. PICK bad \in BOOLEAN : pipe' = [pipe EXCEPT !.in = PutIn(Csw(csw.tag, bad))]
  <2>1. CASE Opened
    BY <2>1 DEF Opened
  <2>2. CASE Ejected
    BY <2>2 DEF Ejected
  <2> QED
    BY <2>1, <2>2
<1>5. psInst'.scsi = "SENT_STATUS" /\ psInst'.dmaIn = psInst.dmaIn
  <2>1. \/ psInst' = Scsi("SENT_STATUS")
        \/ \E granted \in BOOLEAN :
             psInst' = [psInst EXCEPT !.scsi = "SENT_STATUS", !.ejected = @ /\ ~granted]
    BY DEF Opened, Ejected
  <2> QED
    BY <1>1, <2>1 DEF Scsi, Machines
<1>6. /\ pipe'.in = Csw(csw.tag, bad) /\ pipe'.out = pipe.out /\ pipe'.dmaIn = pipe.dmaIn
      /\ pipe'.dmaOut = pipe.dmaOut
      /\ pipe'.inStall = pipe.inStall /\ pipe'.outStall = pipe.outStall
  BY <1>1, <1>3, <1>4 DEF Pipes, PutIn, NoPacket
<1>7. Reporting(s, e)'
  BY <1>1, <1>3, <1>5, <1>6 DEF Reporting, NoDma, NoPacket, NoStall
<1> QED
  BY <1>1, <1>2, <1>7 DEF Phase

\* or the disconnection has been handled.
LEMMA ClosedInStep ==
  ASSUME DeviceInv, NEW s, NEW e, Phase(s, e), Disconnected
  PROVE  Phase(s, e)'
<1>1. /\ job = "disconnect" /\ job' = "none"
      /\ UNCHANGED <<psInst, csw, command, pipe, host, badRead>>
  BY DEF Disconnected, Resume, mscVars, histVars
<1>2. Quiet(s, e) \/ (host.cmd # None /\ Sent(s, e))
  BY <1>1 DEF Phase, Obeyed, Sending, Receiving, Ending, Reporting, Stalled
<1>3. CASE Quiet(s, e)
  <2>1. Quiet(s, e)'
    BY <1>1, <1>3 DEF Quiet, NoDma, NoPacket, NoStall
  <2> QED
    BY <2>1 DEF Phase
<1>4. CASE host.cmd # None /\ Sent(s, e)
  <2>1. Sent(s, e)'
    BY <1>1, <1>4 DEF Sent, NoDma, NoStall
  <2> QED
    BY <1>1, <1>4, <2>1 DEF Phase
<1> QED
  BY <1>2, <1>3, <1>4

\* The queues between two commands,
LEMMA QuietQueues ==
  ASSUME NEW s, NEW e \in Queues, Quiet(s, e), e # <<>>
  PROVE  /\ Head(e) = "config" /\ s = "configured" => e = <<"config">> /\ Tail(e) = <<>>
         /\ Head(e) = "config" /\ s # "configured" =>
              e = <<"config", "getMaxLun">> /\ s \in {"wait", "idle"} /\ Tail(e) = <<"getMaxLun">>
         /\ Head(e) = "getMaxLun" => e = <<"getMaxLun">> /\ s \in {"wait", "idle"} /\ Tail(e) = <<>>
<1>1. \/ e = <<"config">> /\ s = "configured"
      \/ e = <<"getMaxLun">> /\ s \in {"wait", "idle"}
      \/ e = <<"config", "getMaxLun">> /\ s \in {"wait", "idle"}
      \/ e \in {<<"in">>, <<"reset">>}
  BY DEF Quiet
<1>2. CASE e = <<"config">> /\ s = "configured"
  BY <1>2, QueueDistinct, QueueRests
<1>3. CASE e = <<"getMaxLun">> /\ s \in {"wait", "idle"}
  BY <1>3, QueueDistinct, QueueRests
<1>4. CASE e = <<"config", "getMaxLun">> /\ s \in {"wait", "idle"}
  BY <1>4, QueueDistinct, QueueRests
<1>5. CASE e \in {<<"in">>, <<"reset">>}
  BY <1>5, QueueDistinct
<1> QED
  BY <1>1, <1>2, <1>3, <1>4, <1>5

\* and with one
LEMMA SentQueues ==
  ASSUME NEW s, NEW e \in Queues, Sent(s, e)
  PROVE  /\ Head(e) = "config" => Tail(e) = <<"getMaxLun", "out">>
         /\ Head(e) = "getMaxLun" => Tail(e) = <<"out">>
<1>1. e \in {<<"out">>, <<"getMaxLun", "out">>, <<"config", "getMaxLun", "out">>}
  BY DEF Sent
<1>2. CASE e = <<"out">>
  BY <1>2, QueueDistinct
<1>3. CASE e = <<"getMaxLun", "out">>
  BY <1>3, QueueDistinct, QueueRests
<1>4. CASE e = <<"config", "getMaxLun", "out">>
  BY <1>4, QueueDistinct, QueueRests
<1> QED
  BY <1>1, <1>2, <1>3, <1>4

\* A new configuration and a request change nothing of a phase they may be
\* found in,
LEMMA ConfigInStep ==
  ASSUME DeviceInv, NEW s, NEW e \in Queues, Phase(s, e), ConfigChange,
         e # <<>>, Head(e) = "config"
  PROVE  Phase(s, Tail(e))'
<1>1. /\ pipe \in Pipes /\ pipe' = [pipe EXCEPT !.dmaIn = None, !.dmaOut = FALSE]
      /\ UNCHANGED <<psInst, host, job>>
  BY Starts DEF ConfigChange, NoStorage
<1>2. /\ pipe'.in = pipe.in /\ pipe'.out = pipe.out /\ pipe'.dmaIn = None /\ pipe'.dmaOut = FALSE
      /\ pipe'.inStall = pipe.inStall /\ pipe'.outStall = pipe.outStall
  BY <1>1 DEF Pipes
<1>3. /\ e \in {<<"config">>, <<"config", "getMaxLun">>, <<"config", "getMaxLun", "out">>}
  BY QueueStarts
<1>4. Quiet(s, e) \/ (host.cmd # None /\ Sent(s, e))
  BY <1>3, QueueDistinct
  DEF Phase, Obeyed, Sending, Receiving, Ending, Reporting, Stalled
<1>5. CASE Quiet(s, e)
  <2>1. \/ s = "configured" /\ Tail(e) = <<>>
        \/ s \in {"wait", "idle"} /\ Tail(e) = <<"getMaxLun">>
    BY <1>5, QuietQueues
  <2>2. Quiet(s, Tail(e))'
    BY <1>1, <1>2, <1>5, <2>1 DEF Quiet, NoDma, NoPacket, NoStall
  <2> QED
    BY <2>2 DEF Phase
<1>6. CASE host.cmd # None /\ Sent(s, e)
  <2>1. Tail(e) = <<"getMaxLun", "out">>
    BY <1>6, SentQueues
  <2>2. Sent(s, Tail(e))'
    BY <1>1, <1>2, <1>6, <2>1 DEF Sent, NoDma, NoStall
  <2> QED
    BY <1>1, <1>6, <2>2 DEF Phase
<1> QED
  BY <1>4, <1>5, <1>6

\* but that a host that waits for the answer has it,
LEMMA RequestInStep ==
  ASSUME DeviceInv, NEW s \in HostStates \ {"off"}, NEW e \in Queues, Phase(s, e), Request,
         e # <<>>, Head(e) \in {"getMaxLun", "reset"}, host.st \in {s, "off"},
         Head(e) = "reset" => psInst.scsi = "IDLE"
  PROVE  \E t \in HostStates \ {"off"} :
           /\ host'.st = t \/ (host.st = "off" /\ host'.st = "off")
           /\ Phase(t, Tail(e))'
<1> PICK t : t = IF host.st = "wait" THEN "idle" ELSE s
  OBVIOUS
<1>1. /\ host \in Hosts
      /\ host' = IF host.st = "wait" THEN [host EXCEPT !.st = "idle"] ELSE host
      /\ UNCHANGED <<psInst, pipe, job>>
      /\ Head(e) = "reset" => psInst.scsi = "IDLE"
  BY Starts DEF Request, NoStorage, mscVars, Take
<1>2. /\ host'.cmd = host.cmd /\ host'.done = host.done
      /\ host'.st = IF host.st = "wait" THEN "idle" ELSE host.st
  BY <1>1 DEF Hosts
<1>3. t \in HostStates \ {"off"} /\ (host'.st = t \/ (host.st = "off" /\ host'.st = "off"))
  BY <1>2 DEF HostStates
<1>4. e \in {<<"getMaxLun">>, <<"getMaxLun", "out">>, <<"reset">>}
  BY QueueStarts
<1>5. Quiet(s, e) \/ (host.cmd # None /\ Sent(s, e))
  BY <1>1, <1>4, QueueDistinct
  DEF Phase, Obeyed, Sending, Receiving, Ending, Reporting, Stalled
<1>6. CASE Quiet(s, e)
  <2>1. s \in {"wait", "idle"} /\ Tail(e) = <<>>
    <3>1. CASE Head(e) = "getMaxLun"
      BY <1>6, <3>1, QuietQueues
    <3>2. CASE Head(e) = "reset"
      <4>1. e = <<"reset">>
        BY <3>2, QueueStarts
      <4> QED
        BY <1>6, <4>1, QueueDistinct, QueueRests DEF Quiet
    <3> QED
      BY <3>1, <3>2
  <2>2. t \in {"wait", "idle"}
    BY <2>1
  <2>3. Quiet(t, Tail(e))'
    <3>1. (NoDma /\ NoPacket /\ NoStall)' /\ psInst'.scsi = "IDLE"
      BY <1>1, <1>6 DEF Quiet, NoDma, NoPacket, NoStall
    <3>2. job' = "none"
      BY <1>1 DEF Request, Take
    <3> QED
      BY <2>1, <2>2, <3>1, <3>2 DEF Quiet
  <2>4. Phase(t, Tail(e))'
    BY <2>3 DEF Phase
  <2> QED
    BY <1>3, <2>4
<1>7. CASE host.cmd # None /\ Sent(s, e)
  <2>1. host.cmd.op \in AllOps
    BY <1>7, Numbers
  <2>2. s \in {"in", "out", "status"}
    BY <1>7, <2>1, FirstPhaseIs DEF Sent, AllOps
  <2>3. t = s
    BY <2>2
  <2>4. Tail(e) = <<"out">>
    <3>1. e # <<"reset">>
      BY <1>7, QueueDistinct DEF Sent
    <3>2. Head(e) = "getMaxLun"
      BY <1>4, <3>1, QueueDistinct
    <3> QED
      BY <1>7, <3>2, SentQueues
  <2>5. Sent(t, Tail(e))'
    BY <1>1, <1>2, <1>7, <2>3, <2>4 DEF Sent, NoDma, NoStall
  <2>6. Phase(t, Tail(e))'
    BY <1>2, <1>7, <2>5 DEF Phase
  <2> QED
    BY <1>3, <2>6
<1> QED
  BY <1>5, <1>6, <1>7

\* and a host that left between two commands leaves the machine at rest.
LEMMA DisconnectInStep ==
  ASSUME DeviceInv, NEW s, NEW e, Phase(s, e), Disconnect, psInst.scsi = "IDLE",
         host.st = "off", mbox' = <<>>
  PROVE  Unplugged'
<1>1. /\ psInst.scsi = "IDLE" /\ job = "none" /\ job' \in {"none", "disconnect"}
      /\ UNCHANGED <<psInst, pipe, host>>
  BY DEF Disconnect, NoStorage, mscVars, Take
<1>2. \/ Quiet(s, e)
      \/ host.cmd # None /\ (Sent(s, e) \/ Obeyed(s, e) \/ Reporting(s, e) \/ Stalled(s, e))
  BY <1>1, PhaseIs
<1>3. NoDma
  BY <1>2 DEF Quiet, Sent, Obeyed, Reporting, Stalled
<1> QED
  BY <1>1, <1>3 DEF Unplugged, NoDma

\* A phase is left as it is when nothing it speaks of changes.
LEMMA PhaseKept ==
  ASSUME NEW s, NEW e, Phase(s, e), host'.cmd = host.cmd, host'.done = host.done,
         UNCHANGED <<psInst, pipe, csw, command, job, badRead, pvMedia>>
  PROVE  Phase(s, e)'
BY DEF Phase, Quiet, Sent, Obeyed, Sending, Receiving, Ending, Reporting, Stalled, NoDma, NoPacket,
       NoStall, Holds

\* Where the next event finds the daemon
LEMMA TakenInStep ==
  ASSUME NEW s \in HostStates \ {"off"}, NEW e \in Queues, e # <<>>, Phase(s, Tail(e))',
         \/ host'.st = s /\ mbox' = Tail(e)
         \/ host'.st = "off" /\ moves' > 0 /\ mbox' = Append(Tail(e), "disconnect")
  PROVE  Together'
<1>1. Tail(e) \in Queues
  BY QueueTypes
<1>2. Queued(s, Tail(e))'
  BY DEF Queued
<1> QED
  BY <1>1, <1>2 DEF Together

\* The daemon finds that the host has left, or has given up, in a command.
Loses == psInst.scsi # "IDLE" /\ (Take("disconnect") \/ Take("reset"))

\* The daemon keeps in step when it takes an event,
LEMMA TakesInStep ==
  ASSUME DeviceInv, NEW s \in HostStates \ {"off"}, NEW e \in Queues, Queued(s, e),
         Phase(s, e),
         \/ SendNext \/ SendLast \/ StatusPhase \/ StatusGone \/ ReceiveBlock \/ Ignore
         \/ Respond \/ RefuseData \/ Read10 \/ Write10 \/ TestUnitReady \/ Open \/ Removal \/ Fail
         \/ Eject \/ RefuseNoData \/ Unknown \/ ConfigChange
  PROVE  Together'
<1>1. CASE SendNext \/ SendLast \/ StatusPhase \/ StatusGone
  <2>1. Take("in") /\ host' = host
    BY <1>1 DEF SendNext, SendLast, StatusPhase, StatusGone
  <2>2. e # <<>> /\ Head(e) = "in"
    BY <2>1, TakesQueued
  <2>3. Phase(s, Tail(e))'
    BY <1>1, <2>2, SendNextInStep, SendLastInStep, StatusInStep
  <2> QED
    BY <2>1, <2>2, <2>3, TakesQueued, TakenInStep
<1>2. CASE ReceiveBlock
  <2>1. Take("out") /\ host' = host
    BY <1>2 DEF ReceiveBlock
  <2>2. e # <<>> /\ Head(e) = "out"
    BY <2>1, TakesQueued
  <2>3. Phase(s, Tail(e))'
    BY <1>2, <2>2, ReceiveInStep
  <2> QED
    BY <2>1, <2>2, <2>3, TakesQueued, TakenInStep
<1>3. CASE Ignore
  <2>1. PICK m \in {"in", "out"} :
          /\ Take(m)
          /\ \/ m = "in" /\ psInst.scsi \in {"IDLE", "RECEIVE_BLOCKS"}
             \/ m = "out" /\ psInst.scsi \in {"SEND_BLOCKS", "SEND_STATUS", "SENT_STATUS"}
    BY <1>3 DEF Ignore
  <2>2. e # <<>> /\ Head(e) = m
    BY <2>1, TakesQueued
  <2>3. UNCHANGED <<psInst, pipe, csw, command, job, badRead, pvMedia, host>>
    BY <1>3 DEF Ignore, NoStorage, storageVars, mscVars, histVars
  <2>4. Phase(s, Tail(e))'
    BY <2>1, <2>2, <2>3, IgnoreInStep
  <2> QED
    BY <2>1, <2>2, <2>3, <2>4, TakesQueued, TakenInStep
<1>4. CASE \/ Respond \/ RefuseData \/ Read10 \/ Write10 \/ TestUnitReady \/ Open \/ Removal
           \/ Fail \/ Eject \/ RefuseNoData \/ Unknown
  <2>1. PICK op : Obey(op)
    BY <1>4
    DEF Respond, RefuseData, Read10, Write10, TestUnitReady, Open, Removal, Fail, Eject,
        RefuseNoData, Unknown
  <2>2. Take("out") /\ host' = host
    BY <2>1 DEF Obey
  <2>3. e # <<>> /\ Head(e) = "out"
    BY <2>2, TakesQueued
  <2>4. Phase(s, Tail(e))'
    BY <1>4, <2>3, ShortInStep, UnknownInStep, NoDataInStep, CallInStep
  <2> QED
    BY <2>2, <2>3, <2>4, TakesQueued, TakenInStep
<1>5. CASE ConfigChange
  <2>1. Take("config") /\ host' = host
    BY <1>5 DEF ConfigChange
  <2>2. e # <<>> /\ Head(e) = "config"
    BY <2>1, TakesQueued
  <2>3. Phase(s, Tail(e))'
    BY <1>5, <2>2, ConfigInStep
  <2> QED
    BY <2>1, <2>2, <2>3, TakesQueued, TakenInStep
<1> QED
  BY <1>1, <1>2, <1>3, <1>4, <1>5

\* when it answers a request,
LEMMA AnswersInStep ==
  ASSUME DeviceInv, ~Loses, NEW s \in HostStates \ {"off"}, NEW e \in Queues, Queued(s, e),
         Phase(s, e), Request
  PROVE  Together'
<1>1. PICK m \in {"getMaxLun", "reset"} : Take(m)
  BY DEF Request
<1>2. /\ e # <<>> /\ m = Head(e)
      /\ \/ host.st = s /\ mbox' = Tail(e)
         \/ host.st = "off" /\ moves' > 0 /\ mbox' = Append(Tail(e), "disconnect")
  BY <1>1, TakesQueued
<1>3. host.st \in {s, "off"} /\ (Head(e) = "reset" => psInst.scsi = "IDLE")
  BY <1>1, <1>2 DEF Loses
<1>4. PICK t \in HostStates \ {"off"} :
        /\ host'.st = t \/ (host.st = "off" /\ host'.st = "off")
        /\ Phase(t, Tail(e))'
  BY <1>1, <1>2, <1>3, RequestInStep
<1>5. \/ host'.st = t /\ mbox' = Tail(e)
      \/ host'.st = "off" /\ moves' > 0 /\ mbox' = Append(Tail(e), "disconnect")
  <2>1. CASE host.st = s /\ mbox' = Tail(e)
    BY <1>4, <2>1
  <2>2. CASE host.st = "off" /\ moves' > 0 /\ mbox' = Append(Tail(e), "disconnect")
    <3>1. host' = host
      BY <2>2 DEF Request
    <3> QED
      BY <2>2, <3>1
  <2> QED
    BY <1>2, <2>1, <2>2
<1> QED
  BY <1>2, <1>4, <1>5, TakenInStep

\* when a handler goes on, and when it handles the end of a connection.
LEMMA ResumesInStep ==
  ASSUME DeviceInv, NEW s \in HostStates \ {"off"}, NEW e \in Queues, Queued(s, e),
         Phase(s, e),
         \/ SendNextRead \/ Read10Read \/ BlockWritten \/ Opened \/ Ejected \/ Disconnected
         \/ Hangs \/ Flushed \/ PythonStep
  PROVE  Together'
<1>1. UNCHANGED <<mbox, host, moves>>
  BY DEF SendNextRead, Read10Read, BlockRead, BlockWritten, Opened, Ejected, Disconnected, Hangs,
         Flushed, PythonStep, Resume
<1>2. Phase(s, e)'
  <2>1. CASE SendNextRead \/ Read10Read \/ BlockWritten \/ Opened \/ Ejected \/ Disconnected
    BY <2>1, ReadInStep, WrittenInStep, OpenedInStep, ClosedInStep
  <2>2. CASE Hangs \/ Flushed \/ PythonStep
    <3>1. UNCHANGED <<psInst, pipe, csw, command, job, badRead, host>>
      BY <2>2 DEF Hangs, Flushed, PythonStep, mscVars, histVars
    <3>2. pvMedia' = pvMedia
      BY <2>2
      DEF Hangs, Flushed, OpenHangs, FlushDone,
          PythonStep, Python, EnableLoad, EnableLock, EnableSet, EnableUnlock, DisableLoad,
          DisablePend, DisableLoadMutex, DisableLock, DisableCheck, DisableClear, DisableUnlock,
          InitSem, InitMutex, InitHangs, Load, Lock, Unlock, At
    <3> QED
      BY <3>1, <3>2, PhaseKept
  <2> QED
    BY <2>1, <2>2
<1>3. Queued(s, e)'
  BY <1>1 DEF Queued
<1> QED
  BY <1>2, <1>3 DEF Together

\* So does the daemon with a host
LEMMA DaemonInStep ==
  ASSUME DeviceInv, ~Loses, NEW s \in HostStates \ {"off"}, NEW e \in Queues, Queued(s, e),
         Phase(s, e), DaemonStep \/ PythonStep
  PROVE  Together'
<1>1. CASE Disconnect
  <2>1. Take("disconnect") /\ host' = host /\ psInst.scsi = "IDLE"
    BY <1>1 DEF Disconnect, Loses
  <2>2. e = <<>> /\ host.st = "off" /\ mbox' = <<>>
    BY <2>1, TakesQueued, QueueStarts
  <2> QED
    BY <1>1, <2>1, <2>2, DisconnectInStep DEF Together
<1> QED
  BY <1>1, TakesInStep, AnswersInStep, ResumesInStep DEF DaemonStep

\* and without one.
LEMMA AloneInStep ==
  ASSUME DeviceInv, Unplugged, DaemonStep \/ PythonStep
  PROVE  Together'
<1>1. \A m : ~Take(m)
  BY DEF Unplugged, Take
<1>2. \/ Opened \/ Hangs \/ Flushed \/ Disconnected \/ Ejected
      \/ SendNextRead \/ Read10Read \/ BlockWritten \/ PythonStep
  BY <1>1
  DEF DaemonStep, SendNext, SendLast, StatusPhase, StatusGone, ReceiveBlock, Ignore, Respond,
      RefuseData, Read10, Write10, TestUnitReady, Open, Removal, Fail, Eject, RefuseNoData,
      Unknown, Disconnect, ConfigChange, Request, Obey
<1>3. Flushed \/ Disconnected \/ PythonStep
  BY <1>2
  DEF Unplugged, Opened, Ejected, SendNextRead, Read10Read, BlockWritten, Resume, Hangs,
      OpenHangs, DeviceInv, JobInv
<1>4. UNCHANGED <<mbox, host, psInst, pipe>> /\ job' \in {"none", "disconnect"}
  BY <1>3 DEF Flushed, Disconnected, PythonStep, Resume, mscVars, Unplugged
<1> QED
  BY <1>4 DEF Unplugged, NoDma, Together

\* A step of the host that keeps in step
LEMMA MovesInStep ==
  ASSUME NEW t \in HostStates \ {"off"}, NEW f \in Queues, host'.st = t, mbox' = f, Phase(t, f)'
  PROVE  Together'
BY DEF Together, Queued

\* What an event makes of the queue
LEMMA Posted ==
  ASSUME NEW m, Post(m), ~aborted'
  PROVE  mbox' = Append(mbox, m)
BY DEF Post

\* The last packet of a block is in the endpoint,
LEMMA DmaInStep ==
  ASSUME DeviceInv, ~aborted', NEW s \in HostStates \ {"off"}, NEW e \in Queues,
         host.st = s, mbox = e, Phase(s, e), DmaIn
  PROVE  Together'
<1>1. /\ pipe \in Pipes /\ pipe.dmaIn # None /\ pipe.in = None /\ pipe.dmaIn \in Blocks
      /\ pipe' = [pipe EXCEPT !.in = pipe.dmaIn, !.dmaIn = None]
      /\ UNCHANGED <<psInst, host, job, csw, badRead>>
  BY Starts DEF DmaIn, Outside
<1>2. host.cmd # None /\ Sending(s, e)
  BY <1>1 DEF Phase, Quiet, Sent, Obeyed, Receiving, Ending, Reporting, Stalled, NoDma
<1>3. /\ e = <<>> /\ job = "none" /\ Holds(pipe.dmaIn, psInst.lba)
      /\ psInst.scsi = "SEND_BLOCKS"
      /\ psInst.dmaIn /\ ~pipe.dmaOut /\ pipe.out = None /\ NoStall
      /\ host.cmd.op = "READ" /\ csw.tag = host.cmd.tag
      /\ s = IF host.done = host.cmd.n THEN "status" ELSE "in"
  BY <1>1, <1>2 DEF Sending
<1>4. /\ psInst.lba + psInst.left = host.cmd.lba + host.cmd.n
      /\ host.done + 0 = host.cmd.n - psInst.left + 0
  BY <1>1, <1>2, <1>3 DEF Sending
<1>5. psInst.lba = host.cmd.lba + host.done /\ host.done + 1 = host.cmd.n - psInst.left + 1
  <2>1. /\ psInst.left \in Nat /\ psInst.lba \in Nat /\ host.done \in Nat
        /\ host.cmd.n \in Nat /\ host.cmd.lba \in Nat
    BY <1>2, Numbers
  <2> QED
    BY <1>4, <2>1
<1>6. mbox' = <<"in">> /\ <<"in">> \in Queues
  BY <1>3, Posted, QueueGrows DEF DmaIn, Mails, Queues
<1>7. /\ pipe'.in = pipe.dmaIn /\ pipe'.out = pipe.out /\ pipe'.dmaIn = None
      /\ pipe'.dmaOut = pipe.dmaOut
      /\ pipe'.inStall = pipe.inStall /\ pipe'.outStall = pipe.outStall
  BY <1>1 DEF Pipes
<1>8. pipe'.in.kind # "csw" /\ pipe'.in # None
  BY <1>1, <1>7, BlockIs
<1>9. Holds(pipe.in, host.cmd.lba + host.done)' /\ NoStall'
  BY <1>1, <1>3, <1>5, <1>7 DEF Holds, NoStall
<1>10. Sending(s, <<"in">>)'
  BY <1>1, <1>3, <1>4, <1>5, <1>7, <1>8, <1>9, QueueDistinct DEF Sending
<1> QED
  BY <1>1, <1>2, <1>6, <1>10, MovesInStep DEF Phase

\* the host asks for the logical units, or does not wait for the answer,
LEMMA AskInStep ==
  ASSUME DeviceInv, ~aborted', NEW s \in HostStates \ {"off"}, NEW e \in Queues,
         host.st = s, mbox = e, Phase(s, e), Ask \/ DoNotWait
  PROVE  Together'
<1>1. /\ host \in Hosts
      /\ UNCHANGED <<psInst, pipe, job, csw, command, badRead, pvMedia>>
  BY Starts DEF Ask, DoNotWait, Outside, storageVars
<1>2. CASE Ask
  <2>1. s = "configured" /\ host' = [host EXCEPT !.st = "wait"] /\ mbox' = Append(e, "getMaxLun")
    BY <1>2, Posted DEF Ask
  <2>2. Quiet(s, e)
    <3>1. ~(host.cmd # None /\ Sent(s, e)) /\ ~(host.cmd # None /\ Obeyed(s, e))
      BY <2>1, Numbers, FirstPhaseIs DEF Sent, Obeyed, AllOps
    <3> QED
      BY <2>1, <3>1 DEF Phase, Sending, Receiving, Ending, Reporting, Stalled
  <2>3. e \in {<<>>, <<"config">>}
    BY <2>1, <2>2 DEF Quiet
  <2>4. mbox' \in {<<"getMaxLun">>, <<"config", "getMaxLun">>}
    BY <2>1, <2>3, QueueGrows DEF Mails
  <2>5. PICK f \in {<<"getMaxLun">>, <<"config", "getMaxLun">>} : mbox' = f
    BY <2>4
  <2>6. Quiet("wait", f)'
    BY <1>1, <2>2, <2>5 DEF Quiet, NoDma, NoPacket, NoStall
  <2>7. f \in Queues /\ host'.st = "wait" /\ "wait" \in HostStates \ {"off"}
    BY <1>1, <2>1 DEF Queues, Hosts, HostStates
  <2> QED
    BY <2>5, <2>6, <2>7, MovesInStep DEF Phase
<1>3. CASE DoNotWait
  <2>1. s = "wait" /\ host' = [host EXCEPT !.st = "idle"] /\ mbox' = mbox
    BY <1>3 DEF DoNotWait
  <2>2. /\ host'.st = "idle" /\ host'.cmd = host.cmd /\ host'.done = host.done
        /\ "idle" \in HostStates \ {"off"}
    BY <1>1, <2>1 DEF Hosts, HostStates
  <2>3. Phase("idle", e)
    <3>1. ~(host.cmd # None /\ Sent(s, e)) /\ ~(host.cmd # None /\ Obeyed(s, e))
      BY <2>1, Numbers, FirstPhaseIs DEF Sent, Obeyed, AllOps
    <3>2. Quiet(s, e) \/ (host.cmd # None /\ (Ending(s, e) \/ Reporting(s, e)))
      BY <2>1, <3>1 DEF Phase, Sending, Receiving, Stalled
    <3>3. CASE Quiet(s, e)
      BY <2>1, <3>3 DEF Phase, Quiet
    <3>4. CASE host.cmd # None /\ Ending(s, e)
      <4>1. Ending("idle", e)
        BY <2>1, <3>4 DEF Ending
      <4> QED
        BY <3>4, <4>1 DEF Phase
    <3>5. CASE host.cmd # None /\ Reporting(s, e)
      <4>1. Reporting("idle", e)
        BY <2>1, <3>5 DEF Reporting
      <4> QED
        BY <3>5, <4>1 DEF Phase
    <3> QED
      BY <3>2, <3>3, <3>4, <3>5
  <2>4. Phase("idle", e)'
    BY <1>1, <2>2, <2>3, PhaseKept
  <2> QED
    BY <2>1, <2>2, <2>4, MovesInStep
<1> QED
  BY <1>2, <1>3

\* is unplugged,
LEMMA UnplugInStep ==
  ASSUME DeviceInv, ~aborted', NEW s \in HostStates \ {"off"}, NEW e \in Queues,
         host.st = s, mbox = e, Phase(s, e), Unplug
  PROVE  Together'
<1>1. /\ host \in Hosts /\ host' = [host EXCEPT !.st = "off"]
      /\ moves \in Nat /\ moves' = moves + 1
      /\ UNCHANGED <<psInst, pipe, job, csw, command, badRead, pvMedia>>
  BY Starts, MscAssumption
  DEF Unplug, Outside, storageVars, DeviceInv, MscTypeOK, MscAssumption
<1>2. host'.st = "off" /\ host'.cmd = host.cmd /\ host'.done = host.done /\ moves' > 0
  BY <1>1 DEF Hosts
<1>3. Phase(s, e)'
  BY <1>1, <1>2, PhaseKept
<1>4. Queued(s, e)'
  BY <1>2, Posted DEF Unplug, Queued
<1> QED
  BY <1>3, <1>4 DEF Together

\* or sees a stall.
LEMMA StallInStep ==
  ASSUME DeviceInv, ~aborted', NEW s \in HostStates \ {"off"}, NEW e \in Queues,
         host.st = s, mbox = e, Phase(s, e), SeeInStall \/ SeeOutStall
  PROVE  Together'
<1>1. /\ host \in Hosts /\ host' = [host EXCEPT !.st = "status"] /\ pipe \in Pipes
      /\ UNCHANGED <<psInst, job, csw, command, badRead, pvMedia>>
  BY Starts DEF SeeInStall, SeeOutStall, Outside, storageVars
<1>2. /\ host'.st = "status" /\ host'.cmd = host.cmd /\ host'.done = host.done
      /\ "status" \in HostStates \ {"off"}
  BY <1>1 DEF Hosts, HostStates
<1>3. ~NoStall
  BY DEF SeeInStall, SeeOutStall, NoStall
<1>4. host.cmd # None /\ (Ending(s, e) \/ Reporting(s, e) \/ Stalled(s, e))
  BY <1>3 DEF Phase, Quiet, Sent, Obeyed, Sending, Receiving
<1>5. CASE SeeInStall
  <2>1. /\ s \in {"in", "status"} /\ pipe.inStall
        /\ pipe' = [pipe EXCEPT !.inStall = FALSE] /\ mbox' = Append(e, "in")
    BY <1>5, Posted DEF SeeInStall
  <2>2. /\ pipe'.in = pipe.in /\ pipe'.out = pipe.out /\ pipe'.dmaIn = pipe.dmaIn
        /\ pipe'.dmaOut = pipe.dmaOut /\ pipe'.inStall = FALSE /\ pipe'.outStall = pipe.outStall
    BY <1>1, <2>1 DEF Pipes
  <2>3. e = <<>>
    BY <1>3, <1>4, <2>1 DEF Ending, Reporting, Stalled, NoStall
  <2>4. mbox' = <<"in">> /\ <<"in">> \in Queues
    BY <2>1, <2>3, QueueGrows DEF Mails, Queues
  <2>5. CASE Ending(s, e)
    <3>1. Ending("status", <<"in">>)'
      BY <1>1, <1>2, <2>1, <2>2, <2>5 DEF Ending, NoDma, NoStall
    <3> QED
      BY <1>2, <1>4, <2>4, <3>1, MovesInStep DEF Phase
  <2>6. CASE Reporting(s, e)
    <3>1. Reporting("status", <<"in">>)'
      BY <1>1, <1>2, <2>1, <2>2, <2>3, <2>6 DEF Reporting, NoDma
    <3> QED
      BY <1>2, <1>4, <2>4, <3>1, MovesInStep DEF Phase
  <2>7. CASE Stalled(s, e)
    <3>1. Stalled("status", <<"in">>)'
      BY <1>1, <1>2, <2>1, <2>2, <2>7 DEF Stalled, NoDma, NoPacket
    <3> QED
      BY <1>2, <1>4, <2>4, <3>1, MovesInStep DEF Phase
  <2> QED
    BY <1>4, <2>5, <2>6, <2>7
<1>6. CASE SeeOutStall
  <2>1. /\ s = "out" /\ pipe.outStall
        /\ pipe' = [pipe EXCEPT !.outStall = FALSE] /\ mbox' = Append(e, "out")
    BY <1>6, Posted DEF SeeOutStall
  <2>2. /\ pipe'.in = pipe.in /\ pipe'.out = pipe.out /\ pipe'.dmaIn = pipe.dmaIn
        /\ pipe'.dmaOut = pipe.dmaOut /\ pipe'.inStall = pipe.inStall /\ pipe'.outStall = FALSE
    BY <1>1, <2>1 DEF Pipes
  <2>3. e = <<>> /\ ~Reporting(s, e)
    BY <1>4, <2>1 DEF Ending, Reporting, Stalled
  <2>4. mbox' = <<"out">> /\ <<"out">> \in Queues
    BY <2>1, <2>3, QueueGrows DEF Mails, Queues
  <2>5. CASE Ending(s, e)
    <3>1. Ending("status", <<"out">>)'
      BY <1>1, <1>2, <2>1, <2>2, <2>5 DEF Ending, NoDma
    <3> QED
      BY <1>2, <1>4, <2>4, <3>1, MovesInStep DEF Phase
  <2>6. CASE Stalled(s, e)
    <3>1. Stalled("status", <<"out">>)'
      BY <1>1, <1>2, <2>1, <2>2, <2>6 DEF Stalled, NoDma, NoPacket
    <3> QED
      BY <1>2, <1>4, <2>4, <3>1, MovesInStep DEF Phase
  <2> QED
    BY <1>4, <2>3, <2>5, <2>6
<1> QED
  BY <1>5, <1>6

\* When nothing more will come, the command is one that is never answered,
LEMMA SilenceIs ==
  ASSUME DeviceInv, NEW s \in HostStates \ {"off"}, NEW e \in Queues, host.st = s, mbox = e,
         Phase(s, e), Stuck
  PROVE  /\ e = <<>> /\ host.cmd # None
         /\ \/ /\ Ending(s, e) /\ psInst.scsi = "SEND_STATUS"
               /\ host.cmd.op = "WRITE" /\ ~pvMedia /\ pipe.in = None
            \/ Stalled(s, e)
<1>1. e = <<>> /\ job = "none"
  BY DEF Stuck, DaemonIdle
<1>2. /\ ~(s = "in" /\ pipe.in # None) /\ ~(s = "status" /\ pipe.in # None)
      /\ ~(s \in {"in", "status"} /\ (pipe.inStall \/ pipe.dmaIn # None))
      /\ ~(s = "out" /\ (pipe.outStall \/ (pipe.dmaOut /\ pipe.out = None)))
      /\ ~(s = "idle" /\ pipe.out = None)
      /\ s \in {"in", "out", "status", "idle"}
  BY DEF Stuck
<1>3. ~Quiet(s, e)
  BY <1>2 DEF Quiet, NoPacket
<1>4. ~Sent(s, e) /\ ~Obeyed(s, e)
  BY <1>1, QueueDistinct DEF Sent, Obeyed
<1>5. ~Sending(s, e)
  BY <1>1, <1>2, QueueDistinct DEF Sending
<1>6. ~Receiving(s, e)
  <2>1. SUFFICES ASSUME Receiving(s, e), host.cmd # None
                 PROVE  FALSE
    BY <1>3 DEF Phase, Receiving, Quiet
  <2>2. s = "status" /\ host.done = host.cmd.n /\ host.done = host.cmd.n - psInst.left + 0
    BY <1>1, <1>2, <2>1, QueueDistinct DEF Receiving, NoPacket
  <2>3. psInst.left > 0
    BY <1>1, <2>1 DEF Receiving, DeviceInv, RangeInv
  <2>4. psInst.left \in Nat /\ host.cmd.n \in Nat
    BY <2>1, Numbers
  <2> QED
    BY <2>2, <2>3, <2>4
<1>7. ~Reporting(s, e)
  <2>1. SUFFICES ASSUME Reporting(s, e)
                 PROVE  FALSE
    OBVIOUS
  <2>2. s = "status"
    BY <1>1, <2>1, QueueDistinct DEF Reporting
  <2>3. \E bad \in BOOLEAN : pipe.in = Csw(host.cmd.tag, bad)
    BY <2>1, <2>2 DEF Reporting
  <2> QED
    BY <1>2, <2>2, <2>3, Kinds
<1>8. host.cmd # None /\ (Ending(s, e) \/ Stalled(s, e))
  BY <1>3, <1>4, <1>5, <1>6, <1>7 DEF Phase
<1>9. CASE Ending(s, e)
  BY <1>1, <1>2, <1>8, <1>9, QueueDistinct DEF Ending
<1> QED
  BY <1>1, <1>8, <1>9

\* and the host that gives it up is in step again when it resets the device.
LEMMA GiveUpInStep ==
  ASSUME DeviceInv, ~aborted', NEW s \in HostStates \ {"off"}, NEW e \in Queues,
         host.st = s, mbox = e, Phase(s, e), GiveUp
  PROVE  Together'
<1>1. /\ host \in Hosts /\ host' = [host EXCEPT !.st = "wait"] /\ pipe \in Pipes
      /\ pipe' = [pipe EXCEPT !.inStall = FALSE, !.outStall = FALSE]
      /\ UNCHANGED <<psInst, job, csw, command, badRead, pvMedia>>
      /\ Stuck
  BY Starts DEF GiveUp, Outside, storageVars
<1>2. /\ host'.st = "wait" /\ host'.cmd = host.cmd /\ host'.done = host.done
      /\ "wait" \in HostStates \ {"off"}
  BY <1>1 DEF Hosts, HostStates
<1>3. /\ pipe'.in = pipe.in /\ pipe'.out = pipe.out /\ pipe'.dmaIn = pipe.dmaIn
      /\ pipe'.dmaOut = pipe.dmaOut /\ pipe'.inStall = FALSE /\ pipe'.outStall = FALSE
  BY <1>1 DEF Pipes
<1>4. /\ e = <<>> /\ host.cmd # None
      /\ \/ Ending(s, e) /\ psInst.scsi = "SEND_STATUS" /\ pipe.in = None
         \/ Stalled(s, e)
  BY <1>1, SilenceIs
<1>5. mbox' = <<"reset">> /\ <<"reset">> \in Queues
  BY <1>4, Posted, QueueGrows DEF GiveUp, Mails, Queues
<1>6. NoStall' /\ job' = "none"
  BY <1>1, <1>3 DEF NoStall, Stuck, DaemonIdle
<1>7. CASE Ending(s, e) /\ psInst.scsi = "SEND_STATUS" /\ pipe.in = None
  <2>1. Ending("wait", <<"reset">>)'
    BY <1>1, <1>2, <1>3, <1>6, <1>7 DEF Ending, NoDma
  <2> QED
    BY <1>2, <1>4, <1>5, <2>1, MovesInStep DEF Phase
<1>8. CASE Stalled(s, e)
  <2>1. Quiet("wait", <<"reset">>)'
    BY <1>1, <1>2, <1>3, <1>6, <1>8 DEF Stalled, Quiet, NoDma, NoPacket
  <2> QED
    BY <1>2, <1>5, <2>1, MovesInStep DEF Phase
<1> QED
  BY <1>4, <1>7, <1>8

\* A command starts from a device between two commands,
LEMMA SendCommandInStep ==
  ASSUME DeviceInv, ~aborted', NEW s \in HostStates \ {"off"}, NEW e \in Queues,
         host.st = s, mbox = e, Phase(s, e), NEW c \in Commands, Legal(c), SendCommand(c)
  PROVE  Together'
<1>1. /\ host \in Hosts /\ s = "idle"
      /\ host' = [st |-> FirstPhase(c.op), cmd |-> c, done |-> 0, tag |-> ~host.tag]
      /\ pipe \in Pipes /\ pipe' = [pipe EXCEPT !.out = c] /\ pipe.out = None
      /\ mbox' = Append(e, "out") /\ Settled
      /\ UNCHANGED <<psInst, job, csw, command, badRead, pvMedia>>
  BY Starts, Posted DEF SendCommand, Outside, storageVars
<1>2. c \in LegalCommands
  BY DEF LegalCommands
<1>3. c # None /\ c.op \in AllOps
  BY <1>2, CommandIs
<1>4. FirstPhase(c.op) \in {"in", "out", "status"}
  BY <1>3, FirstPhaseIs DEF AllOps
<1>5. PICK t \in {"in", "out", "status"} : t = FirstPhase(c.op)
  BY <1>4
<1>6. /\ host'.st = t /\ host'.cmd = c /\ host'.done = 0 /\ t \in HostStates \ {"off"}
  BY <1>1, <1>5 DEF HostStates
<1>7. /\ pipe'.in = pipe.in /\ pipe'.out = c /\ pipe'.dmaIn = pipe.dmaIn
      /\ pipe'.dmaOut = pipe.dmaOut
      /\ pipe'.inStall = pipe.inStall /\ pipe'.outStall = pipe.outStall
  BY <1>1, <1>2 DEF Pipes
<1>8. Quiet(s, e) \/ (Ending(s, e) /\ e # <<>>) \/ (Reporting(s, e) /\ e # <<>>)
  <2>1. ~(host.cmd # None /\ Sent(s, e)) /\ ~(host.cmd # None /\ Obeyed(s, e))
    BY <1>1, Numbers, FirstPhaseIs DEF Sent, Obeyed, AllOps
  <2>2. Quiet(s, e) \/ Ending(s, e) \/ Reporting(s, e)
    BY <1>1, <2>1 DEF Phase, Sending, Receiving, Stalled
  <2> QED
    BY <1>1, <2>2, QueueDistinct DEF Ending, Reporting
<1>9. job = "none" => e = <<>>
  BY <1>1 DEF Settled, DaemonIdle, DeviceInv, JobInv
<1>10. Quiet(s, e)
  BY <1>8, <1>9 DEF Ending, Reporting
<1>11. e \in {<<>>, <<"getMaxLun">>, <<"config", "getMaxLun">>}
  BY <1>1, <1>9, <1>10, QueueDistinct DEF Quiet
<1>12. mbox' \in {<<"out">>, <<"getMaxLun", "out">>, <<"config", "getMaxLun", "out">>}
  <2>1. CASE e = <<>>
    BY <1>1, <2>1, QueueGrows DEF Mails
  <2>2. CASE e = <<"getMaxLun">>
    BY <1>1, <2>2, QueueGrows DEF Mails
  <2>3. CASE e = <<"config", "getMaxLun">>
    BY <1>1, <2>3, QueueGrows DEF Mails
  <2> QED
    BY <1>11, <2>1, <2>2, <2>3
<1>13. PICK f \in {<<"out">>, <<"getMaxLun", "out">>, <<"config", "getMaxLun", "out">>} : mbox' = f
  BY <1>12
<1>14. Sent(t, f)'
  <2>1. /\ psInst.scsi = "IDLE" /\ NoDma /\ NoStall /\ pipe.in = None
        /\ job \in {"none", "disconnect"}
    BY <1>10 DEF Quiet, NoPacket
  <2>2. NoDma' /\ NoStall' /\ pipe'.in = None
    BY <1>1, <1>7, <2>1 DEF NoDma, NoStall
  <2>3. t = FirstPhase(host.cmd.op)'
    BY <1>5, <1>6
  <2> QED
    BY <1>1, <1>6, <1>7, <2>1, <2>2, <2>3 DEF Sent
<1>15. f \in Queues
  BY DEF Queues
<1> QED
  BY <1>3, <1>6, <1>13, <1>14, <1>15, MovesInStep DEF Phase

\* sends the next block of a transfer,
LEMMA SendBlockInStep ==
  ASSUME DeviceInv, ~aborted', NEW s \in HostStates \ {"off"}, NEW e \in Queues,
         host.st = s, mbox = e, Phase(s, e), SendBlock
  PROVE  Together'
<1>1. /\ s = "out" /\ host' = Advance /\ pipe.dmaOut
      /\ pipe \in Pipes /\ pipe' = [pipe EXCEPT !.dmaOut = FALSE]
      /\ mbox' = Append(e, "out")
      /\ UNCHANGED <<job, csw, command, badRead, pvMedia>>
  BY Starts, Posted DEF SendBlock, Outside, storageVars
<1>2. host.cmd # None /\ Receiving(s, e)
  BY <1>1 DEF Phase, Quiet, Sent, Obeyed, Sending, Ending, Reporting, Stalled, NoDma
<1>3. /\ psInst.scsi = "RECEIVE_BLOCKS"
      /\ ~psInst.dmaIn /\ pipe.dmaIn = None /\ NoPacket /\ NoStall
      /\ host.cmd.op = "WRITE" /\ csw.tag = host.cmd.tag
      /\ e = <<>> /\ job = "none" /\ psInst.lba = host.cmd.lba + host.done
      /\ host.done = host.cmd.n - psInst.left + 0
  BY <1>1, <1>2, QueueDistinct DEF Receiving
<1>4. /\ psInst'.scsi = psInst.scsi /\ psInst'.left = psInst.left /\ psInst'.lba = psInst.lba
      /\ psInst'.dmaIn = psInst.dmaIn
      /\ psInst'.buf = OutBlock(host.cmd.lba + host.done, host.cmd.tag)
  BY SentBlock, Starts, MachineIs DEF SendBlock, Machines
<1>5. /\ host'.done = host.done + 1 /\ host'.cmd = host.cmd
      /\ host'.st = IF host.done + 1 = host.cmd.n THEN "status" ELSE "out"
  BY <1>1, Advances
<1>6. /\ pipe'.in = pipe.in /\ pipe'.out = pipe.out /\ pipe'.dmaIn = pipe.dmaIn
      /\ ~pipe'.dmaOut
      /\ pipe'.inStall = pipe.inStall /\ pipe'.outStall = pipe.outStall
  BY <1>1 DEF Pipes
<1>7. mbox' = <<"out">> /\ <<"out">> \in Queues
  BY <1>1, <1>3, QueueGrows DEF Mails, Queues
<1>8. PICK t \in {"out", "status"} : t = IF host.done + 1 = host.cmd.n THEN "status" ELSE "out"
  OBVIOUS
<1>9. /\ psInst'.lba + 1 = host'.cmd.lba + host'.done
      /\ host'.done = host'.cmd.n - psInst'.left + 1
  <2>1. /\ psInst.left \in Nat /\ psInst.lba \in Nat /\ host.done \in Nat
        /\ host.cmd.n \in Nat /\ host.cmd.lba \in Nat
    BY <1>2, Numbers
  <2> QED
    BY <1>3, <1>4, <1>5, <2>1
<1>10. NoPacket' /\ NoStall'
  BY <1>3, <1>6 DEF NoPacket, NoStall
<1>11. Receiving(t, <<"out">>)'
  BY <1>1, <1>3, <1>4, <1>5, <1>6, <1>8, <1>9, <1>10, QueueDistinct DEF Receiving
<1> QED
  BY <1>2, <1>5, <1>7, <1>8, <1>11, MovesInStep DEF Phase, HostStates

\* fetches a packet
LEMMA FetchInStep ==
  ASSUME DeviceInv, ~aborted', NEW s \in HostStates \ {"off"}, NEW e \in Queues,
         host.st = s, mbox = e, Phase(s, e), Fetch
  PROVE  Together'
<1>1. /\ s \in {"in", "status"} /\ pipe.in # None /\ ~pipe.inStall
      /\ host \in Hosts /\ pipe \in Pipes /\ pipe' = [pipe EXCEPT !.in = None]
      /\ IF psInst.dmaIn THEN UNCHANGED mbox ELSE mbox' = Append(e, "in")
      /\ UNCHANGED <<psInst, job, csw, command, badRead, pvMedia>>
  BY Starts, Posted DEF Fetch, Outside, storageVars
<1>2. /\ pipe'.in = None /\ pipe'.out = pipe.out /\ pipe'.dmaIn = pipe.dmaIn
      /\ pipe'.dmaOut = pipe.dmaOut
      /\ pipe'.inStall = pipe.inStall /\ pipe'.outStall = pipe.outStall
  BY <1>1 DEF Pipes
<1>3. host.cmd # None /\ (Sending(s, e) \/ Ending(s, e) \/ Reporting(s, e))
  BY <1>1 DEF Phase, Quiet, Sent, Obeyed, Receiving, Stalled, NoPacket
<1>4. /\ psInst.left \in Nat /\ psInst.lba \in Nat /\ host.done \in Nat
      /\ host.cmd.n \in Nat /\ host.cmd.lba \in Nat
  BY <1>3, Numbers
<1>5. CASE Sending(s, e)
  <2>1. /\ psInst.scsi = "SEND_BLOCKS" /\ psInst.dmaIn /\ ~pipe.dmaOut
        /\ pipe.out = None /\ NoStall /\ pipe.in.kind # "csw"
        /\ host.cmd.op = "READ" /\ csw.tag = host.cmd.tag
        /\ s = IF host.done = host.cmd.n THEN "status" ELSE "in"
        /\ psInst.lba + psInst.left = host.cmd.lba + host.cmd.n
        /\ host.done + 1 = host.cmd.n - psInst.left + (IF e = <<>> THEN 0 ELSE 1)
    BY <1>1, <1>5 DEF Sending
  <2>2. psInst.left > 0
    BY <2>1 DEF DeviceInv, RangeInv
  <2>3. s = "in"
    <3>1. host.done # host.cmd.n
      BY <1>4, <2>1, <2>2
    <3> QED
      BY <2>1, <3>1
  <2>4. host' = Advance
    BY <1>5, <2>1, <2>3 DEF Fetch
  <2>5. /\ host'.done = host.done + 1 /\ host'.cmd = host.cmd
        /\ host'.st = IF host.done + 1 = host.cmd.n THEN "status" ELSE "in"
    BY <2>3, <2>4, Advances
  <2>6. PICK t \in {"in", "status"} : t = IF host.done + 1 = host.cmd.n THEN "status" ELSE "in"
    OBVIOUS
  <2>7. \/ e = <<>> /\ job = "none" /\ pipe.dmaIn # None /\ Holds(pipe.dmaIn, psInst.lba)
        \/ e = <<>> /\ job = "sendNext" /\ pipe.dmaIn = None
        \/ e = <<"in">> /\ job = "none" /\ pipe.dmaIn = None
    BY <1>5 DEF Sending
  <2>8. \/ e = <<>> /\ job' = "none" /\ pipe'.dmaIn # None /\ Holds(pipe.dmaIn, psInst.lba)'
        \/ e = <<>> /\ job' = "sendNext" /\ pipe'.dmaIn = None
        \/ e = <<"in">> /\ job' = "none" /\ pipe'.dmaIn = None
    BY <1>1, <1>2, <2>7 DEF Holds
  <2>9. /\ psInst'.lba + psInst'.left = host'.cmd.lba + host'.cmd.n
        /\ host'.done + 0 = host'.cmd.n - psInst'.left + (IF e = <<>> THEN 0 ELSE 1)
    BY <1>1, <1>4, <2>1, <2>5
  <2>10. NoStall'
    BY <1>2, <2>1 DEF NoStall
  <2>11. Sending(t, e)'
    BY <1>1, <1>2, <2>1, <2>5, <2>6, <2>8, <2>9, <2>10 DEF Sending
  <2> QED
    BY <1>1, <1>3, <2>1, <2>5, <2>6, <2>11, MovesInStep DEF Phase, HostStates
<1>6. CASE Ending(s, e)
  <2>1. /\ s = "in" /\ e = <<>> /\ pipe.in.kind # "csw" /\ NoStall
        /\ host.done + 1 = host.cmd.n /\ NoDma /\ job = "none"
        /\ psInst.scsi = "SEND_STATUS" /\ pipe.out = None /\ csw.tag = host.cmd.tag
    BY <1>1, <1>6 DEF Ending
  <2>2. host' = Advance /\ mbox' = Append(e, "in")
    BY <1>1, <2>1 DEF Fetch, NoDma
  <2>3. host'.done = host.done + 1 /\ host'.cmd = host.cmd /\ host'.st = "status"
    BY <2>1, <2>2, Advances
  <2>4. mbox' = <<"in">> /\ <<"in">> \in Queues
    BY <2>1, <2>2, QueueGrows DEF Mails, Queues
  <2>5. NoDma' /\ NoStall'
    BY <1>1, <1>2, <2>1 DEF NoDma, NoStall
  <2>6. Ending("status", <<"in">>)'
    BY <1>1, <1>2, <2>1, <2>3, <2>5 DEF Ending
  <2> QED
    BY <1>3, <2>3, <2>4, <2>6, MovesInStep DEF Phase, HostStates
<1>7. CASE Reporting(s, e)
  <2>1. /\ s = "status" /\ job = "none" /\ NoDma /\ pipe.out = None /\ ~pipe.outStall
        /\ \E bad \in BOOLEAN : pipe.in = Csw(host.cmd.tag, bad)
        /\ \/ psInst.scsi = "SENT_STATUS" /\ e \in {<<>>, <<"in">>}
           \/ psInst.scsi = "IDLE" /\ e = <<>>
    BY <1>1, <1>7 DEF Reporting
  <2>2. pipe.in.kind = "csw"
    BY <2>1, Kinds
  <2>3. host' = [host EXCEPT !.st = "idle"] /\ mbox' = Append(e, "in")
    BY <1>1, <2>1, <2>2 DEF Fetch, NoDma
  <2>4. host'.st = "idle" /\ host'.cmd = host.cmd
    BY <1>1, <2>3 DEF Hosts
  <2>5. NoDma' /\ NoStall' /\ NoPacket'
    BY <1>1, <1>2, <2>1 DEF NoDma, NoStall, NoPacket
  <2>6. CASE psInst.scsi = "SENT_STATUS" /\ e \in {<<>>, <<"in">>}
    <3>1. mbox' \in {<<"in">>, <<"in", "in">>}
      BY <2>3, <2>6, QueueGrows DEF Mails
    <3>2. PICK f \in {<<"in">>, <<"in", "in">>} : mbox' = f
      BY <3>1
    <3>3. Reporting("idle", f)'
      BY <1>1, <1>2, <2>1, <2>4, <2>5, <2>6, <3>2 DEF Reporting, NoStall
    <3> QED
      BY <1>3, <2>4, <3>2, <3>3, MovesInStep DEF Phase, HostStates, Queues
  <2>7. CASE psInst.scsi = "IDLE" /\ e = <<>>
    <3>1. mbox' = <<"in">>
      BY <2>3, <2>7, QueueGrows DEF Mails
    <3>2. Quiet("idle", <<"in">>)'
      BY <1>1, <2>1, <2>5, <2>7 DEF Quiet
    <3> QED
      BY <2>4, <3>1, <3>2, MovesInStep DEF Phase, HostStates, Queues
  <2> QED
    BY <2>1, <2>6, <2>7
<1> QED
  BY <1>3, <1>5, <1>6, <1>7

\* or is plugged in.
LEMMA PlugInStep ==
  ASSUME DeviceInv, ~aborted', Unplugged, Plug
  PROVE  Together'
<1>1. /\ host \in Hosts /\ host' = [host EXCEPT !.st = "configured"] /\ pipe \in Pipes
      /\ pipe' = [pipe EXCEPT !.in = None, !.out = None, !.inStall = FALSE, !.outStall = FALSE]
      /\ UNCHANGED <<psInst, job>>
  BY Starts DEF Plug, Outside
<1>2. host'.st = "configured"
  BY <1>1 DEF Hosts
<1>3. /\ pipe'.in = None /\ pipe'.out = None /\ pipe'.dmaIn = pipe.dmaIn
      /\ pipe'.dmaOut = pipe.dmaOut /\ pipe'.inStall = FALSE /\ pipe'.outStall = FALSE
  BY <1>1 DEF Pipes
<1>4. mbox' = <<"config">> /\ <<"config">> \in Queues
  BY Posted, QueueGrows DEF Plug, Unplugged, Mails, Queues
<1>5. Quiet("configured", <<"config">>)'
  BY <1>1, <1>3 DEF Quiet, Unplugged, NoDma, NoPacket, NoStall
<1> QED
  BY <1>2, <1>4, <1>5, MovesInStep DEF Phase, HostStates

\* So does every step of the host.
LEMMA HostInStep ==
  ASSUME DeviceInv, MaxMoves <= 1, ~aborted', NEW s \in HostStates \ {"off"}, NEW e \in Queues,
         Queued(s, e), Phase(s, e), HostStep
  PROVE  Together'
<1>1. CASE host.st = s /\ mbox = e
  <2>1. ~Plug
    BY <1>1 DEF Plug
  <2> QED
    BY <1>1, <2>1, DmaInStep, AskInStep, UnplugInStep, StallInStep, GiveUpInStep,
       SendCommandInStep, SendBlockInStep, FetchInStep
    DEF HostStep, HostProgress
<1>2. CASE host.st = "off" /\ moves > 0
  <2>1. Plug /\ moves < MaxMoves
    BY <1>2
    DEF HostStep, HostProgress, DmaIn, Ask, DoNotWait, Unplug, GiveUp, Stuck, SendCommand, Fetch,
        SeeInStall, SeeOutStall, SendBlock, Plug
  <2>2. moves \in Nat /\ MaxMoves \in Nat
    BY MscAssumption DEF MscAssumption, DeviceInv, MscTypeOK
  <2> QED
    BY <1>2, <2>1, <2>2
<1> QED
  BY <1>1, <1>2 DEF Queued

-----------------------------------------------------------------------------
(* The queues of a device that has lost its host *)

\* A queue of four,
LEMMA LongDistinct ==
  \A m, n, o, p : /\ <<m, n, o, p>> # <<>> /\ Head(<<m, n, o, p>>) = m
                  /\ Len(<<m, n, o, p>>) = 4
OBVIOUS

\* what is left of the long ones,
LEMMA LongRests ==
  /\ Tail(<<"out", "in">>) = <<"in">>
  /\ Tail(<<"getMaxLun", "out", "in">>) = <<"out", "in">>
  /\ Tail(<<"config", "getMaxLun", "out", "in">>) = <<"getMaxLun", "out", "in">>
OBVIOUS

\* what they grow from,
LEMMA LongGrows ==
  ASSUME NEW m \in Mails, NEW n \in Mails, NEW o \in Mails, NEW p \in Mails
  PROVE  Append(<<m, n, o>>, p) = <<m, n, o, p>>
<1>1. ASSUME NEW s \in Seq(Mails), NEW t \in Seq(Mails), Len(s) = Len(t),
             \A i \in 1..Len(s) : s[i] = t[i]
      PROVE  s = t
  BY <1>1
<1> DEFINE s == Append(<<m, n, o>>, p)
           t == <<m, n, o, p>>
<1>2. /\ <<m, n, o>> \in Seq(Mails) /\ Len(<<m, n, o>>) = 3
      /\ <<m, n, o>>[1] = m /\ <<m, n, o>>[2] = n /\ <<m, n, o>>[3] = o
      /\ t \in Seq(Mails) /\ Len(t) = 4 /\ t[1] = m /\ t[2] = n /\ t[3] = o /\ t[4] = p
  OBVIOUS
<1>3. s \in Seq(Mails) /\ Len(s) = 4
  BY <1>2
<1>4. s[1] = m /\ s[2] = n /\ s[3] = o /\ s[4] = p
  BY <1>2
<1> HIDE DEF s, t
<1>5. \A i \in 1..Len(s) : s[i] = t[i]
  BY <1>2, <1>3, <1>4
<1>6. s = t
  BY <1>1, <1>2, <1>3, <1>5
<1> QED
  BY <1>6 DEF s, t

\* and what they are made of
LEMMA LongTypes ==
  ASSUME NEW e \in LongQueues
  PROVE  e \in Seq(Mails)
<1>1. CASE e \in Queues
  BY <1>1, QueueTypes
<1>2. CASE e = <<"out", "in">>
  BY <1>2 DEF Mails
<1>3. CASE e = <<"getMaxLun", "out", "in">>
  BY <1>3 DEF Mails
<1>4. CASE e = <<"config", "getMaxLun", "out", "in">>
  BY <1>4 DEF Mails
<1> QED
  BY <1>1, <1>2, <1>3, <1>4 DEF LongQueues

\* Which configurations have not been handled
LEMMA ConfigIs ==
  /\ ~Configures(<<>>) /\ Configures(<<"config">>)
  /\ \A m : m # "config" => ~Configures(<<m>>)
  /\ \A m, n : Configures(<<m, n>>) <=> m = "config"
  /\ \A m, n, o : Configures(<<m, n, o>>) <=> m = "config"
  /\ \A m, n, o, p : Configures(<<m, n, o, p>>) <=> m = "config"
BY QueueDistinct, LongDistinct DEF Configures

\* What the queue of a device out of step starts with tells its phase.
LEMMA AstrayStarts ==
  ASSUME NEW s, NEW e, Astray(s, e), e # <<>>
  PROVE  /\ Head(e) \in {"in", "out", "config", "getMaxLun", "reset"}
         /\ Head(e) = "in" => Ignored(s, e) /\ e = <<"in">>
         /\ Head(e) = "reset" => Ignored(s, e) /\ e = <<"reset">> /\ s \in {"wait", "idle"}
         /\ Head(e) = "out" =>
              /\ Unheard(s, e)
              /\ \/ e = <<"out">> /\ pipe.in = None
                 \/ e = <<"out", "in">> /\ psInst.scsi = "SEND_BLOCKS" /\ pipe.dmaIn = None
         /\ Head(e) = "getMaxLun" =>
              \/ Enumerating(s, e) /\ e = <<"getMaxLun">> /\ s \in {"wait", "idle"}
              \/ /\ Unheard(s, e)
                 /\ \/ e = <<"getMaxLun", "out">> /\ pipe.in = None
                    \/ /\ e = <<"getMaxLun", "out", "in">>
                       /\ psInst.scsi = "SEND_BLOCKS" /\ pipe.dmaIn = None
         /\ Head(e) = "config" =>
              \/ /\ Enumerating(s, e)
                 /\ \/ e = <<"config">> /\ s = "configured"
                    \/ e = <<"config", "getMaxLun">> /\ s \in {"wait", "idle"}
              \/ /\ Unheard(s, e)
                 /\ \/ e = <<"config", "getMaxLun", "out">> /\ pipe.in = None
                    \/ /\ e = <<"config", "getMaxLun", "out", "in">>
                       /\ psInst.scsi = "SEND_BLOCKS" /\ pipe.dmaIn = None
<1>1. CASE Enumerating(s, e)
  <2>1. CASE e = <<"config">> /\ s = "configured"
    BY <1>1, <2>1, QueueDistinct
  <2>2. CASE e = <<"getMaxLun">> /\ s \in {"wait", "idle"}
    BY <1>1, <2>2, QueueDistinct
  <2>3. CASE e = <<"config", "getMaxLun">> /\ s \in {"wait", "idle"}
    BY <1>1, <2>3, QueueDistinct
  <2> QED
    BY <1>1, <2>1, <2>2, <2>3 DEF Enumerating
<1>2. CASE Unheard(s, e)
  <2>1. CASE e = <<"out">> /\ pipe.in = None
    BY <1>2, <2>1, QueueDistinct
  <2>2. CASE e = <<"getMaxLun", "out">> /\ pipe.in = None
    BY <1>2, <2>2, QueueDistinct
  <2>3. CASE e = <<"config", "getMaxLun", "out">> /\ pipe.in = None
    BY <1>2, <2>3, QueueDistinct
  <2>4. CASE e = <<"out", "in">> /\ psInst.scsi = "SEND_BLOCKS" /\ pipe.dmaIn = None
    BY <1>2, <2>4, QueueDistinct
  <2>5. CASE e = <<"getMaxLun", "out", "in">> /\ psInst.scsi = "SEND_BLOCKS" /\ pipe.dmaIn = None
    BY <1>2, <2>5, QueueDistinct
  <2>6. CASE /\ e = <<"config", "getMaxLun", "out", "in">>
             /\ psInst.scsi = "SEND_BLOCKS" /\ pipe.dmaIn = None
    BY <1>2, <2>6, LongDistinct
  <2> QED
    BY <1>2, <2>1, <2>2, <2>3, <2>4, <2>5, <2>6 DEF Unheard
<1>3. CASE Ignored(s, e)
  <2>1. CASE e = <<"in">>
    BY <1>3, <2>1, QueueDistinct
  <2>2. CASE e = <<"reset">> /\ s \in {"wait", "idle"}
    BY <1>3, <2>2, QueueDistinct
  <2> QED
    BY <1>3, <2>1, <2>2 DEF Ignored
<1> QED
  BY <1>1, <1>2, <1>3 DEF Astray

\* The command that is ignored, with nothing in the mailbox
LEMMA IgnoredIs ==
  ASSUME NEW s, Ignored(s, <<"in">>)
  PROVE  /\ job = "none" /\ pipe.dmaIn = None /\ psInst.scsi # "RECEIVE_BLOCKS"
         /\ pipe.in = None \/ psInst.scsi = "SEND_BLOCKS"
         /\ s # "configured" /\ pipe.out # None
BY QueueDistinct DEF Ignored

-----------------------------------------------------------------------------
(* The daemon after a loss *)

\* Where the next step finds a device out of step
LEMMA FoundAstray ==
  ASSUME NEW s \in HostStates \ {"off"}, NEW e \in LongQueues, Astray(s, e)',
         \/ host'.st = s /\ mbox' = e
         \/ host'.st = "off" /\ moves' > 0 /\ mbox' = Append(e, "disconnect")
  PROVE  OutOfStep'
BY DEF OutOfStep, Queued

\* An IN event leaves no other.
LEMMA InAstray ==
  ASSUME DeviceInv, NEW s, Astray(s, <<"in">>), Ignored(s, <<"in">>),
         SendNext \/ SendLast \/ StatusPhase \/ StatusGone
  PROVE  Astray(s, <<>>)'
<1>1. /\ job = "none" /\ pipe.dmaIn = None /\ psInst.scsi # "RECEIVE_BLOCKS"
      /\ pipe.in = None \/ psInst.scsi = "SEND_BLOCKS"
      /\ s # "configured" /\ pipe.out # None
  BY IgnoredIs
<1>2. psInst \in Machines /\ pipe \in Pipes
  BY Starts
<1>3. /\ psInst.dmaIn <=> psInst.scsi = "SEND_BLOCKS"
      /\ ~pipe.dmaOut /\ ~pipe.inStall /\ ~pipe.outStall
  BY <1>1, Starts DEF Astray, DmaOfTransfer, NoStall
<1>4. CASE SendNext
  <2>1. /\ psInst' = [psInst EXCEPT !.left = psInst.left - 1, !.lba = psInst.lba + 1]
        /\ psInst.scsi = "SEND_BLOCKS" /\ pipe' = pipe /\ job' = "sendNext"
    BY <1>4 DEF SendNext, UseFlash
  <2>2. psInst'.scsi = psInst.scsi /\ psInst'.dmaIn = psInst.dmaIn
    BY <1>2, <2>1 DEF Machines
  <2> QED
    BY <1>1, <1>3, <2>1, <2>2 DEF Astray, Ignored, DmaOfTransfer, NoStall
<1>5. CASE SendLast
  <2>1. PICK t \in {"SEND_STATUS", "SENT_STATUS"} :
          psInst' = [psInst EXCEPT !.left = 0, !.dmaIn = FALSE, !.scsi = t]
    BY <1>5 DEF SendLast
  <2>2. psInst'.scsi = t /\ psInst'.dmaIn = FALSE
    BY <1>2, <2>1 DEF Machines
  <2>3. pipe' = pipe \/ pipe' = [pipe EXCEPT !.in = Csw(csw.tag, FALSE)]
    BY <1>5 DEF SendLast
  <2>4. /\ pipe'.out = pipe.out /\ pipe'.dmaIn = pipe.dmaIn /\ pipe'.dmaOut = pipe.dmaOut
        /\ pipe'.inStall = pipe.inStall /\ pipe'.outStall = pipe.outStall
    BY <1>2, <2>3 DEF Pipes
  <2>5. job' = "none"
    BY <1>1, <1>5 DEF SendLast, NoStorage
  <2> QED
    BY <1>1, <1>3, <2>2, <2>4, <2>5 DEF Astray, Ignored, DmaOfTransfer, NoStall
<1>6. CASE StatusPhase \/ StatusGone
  <2>1. PICK t \in {"IDLE", "SENT_STATUS"} : psInst' = [psInst EXCEPT !.scsi = t]
    BY <1>6 DEF StatusPhase, StatusGone, Scsi
  <2>2. psInst'.scsi = t /\ psInst'.dmaIn = psInst.dmaIn /\ psInst.scsi # "SEND_BLOCKS"
    BY <1>2, <1>6, <2>1 DEF Machines, StatusPhase, StatusGone
  <2>3. pipe' = pipe \/ pipe' = [pipe EXCEPT !.in = PutIn(Csw(csw.tag, csw.bad))]
    BY <1>6 DEF StatusPhase, StatusGone
  <2>4. /\ pipe'.out = pipe.out /\ pipe'.dmaIn = pipe.dmaIn /\ pipe'.dmaOut = pipe.dmaOut
        /\ pipe'.inStall = pipe.inStall /\ pipe'.outStall = pipe.outStall
    BY <1>2, <2>3 DEF Pipes
  <2>5. job' = "none"
    BY <1>1, <1>6 DEF StatusPhase, StatusGone, NoStorage
  <2> QED
    BY <1>1, <1>3, <2>2, <2>4, <2>5 DEF Astray, Ignored, DmaOfTransfer, NoStall
<1> QED
  BY <1>4, <1>5, <1>6

\* The command is taken for a block,
LEMMA ReceiveAstray ==
  ASSUME DeviceInv, NEW s, Astray(s, <<"out">>), Unheard(s, <<"out">>), pipe.in = None,
         ReceiveBlock
  PROVE  Astray(s, <<>>)'
<1>1. /\ psInst \in Machines /\ psInst.scsi = "RECEIVE_BLOCKS" /\ job' = "receive"
      /\ psInst' = [psInst EXCEPT !.left = psInst.left - 1] /\ pipe' = pipe
  BY Starts DEF ReceiveBlock, UseFlash
<1>2. psInst'.scsi = psInst.scsi /\ psInst'.dmaIn = psInst.dmaIn
  BY <1>1 DEF Machines
<1>3. ~pipe.dmaOut /\ s # "configured" /\ pipe.out # None
  BY ConfigIs DEF Unheard, Configured
<1>4. DmaOfTransfer /\ NoStall
  BY DEF Astray
<1> QED
  BY <1>1, <1>2, <1>3, <1>4, QueueDistinct DEF Astray, Ignored, DmaOfTransfer, NoStall

\* or is ignored, as an IN event may be.
LEMMA IgnoreAstray ==
  ASSUME DeviceInv, NEW s, NEW e, Astray(s, e), e # <<>>, Ignore,
         \/ Head(e) = "in" /\ Take("in")
         \/ Head(e) = "out" /\ Take("out") /\ psInst.scsi # "RECEIVE_BLOCKS"
  PROVE  Astray(s, Tail(e))' /\ Tail(e) \in LongQueues
<1>1. UNCHANGED <<psInst, pipe, job>> /\ job = "none"
  BY DEF Ignore, NoStorage, mscVars, Take
<1>2. (DmaOfTransfer /\ NoStall)'
  BY <1>1 DEF Astray, DmaOfTransfer, NoStall
<1>3. <<>> \in LongQueues /\ <<"in">> \in LongQueues
  BY DEF LongQueues, Queues
<1>4. CASE Head(e) = "in"
  <2>1. Ignored(s, <<"in">>) /\ Tail(e) = <<>>
    BY <1>4, AstrayStarts, QueueRests
  <2>2. Ignored(s, <<>>)'
    BY <1>1, <2>1, IgnoredIs DEF Ignored
  <2> QED
    BY <1>2, <1>3, <2>1, <2>2 DEF Astray
<1>5. CASE Head(e) = "out"
  <2>1. psInst.scsi # "RECEIVE_BLOCKS"
    BY <1>5, QueueDistinct DEF Take
  <2>2. /\ s # "configured" /\ pipe.out # None
        /\ \/ e = <<"out">>
           \/ e = <<"out", "in">> /\ psInst.scsi = "SEND_BLOCKS" /\ pipe.dmaIn = None
    BY <1>5, AstrayStarts DEF Unheard
  <2>3. CASE e = <<"out">>
    <3>1. Tail(e) = <<>>
      BY <2>3, QueueRests
    <3>2. Ignored(s, <<>>)'
      BY <1>1, <2>1, <2>2 DEF Ignored
    <3> QED
      BY <1>2, <1>3, <3>1, <3>2 DEF Astray
  <2>4. CASE e = <<"out", "in">> /\ psInst.scsi = "SEND_BLOCKS" /\ pipe.dmaIn = None
    <3>1. Tail(e) = <<"in">>
      BY <2>4, LongRests
    <3>2. Ignored(s, <<"in">>)'
      BY <1>1, <2>1, <2>2, <2>4 DEF Ignored
    <3> QED
      BY <1>2, <1>3, <3>1, <3>2 DEF Astray
  <2> QED
    BY <2>2, <2>3, <2>4
<1> QED
  BY <1>4, <1>5

\* A new configuration ends the wait for a block.
LEMMA ConfigAstray ==
  ASSUME DeviceInv, NEW s, NEW e, Astray(s, e), e # <<>>, Head(e) = "config", ConfigChange
  PROVE  Astray(s, Tail(e))' /\ Tail(e) \in LongQueues
<1>1. /\ pipe \in Pipes /\ pipe' = [pipe EXCEPT !.dmaIn = None, !.dmaOut = FALSE]
      /\ UNCHANGED <<psInst, job>>
  BY Starts DEF ConfigChange, NoStorage
<1>2. /\ pipe'.in = pipe.in /\ pipe'.out = pipe.out /\ pipe'.dmaIn = None /\ pipe'.dmaOut = FALSE
      /\ pipe'.inStall = pipe.inStall /\ pipe'.outStall = pipe.outStall
  BY <1>1 DEF Pipes
<1>3. (DmaOfTransfer /\ NoStall)'
  BY <1>1, <1>2 DEF Astray, DmaOfTransfer, NoStall
<1>4. \A f : Configured(f)' \/ Configures(f)
  BY <1>2 DEF Configured, Configures
<1>5. CASE Enumerating(s, e)
  <2>1. psInst'.scsi # "IDLE" /\ job' \in {"none", "disconnect"} /\ NoPacket'
    BY <1>1, <1>2, <1>5 DEF Enumerating, NoPacket
  <2>2. CASE e = <<"config">> /\ s = "configured"
    <3>1. Tail(e) = <<>> /\ <<>> \in LongQueues
      BY <2>2, QueueRests DEF LongQueues, Queues
    <3>2. Enumerating(s, <<>>)'
      BY <1>4, <2>1, <2>2, ConfigIs DEF Enumerating
    <3> QED
      BY <1>3, <3>1, <3>2 DEF Astray
  <2>3. CASE e = <<"config", "getMaxLun">> /\ s \in {"wait", "idle"}
    <3>1. Tail(e) = <<"getMaxLun">> /\ <<"getMaxLun">> \in LongQueues
      BY <2>3, QueueRests DEF LongQueues, Queues
    <3>2. Enumerating(s, <<"getMaxLun">>)'
      BY <1>4, <2>1, <2>3, ConfigIs DEF Enumerating
    <3> QED
      BY <1>3, <3>1, <3>2 DEF Astray
  <2>4. CASE Unheard(s, e)
    BY <1>5, <2>4 DEF Enumerating, Unheard, NoPacket
  <2> QED
    BY <2>2, <2>3, <2>4, AstrayStarts
<1>6. CASE Unheard(s, e)
  <2>1. /\ psInst'.scsi # "IDLE" /\ job' \in {"none", "disconnect"}
        /\ s # "configured" /\ pipe'.out # None
    BY <1>1, <1>2, <1>6 DEF Unheard
  <2>2. CASE e = <<"config", "getMaxLun", "out">> /\ pipe.in = None
    <3>1. Tail(e) = <<"getMaxLun", "out">> /\ <<"getMaxLun", "out">> \in LongQueues
      BY <2>2, QueueRests DEF LongQueues, Queues
    <3>2. Unheard(s, <<"getMaxLun", "out">>)'
      BY <1>2, <1>4, <2>1, <2>2, ConfigIs DEF Unheard
    <3> QED
      BY <1>3, <3>1, <3>2 DEF Astray
  <2>3. CASE e = <<"config", "getMaxLun", "out", "in">> /\ psInst.scsi = "SEND_BLOCKS"
    <3>1. Tail(e) = <<"getMaxLun", "out", "in">> /\ <<"getMaxLun", "out", "in">> \in LongQueues
      BY <2>3, LongRests DEF LongQueues
    <3>2. Unheard(s, <<"getMaxLun", "out", "in">>)'
      BY <1>1, <1>2, <1>4, <2>1, <2>3, ConfigIs DEF Unheard
    <3> QED
      BY <1>3, <3>1, <3>2 DEF Astray
  <2>4. CASE Enumerating(s, e)
    BY <1>6, <2>4 DEF Enumerating, Unheard, NoPacket
  <2> QED
    BY <2>2, <2>3, <2>4, AstrayStarts
<1>7. Enumerating(s, e) \/ Unheard(s, e)
  BY AstrayStarts
<1> QED
  BY <1>5, <1>6, <1>7

\* A request is answered, and a reset changes nothing.
LEMMA RequestAstray ==
  ASSUME DeviceInv, NEW s \in HostStates \ {"off"}, NEW e, Astray(s, e), e # <<>>, Request,
         Head(e) \in {"getMaxLun", "reset"}, host.st \in {s, "off"}
  PROVE  \E t \in HostStates \ {"off"} :
           /\ host'.st = t \/ (host.st = "off" /\ host' = host)
           /\ Astray(t, Tail(e))' /\ Tail(e) \in LongQueues
<1> PICK t : t = IF host.st = "wait" THEN "idle" ELSE s
  OBVIOUS
<1>1. /\ host \in Hosts
      /\ host' = IF host.st = "wait" THEN [host EXCEPT !.st = "idle"] ELSE host
      /\ UNCHANGED <<psInst, pipe, job>> /\ job = "none"
  BY Starts DEF Request, NoStorage, mscVars, Take
<1>2. /\ t \in HostStates \ {"off"} /\ (s # "configured" => t # "configured")
      /\ s \in {"wait", "idle"} => t \in {"wait", "idle"}
      /\ host'.st = t \/ (host.st = "off" /\ host' = host)
  BY <1>1 DEF HostStates, Hosts
<1>3. (DmaOfTransfer /\ NoStall)'
  BY <1>1 DEF Astray, DmaOfTransfer, NoStall
<1>4. \A f : Configured(f)' \/ Configures(f) \/ pipe.dmaOut
  BY <1>1 DEF Configured, Configures
<1>5. <<>> \in LongQueues /\ <<"out">> \in LongQueues /\ <<"out", "in">> \in LongQueues
  BY DEF LongQueues, Queues
<1>6. CASE Ignored(s, e) /\ e = <<"reset">>
  <2>1. Tail(e) = <<>>
    BY <1>6, QueueRests
  <2>2. Ignored(t, <<>>)'
    BY <1>1, <1>2, <1>6 DEF Ignored
  <2> QED
    BY <1>2, <1>3, <1>5, <2>1, <2>2 DEF Astray
<1>7. CASE Enumerating(s, e) /\ e = <<"getMaxLun">> /\ s \in {"wait", "idle"}
  <2>1. Tail(e) = <<>> /\ ~pipe.dmaOut
    BY <1>7, QueueRests, ConfigIs DEF Enumerating, Configured
  <2>2. Enumerating(t, <<>>)'
    BY <1>1, <1>2, <1>4, <1>7, <2>1, ConfigIs DEF Enumerating, NoPacket
  <2> QED
    BY <1>2, <1>3, <1>5, <2>1, <2>2 DEF Astray
<1>8. CASE Unheard(s, e) /\ e = <<"getMaxLun", "out">> /\ pipe.in = None
  <2>1. Tail(e) = <<"out">> /\ ~pipe.dmaOut
    BY <1>8, QueueRests, ConfigIs DEF Unheard, Configured
  <2>2. Unheard(t, <<"out">>)'
    BY <1>1, <1>2, <1>4, <1>8, <2>1, ConfigIs DEF Unheard
  <2> QED
    BY <1>2, <1>3, <1>5, <2>1, <2>2 DEF Astray
<1>9. CASE /\ Unheard(s, e) /\ e = <<"getMaxLun", "out", "in">>
           /\ psInst.scsi = "SEND_BLOCKS" /\ pipe.dmaIn = None
  <2>1. Tail(e) = <<"out", "in">> /\ ~pipe.dmaOut
    BY <1>9, LongRests, ConfigIs DEF Unheard, Configured
  <2>2. Unheard(t, <<"out", "in">>)'
    BY <1>1, <1>2, <1>4, <1>9, <2>1, ConfigIs DEF Unheard
  <2> QED
    BY <1>2, <1>3, <1>5, <2>1, <2>2 DEF Astray
<1> QED
  BY <1>6, <1>7, <1>8, <1>9, AstrayStarts

\* The lost command goes on.
LEMMA GoesOnAstray ==
  ASSUME DeviceInv, NEW s, NEW e, Astray(s, e), SendNextRead \/ BlockWritten
  PROVE  Astray(s, e)'
<1>1. psInst \in Machines /\ pipe \in Pipes
  BY Starts
<1>2. /\ job \in {"sendNext", "receive"} /\ job' = "none"
      /\ job = "sendNext" => SendNextRead /\ psInst.scsi = "SEND_BLOCKS"
      /\ job = "receive" => BlockWritten /\ psInst.scsi = "RECEIVE_BLOCKS"
  BY DEF SendNextRead, BlockWritten, Resume, DeviceInv, JobInv
<1>3. /\ DmaOfTransfer /\ NoStall
      /\ s # "configured" /\ pipe.out # None
      /\ psInst.scsi = "RECEIVE_BLOCKS" => pipe.in = None
      /\ job = "sendNext" => pipe.dmaIn = None
      /\ job = "receive" => ~pipe.dmaOut
      /\ e = <<>> \/ (e = <<"reset">> /\ s \in {"wait", "idle"})
  BY <1>2 DEF Astray, Enumerating, Unheard, Ignored
<1>4. e # <<"in">>
  BY <1>3, QueueDistinct
<1>5. CASE SendNextRead /\ psInst.scsi = "SEND_BLOCKS"
  <2>1. BlockRead(psInst.left) /\ psInst.left \in 1..MaxBlocks /\ psInst.lba \in LBA
    <3>1. job = "sendNext"
      BY <1>5 DEF SendNextRead, Resume
    <3>2. psInst.left > 0 /\ psInst.lba + psInst.left <= MaxLBA + 1
      BY <3>1, Starts, MscAssumption DEF DeviceInv, JobInv, RangeInv, MscAssumption
    <3> QED
      BY <1>5, <3>2, Starts, MscAssumption DEF SendNextRead, LBA, MscAssumption
  <2>2. PICK b \in Blocks :
          /\ psInst' = Machine("SEND_BLOCKS", psInst.left, psInst.lba, b, TRUE)
          /\ pipe' = Pipe(pipe.in, pipe.out, b, pipe.dmaOut, pipe.inStall, pipe.outStall)
    BY <2>1, BlockReadIs
  <2>3. psInst'.scsi = "SEND_BLOCKS" /\ psInst'.dmaIn = TRUE
    BY <1>1, <2>2 DEF Machine, Machines
  <2>4. /\ pipe'.in = pipe.in /\ pipe'.out = pipe.out /\ pipe'.dmaOut = pipe.dmaOut
        /\ pipe'.inStall = pipe.inStall /\ pipe'.outStall = pipe.outStall
    BY <1>1, <2>2 DEF Pipe, Pipes
  <2>5. (DmaOfTransfer /\ NoStall)'
    BY <1>3, <1>5, <2>3, <2>4 DEF DmaOfTransfer, NoStall
  <2>6. Ignored(s, e)'
    BY <1>2, <1>3, <1>4, <2>3, <2>4 DEF Ignored
  <2> QED
    BY <2>5, <2>6 DEF Astray
<1>6. CASE BlockWritten /\ psInst.scsi = "RECEIVE_BLOCKS"
  <2>1. /\ ~psInst.dmaIn /\ pipe.dmaIn = None /\ pipe.in = None /\ ~pipe.dmaOut
    BY <1>2, <1>3, <1>6 DEF DmaOfTransfer
  <2>2. CASE psInst.left = 0
    <3>1. /\ psInst' = [psInst EXCEPT !.lba = psInst.lba + 1, !.scsi = "SENT_STATUS"]
          /\ pipe' = [pipe EXCEPT !.in = PutIn(Csw(csw.tag, FALSE))]
      BY <1>6, <2>2 DEF BlockWritten
    <3>2. psInst'.scsi = "SENT_STATUS" /\ psInst'.dmaIn = psInst.dmaIn
      BY <1>1, <3>1 DEF Machines
    <3>3. /\ pipe'.out = pipe.out /\ pipe'.dmaIn = pipe.dmaIn /\ pipe'.dmaOut = pipe.dmaOut
          /\ pipe'.inStall = pipe.inStall /\ pipe'.outStall = pipe.outStall
      BY <1>1, <3>1 DEF Pipes
    <3>4. (DmaOfTransfer /\ NoStall)'
      BY <1>3, <2>1, <3>2, <3>3, Starts DEF DmaOfTransfer, NoStall
    <3>5. Ignored(s, e)'
      BY <1>2, <1>3, <1>4, <3>2, <3>3 DEF Ignored
    <3> QED
      BY <3>4, <3>5 DEF Astray
  <2>3. CASE psInst.left # 0
    <3>1. /\ psInst' = [psInst EXCEPT !.lba = psInst.lba + 1]
          /\ pipe' = [pipe EXCEPT !.dmaOut = TRUE]
      BY <1>6, <2>3 DEF BlockWritten
    <3>2. psInst'.scsi = "RECEIVE_BLOCKS" /\ psInst'.dmaIn = psInst.dmaIn
      BY <1>1, <1>6, <3>1 DEF Machines
    <3>3. /\ pipe'.in = pipe.in /\ pipe'.out = pipe.out /\ pipe'.dmaIn = pipe.dmaIn
          /\ pipe'.inStall = pipe.inStall /\ pipe'.outStall = pipe.outStall
      BY <1>1, <3>1 DEF Pipes
    <3>4. (DmaOfTransfer /\ NoStall)'
      BY <1>3, <2>1, <3>2, <3>3, Starts DEF DmaOfTransfer, NoStall
    <3>5. Ignored(s, e)'
      BY <1>2, <1>3, <1>4, <2>1, <3>2, <3>3 DEF Ignored
    <3> QED
      BY <3>4, <3>5 DEF Astray
  <2> QED
    BY <2>2, <2>3
<1> QED
  BY <1>2, <1>5, <1>6

\* The end of the last connection, the flash and Python change nothing.
LEMMA AstrayKept ==
  ASSUME NEW s, NEW e, Astray(s, e), UNCHANGED <<psInst, pipe>>,
         moves' = moves \/ moves' > 0,
         job' = job \/ (job = "disconnect" /\ job' = "none")
  PROVE  Astray(s, e)'
<1>1. (DmaOfTransfer /\ NoStall)'
  BY DEF Astray, DmaOfTransfer, NoStall
<1>2. Configured(e) => Configured(e)'
  BY DEF Configured, Configures
<1>3. CASE Enumerating(s, e)
  BY <1>1, <1>2, <1>3 DEF Astray, Enumerating, NoPacket
<1>4. CASE Unheard(s, e)
  BY <1>1, <1>2, <1>4 DEF Astray, Unheard
<1>5. CASE Ignored(s, e)
  BY <1>1, <1>5 DEF Astray, Ignored
<1> QED
  BY <1>3, <1>4, <1>5 DEF Astray

\* The daemon stays out of step when it takes an event of the host's,
LEMMA TakesAstray ==
  ASSUME DeviceInv, NEW s \in HostStates \ {"off"}, NEW e \in LongQueues, Queued(s, e),
         Astray(s, e),
         \/ SendNext \/ SendLast \/ StatusPhase \/ StatusGone \/ ReceiveBlock \/ Ignore
         \/ ConfigChange \/ Request
  PROVE  OutOfStep'
<1>1. e \in Seq(Mails) /\ <<>> \in LongQueues
  BY LongTypes DEF LongQueues, Queues
<1>2. CASE SendNext \/ SendLast \/ StatusPhase \/ StatusGone
  <2>1. Take("in") /\ host' = host
    BY <1>2 DEF SendNext, SendLast, StatusPhase, StatusGone
  <2>2. /\ e # <<>> /\ Head(e) = "in"
        /\ \/ host.st = s /\ mbox' = Tail(e)
           \/ host.st = "off" /\ moves' > 0 /\ mbox' = Append(Tail(e), "disconnect")
    BY <1>1, <2>1, TakesMail
  <2>3. e = <<"in">> /\ Ignored(s, <<"in">>) /\ Tail(e) = <<>>
    BY <2>2, AstrayStarts, QueueRests
  <2>4. Astray(s, <<>>)'
    BY <1>2, <2>3, InAstray
  <2> QED
    BY <1>1, <2>1, <2>2, <2>3, <2>4, FoundAstray
<1>3. CASE ReceiveBlock
  <2>1. Take("out") /\ host' = host /\ psInst.scsi = "RECEIVE_BLOCKS"
    BY <1>3 DEF ReceiveBlock
  <2>2. /\ e # <<>> /\ Head(e) = "out"
        /\ \/ host.st = s /\ mbox' = Tail(e)
           \/ host.st = "off" /\ moves' > 0 /\ mbox' = Append(Tail(e), "disconnect")
    BY <1>1, <2>1, TakesMail
  <2>3. e = <<"out">> /\ Unheard(s, <<"out">>) /\ pipe.in = None /\ Tail(e) = <<>>
    BY <2>1, <2>2, AstrayStarts, QueueRests
  <2>4. Astray(s, <<>>)'
    BY <1>3, <2>3, ReceiveAstray
  <2> QED
    BY <1>1, <2>1, <2>2, <2>3, <2>4, FoundAstray
<1>4. CASE Ignore
  <2>1. PICK m \in {"in", "out"} :
          Take(m) /\ (m = "out" => psInst.scsi # "RECEIVE_BLOCKS")
    BY <1>4 DEF Ignore
  <2>2. /\ e # <<>> /\ Head(e) = m
        /\ \/ host.st = s /\ mbox' = Tail(e)
           \/ host.st = "off" /\ moves' > 0 /\ mbox' = Append(Tail(e), "disconnect")
    BY <1>1, <2>1, TakesMail
  <2>3. Astray(s, Tail(e))' /\ Tail(e) \in LongQueues
    BY <1>4, <2>1, <2>2, IgnoreAstray
  <2>4. host' = host
    BY <1>4 DEF Ignore
  <2> QED
    BY <2>2, <2>3, <2>4, FoundAstray
<1>5. CASE ConfigChange
  <2>1. Take("config") /\ host' = host
    BY <1>5 DEF ConfigChange
  <2>2. /\ e # <<>> /\ Head(e) = "config"
        /\ \/ host.st = s /\ mbox' = Tail(e)
           \/ host.st = "off" /\ moves' > 0 /\ mbox' = Append(Tail(e), "disconnect")
    BY <1>1, <2>1, TakesMail
  <2>3. Astray(s, Tail(e))' /\ Tail(e) \in LongQueues
    BY <1>5, <2>2, ConfigAstray
  <2> QED
    BY <2>1, <2>2, <2>3, FoundAstray
<1>6. CASE Request
  <2>1. PICK m \in {"getMaxLun", "reset"} : Take(m)
    BY <1>6 DEF Request
  <2>2. /\ e # <<>> /\ Head(e) = m
        /\ \/ host.st = s /\ mbox' = Tail(e)
           \/ host.st = "off" /\ moves' > 0 /\ mbox' = Append(Tail(e), "disconnect")
    BY <1>1, <2>1, TakesMail
  <2>3. PICK t \in HostStates \ {"off"} :
          /\ host'.st = t \/ (host.st = "off" /\ host' = host)
          /\ Astray(t, Tail(e))' /\ Tail(e) \in LongQueues
    BY <1>6, <2>2, RequestAstray
  <2>4. \/ host'.st = t /\ mbox' = Tail(e)
        \/ host'.st = "off" /\ moves' > 0 /\ mbox' = Append(Tail(e), "disconnect")
    <3>1. CASE host.st = s /\ mbox' = Tail(e)
      BY <2>3, <3>1
    <3>2. CASE host.st = "off" /\ moves' > 0 /\ mbox' = Append(Tail(e), "disconnect")
      <4>1. host' = host
        BY <1>6, <3>2 DEF Request
      <4> QED
        BY <3>2, <4>1
    <3> QED
      BY <2>2, <3>1, <3>2
  <2> QED
    BY <2>3, <2>4, FoundAstray
<1> QED
  BY <1>2, <1>3, <1>4, <1>5, <1>6

\* when it goes on with the lost command or with the end of a connection,
LEMMA ResumesAstray ==
  ASSUME DeviceInv, NEW s \in HostStates \ {"off"}, NEW e \in LongQueues, Queued(s, e),
         Astray(s, e), SendNextRead \/ BlockWritten \/ Disconnected \/ Flushed \/ PythonStep
  PROVE  OutOfStep'
<1>1. UNCHANGED <<mbox, host, moves>>
  BY DEF SendNextRead, BlockRead, BlockWritten, Disconnected, Flushed, PythonStep, Resume
<1>2. Astray(s, e)'
  <2>1. CASE SendNextRead \/ BlockWritten
    BY <2>1, GoesOnAstray
  <2>2. CASE Disconnected \/ Flushed \/ PythonStep
    <3>1. /\ UNCHANGED <<psInst, pipe>>
          /\ job' = job \/ (job = "disconnect" /\ job' = "none")
      BY <2>2 DEF Disconnected, Flushed, PythonStep, Resume, mscVars
    <3> QED
      BY <1>1, <3>1, AstrayKept
  <2> QED
    BY <2>1, <2>2
<1>3. Queued(s, e)'
  BY <1>1 DEF Queued
<1> QED
  BY <1>2, <1>3 DEF OutOfStep

\* and when the host has left, unless the lost command is over.
LEMMA DisconnectAstray ==
  ASSUME NEW s, NEW e, Astray(s, e), Disconnect, host.st = "off", mbox' = <<>>
  PROVE  OutOfStep' \/ Together'
<1>1. /\ job' \in {"none", "disconnect"} /\ UNCHANGED <<psInst, pipe, host>>
  BY DEF Disconnect, NoStorage, mscVars, Take
<1>2. DmaOfTransfer
  BY DEF Astray
<1>3. CASE psInst.scsi = "IDLE"
  BY <1>1, <1>2, <1>3 DEF Together, Unplugged, NoDma, DmaOfTransfer
<1>4. CASE psInst.scsi # "IDLE"
  BY <1>1, <1>2, <1>4 DEF OutOfStep, Away, DmaOfTransfer
<1> QED
  BY <1>3, <1>4

\* It obeys no command meanwhile.
LEMMA DaemonAstray ==
  ASSUME DeviceInv, NEW s \in HostStates \ {"off"}, NEW e \in LongQueues, Queued(s, e),
         Astray(s, e), DaemonStep \/ PythonStep
  PROVE  OutOfStep' \/ Together'
<1>1. e \in Seq(Mails)
  BY LongTypes
<1>2. \A op : ~Obey(op)
  <2>1. SUFFICES ASSUME NEW op, Obey(op)
                 PROVE  FALSE
    OBVIOUS
  <2>2. Take("out") /\ psInst.scsi = "IDLE"
    BY <2>1 DEF Obey
  <2>3. e # <<>> /\ Head(e) = "out"
    BY <1>1, <2>2, TakesMail
  <2>4. Unheard(s, e)
    BY <2>3, AstrayStarts
  <2> QED
    BY <2>2, <2>4 DEF Unheard
<1>3. job \notin {"read", "test", "load", "eject"}
  BY DEF Astray, Enumerating, Unheard, Ignored
<1>4. CASE Disconnect
  <2>1. Take("disconnect")
    BY <1>4 DEF Disconnect
  <2>2. e = <<>> /\ host.st = "off" /\ mbox' = <<>>
    BY <1>1, <2>1, TakesMail, AstrayStarts
  <2> QED
    BY <1>4, <2>2, DisconnectAstray
<1>5. CASE \/ Respond \/ RefuseData \/ Read10 \/ Write10 \/ TestUnitReady \/ Open \/ Removal
           \/ Fail \/ Eject \/ RefuseNoData \/ Unknown
  BY <1>2, <1>5
  DEF Respond, RefuseData, Read10, Write10, TestUnitReady, Open, Removal, Fail, Eject,
      RefuseNoData, Unknown
<1>6. CASE Read10Read \/ Opened \/ Ejected \/ Hangs
  BY <1>3, <1>6 DEF Read10Read, Opened, Ejected, Hangs, Resume, OpenHangs, DeviceInv, JobInv
<1> QED
  BY <1>4, <1>5, <1>6, TakesAstray, ResumesAstray DEF DaemonStep

-----------------------------------------------------------------------------
(* The next host *)

\* The last packet of a block of the lost command reaches the endpoint.
LEMMA DmaAstray ==
  ASSUME DeviceInv, ~aborted', NEW s \in HostStates \ {"off"}, NEW e \in LongQueues,
         host.st = s, mbox = e, Astray(s, e), DmaIn
  PROVE  OutOfStep'
<1>1. /\ pipe \in Pipes /\ pipe.dmaIn # None /\ pipe.in = None /\ pipe.dmaIn \in Blocks
      /\ pipe' = [pipe EXCEPT !.in = pipe.dmaIn, !.dmaIn = None]
      /\ UNCHANGED <<psInst, host, job, moves>>
      /\ s \in {"in", "status"} /\ Settled /\ mbox' = Append(e, "in")
  BY Starts, Posted DEF DmaIn, Outside
<1>2. /\ pipe'.out = pipe.out /\ pipe'.dmaIn = None /\ pipe'.dmaOut = pipe.dmaOut
      /\ pipe'.inStall = pipe.inStall /\ pipe'.outStall = pipe.outStall
  BY <1>1 DEF Pipes
<1>3. psInst.scsi = "SEND_BLOCKS" /\ (DmaOfTransfer /\ NoStall)'
  BY <1>1, <1>2 DEF Astray, DmaOfTransfer, NoStall
<1>4. Configured(e) => \A f : Configured(f)' \/ Configures(e) \/ Configures(f)
  BY <1>2 DEF Configured, Configures
<1>5. Configured(e) => \A f : Configured(f)' \/ ~Configures(e) \/ ~Configures(f)
  BY <1>1 DEF Configured, Configures
<1>6. CASE Unheard(s, e)
  <2>1. /\ psInst.scsi # "IDLE" /\ job \in {"none", "disconnect"}
        /\ s # "configured" /\ pipe.out # None /\ Configured(e)
    BY <1>6 DEF Unheard
  <2>2. \/ e = <<"out">> \/ e = <<"getMaxLun", "out">> \/ e = <<"config", "getMaxLun", "out">>
    BY <1>1, <1>6 DEF Unheard
  <2>3. CASE e = <<"out">>
    <3>1. mbox' = <<"out", "in">> /\ <<"out", "in">> \in LongQueues
      BY <1>1, <2>3, QueueGrows DEF Mails, LongQueues
    <3>2. Unheard(s, <<"out", "in">>)'
      BY <1>1, <1>2, <1>3, <1>4, <2>1, <2>3, ConfigIs DEF Unheard
    <3> QED
      BY <1>1, <1>3, <3>1, <3>2, FoundAstray DEF Astray
  <2>4. CASE e = <<"getMaxLun", "out">>
    <3>1. mbox' = <<"getMaxLun", "out", "in">> /\ <<"getMaxLun", "out", "in">> \in LongQueues
      BY <1>1, <2>4, QueueGrows DEF Mails, LongQueues
    <3>2. Unheard(s, <<"getMaxLun", "out", "in">>)'
      BY <1>1, <1>2, <1>3, <1>4, <2>1, <2>4, ConfigIs DEF Unheard
    <3> QED
      BY <1>1, <1>3, <3>1, <3>2, FoundAstray DEF Astray
  <2>5. CASE e = <<"config", "getMaxLun", "out">>
    <3>1. /\ mbox' = <<"config", "getMaxLun", "out", "in">>
          /\ <<"config", "getMaxLun", "out", "in">> \in LongQueues
      BY <1>1, <2>5, LongGrows DEF Mails, LongQueues
    <3>2. Unheard(s, <<"config", "getMaxLun", "out", "in">>)'
      BY <1>1, <1>2, <1>3, <1>5, <2>1, <2>5, ConfigIs DEF Unheard
    <3> QED
      BY <1>1, <1>3, <3>1, <3>2, FoundAstray DEF Astray
  <2> QED
    BY <2>2, <2>3, <2>4, <2>5
<1>7. CASE Ignored(s, e)
  <2>1. job = "none"
    BY <1>1, <1>3, <1>7 DEF Ignored, DeviceInv, JobInv
  <2>2. e = <<>>
    BY <1>1, <2>1 DEF Settled, DaemonIdle, DeviceInv, JobInv
  <2>3. mbox' = <<"in">> /\ <<"in">> \in LongQueues
    BY <1>1, <2>2, QueueGrows DEF Mails, LongQueues, Queues
  <2>4. Ignored(s, <<"in">>)'
    BY <1>1, <1>2, <1>3, <1>7, <2>1 DEF Ignored
  <2> QED
    BY <1>1, <1>3, <2>3, <2>4, FoundAstray DEF Astray
<1> QED
  BY <1>1, <1>6, <1>7 DEF Astray, Enumerating

\* It asks for the logical units, or does not wait for the answer,
LEMMA AskAstray ==
  ASSUME DeviceInv, ~aborted', NEW s \in HostStates \ {"off"}, NEW e \in LongQueues,
         host.st = s, mbox = e, Astray(s, e), Ask \/ DoNotWait
  PROVE  OutOfStep'
<1>1. host \in Hosts /\ UNCHANGED <<psInst, pipe, job, moves>>
  BY Starts DEF Ask, DoNotWait, Outside
<1>2. (DmaOfTransfer /\ NoStall)'
  BY <1>1 DEF Astray, DmaOfTransfer, NoStall
<1>3. \A f : Configured(f) => Configured(f)'
  BY <1>1 DEF Configured, Configures
<1>4. CASE Ask
  <2>1. s = "configured" /\ host' = [host EXCEPT !.st = "wait"] /\ mbox' = Append(e, "getMaxLun")
    BY <1>4, Posted DEF Ask
  <2>2. host'.st = "wait" /\ "wait" \in HostStates \ {"off"}
    BY <1>1, <2>1 DEF Hosts, HostStates
  <2>3. Enumerating(s, e) /\ Configured(e) /\ e \in {<<>>, <<"config">>}
    BY <2>1 DEF Astray, Enumerating, Unheard, Ignored
  <2>4. (NoPacket /\ psInst.scsi # "IDLE" /\ job \in {"none", "disconnect"})'
    BY <1>1, <2>3 DEF Enumerating, NoPacket
  <2>5. CASE e = <<>>
    <3>1. mbox' = <<"getMaxLun">> /\ <<"getMaxLun">> \in LongQueues
      BY <2>1, <2>5, QueueGrows DEF Mails, LongQueues, Queues
    <3>2. Configured(<<"getMaxLun">>)
      BY <2>3, <2>5, ConfigIs DEF Configured
    <3>3. Enumerating("wait", <<"getMaxLun">>)'
      BY <1>3, <2>4, <3>2 DEF Enumerating
    <3> QED
      BY <1>2, <2>2, <3>1, <3>3, FoundAstray DEF Astray
  <2>6. CASE e = <<"config">>
    <3>1. mbox' = <<"config", "getMaxLun">> /\ <<"config", "getMaxLun">> \in LongQueues
      BY <2>1, <2>6, QueueGrows DEF Mails, LongQueues, Queues
    <3>2. Configured(<<"config", "getMaxLun">>)
      BY <2>3, <2>6, ConfigIs DEF Configured
    <3>3. Enumerating("wait", <<"config", "getMaxLun">>)'
      BY <1>3, <2>4, <3>2 DEF Enumerating
    <3> QED
      BY <1>2, <2>2, <3>1, <3>3, FoundAstray DEF Astray
  <2> QED
    BY <2>3, <2>5, <2>6
<1>5. CASE DoNotWait
  <2>1. s = "wait" /\ host' = [host EXCEPT !.st = "idle"] /\ mbox' = mbox
    BY <1>5 DEF DoNotWait
  <2>2. host'.st = "idle" /\ "idle" \in HostStates \ {"off"}
    BY <1>1, <2>1 DEF Hosts, HostStates
  <2>3. Astray("idle", e)
    BY <2>1 DEF Astray, Enumerating, Unheard, Ignored
  <2>4. Astray("idle", e)'
    BY <1>1, <2>3, AstrayKept
  <2> QED
    BY <2>1, <2>2, <2>4, FoundAstray
<1> QED
  BY <1>4, <1>5

\* is unplugged in its turn,
LEMMA UnplugAstray ==
  ASSUME DeviceInv, ~aborted', NEW s \in HostStates \ {"off"}, NEW e \in LongQueues,
         host.st = s, mbox = e, Astray(s, e), Unplug
  PROVE  OutOfStep'
<1>1. /\ host \in Hosts /\ host' = [host EXCEPT !.st = "off"]
      /\ moves \in Nat /\ moves' = moves + 1
      /\ UNCHANGED <<psInst, pipe, job>> /\ mbox' = Append(e, "disconnect")
  BY Starts, Posted, MscAssumption
  DEF Unplug, Outside, DeviceInv, MscTypeOK, MscAssumption
<1>2. host'.st = "off" /\ moves' > 0
  BY <1>1 DEF Hosts
<1>3. Astray(s, e)'
  BY <1>1, <1>2, AstrayKept
<1> QED
  BY <1>1, <1>2, <1>3, FoundAstray

\* sends a command,
LEMMA SendCommandAstray ==
  ASSUME DeviceInv, ~aborted', NEW s \in HostStates \ {"off"}, NEW e \in LongQueues,
         host.st = s, mbox = e, Astray(s, e), NEW c \in Commands, Legal(c), SendCommand(c)
  PROVE  OutOfStep'
<1>1. /\ s = "idle" /\ pipe \in Pipes /\ pipe' = [pipe EXCEPT !.out = c] /\ pipe.out = None
      /\ host' = [st |-> FirstPhase(c.op), cmd |-> c, done |-> 0, tag |-> ~host.tag]
      /\ mbox' = Append(e, "out")
      /\ UNCHANGED <<psInst, job, moves>>
  BY Starts, Posted DEF SendCommand, Outside
<1>2. c \in LegalCommands
  BY DEF LegalCommands
<1>3. c # None /\ c.op \in AllOps
  BY <1>2, CommandIs
<1>4. FirstPhase(c.op) \in {"in", "out", "status"}
  BY <1>3, FirstPhaseIs DEF AllOps
<1>5. PICK t \in {"in", "out", "status"} : t = FirstPhase(c.op)
  BY <1>4
<1>6. host'.st = t /\ t \in HostStates \ {"off"} /\ t # "configured"
  BY <1>1, <1>5 DEF HostStates
<1>7. /\ pipe'.in = pipe.in /\ pipe'.out = c /\ pipe'.dmaIn = pipe.dmaIn
      /\ pipe'.dmaOut = pipe.dmaOut
      /\ pipe'.inStall = pipe.inStall /\ pipe'.outStall = pipe.outStall
  BY <1>1, <1>2 DEF Pipes
<1>8. (DmaOfTransfer /\ NoStall)'
  BY <1>1, <1>7 DEF Astray, DmaOfTransfer, NoStall
<1>9. Enumerating(s, e)
  BY <1>1 DEF Astray, Unheard, Ignored
<1>10. /\ psInst'.scsi # "IDLE" /\ job' \in {"none", "disconnect"}
       /\ pipe'.in = None /\ pipe'.out # None /\ Configured(e)
  BY <1>1, <1>3, <1>7, <1>9 DEF Enumerating, NoPacket
<1>11. CASE e = <<>>
  <2>1. mbox' = <<"out">> /\ <<"out">> \in LongQueues
    BY <1>1, <1>11, QueueGrows DEF Mails, LongQueues, Queues
  <2>2. Configured(<<"out">>)'
    BY <1>7, <1>10, <1>11, ConfigIs DEF Configured, Configures
  <2>3. Unheard(t, <<"out">>)'
    BY <1>6, <1>10, <2>2 DEF Unheard
  <2> QED
    BY <1>6, <1>8, <2>1, <2>3, FoundAstray DEF Astray
<1>12. CASE e = <<"getMaxLun">>
  <2>1. mbox' = <<"getMaxLun", "out">> /\ <<"getMaxLun", "out">> \in LongQueues
    BY <1>1, <1>12, QueueGrows DEF Mails, LongQueues, Queues
  <2>2. Configured(<<"getMaxLun", "out">>)'
    BY <1>7, <1>10, <1>12, ConfigIs DEF Configured, Configures
  <2>3. Unheard(t, <<"getMaxLun", "out">>)'
    BY <1>6, <1>10, <2>2 DEF Unheard
  <2> QED
    BY <1>6, <1>8, <2>1, <2>3, FoundAstray DEF Astray
<1>13. CASE e = <<"config", "getMaxLun">>
  <2>1. /\ mbox' = <<"config", "getMaxLun", "out">>
        /\ <<"config", "getMaxLun", "out">> \in LongQueues
    BY <1>1, <1>13, QueueGrows DEF Mails, LongQueues, Queues
  <2>2. Configured(<<"config", "getMaxLun", "out">>)'
    BY <1>1, <1>10, <1>13, ConfigIs DEF Configured, Configures
  <2>3. Unheard(t, <<"config", "getMaxLun", "out">>)'
    BY <1>6, <1>10, <2>2 DEF Unheard
  <2> QED
    BY <1>6, <1>8, <2>1, <2>3, FoundAstray DEF Astray
<1> QED
  BY <1>1, <1>9, <1>11, <1>12, <1>13 DEF Enumerating

\* fetches what it takes for its own,
LEMMA FetchAstray ==
  ASSUME DeviceInv, ~aborted', NEW s \in HostStates \ {"off"}, NEW e \in LongQueues,
         host.st = s, mbox = e, Astray(s, e), Fetch
  PROVE  OutOfStep'
<1>1. /\ s \in {"in", "status"} /\ pipe.in # None /\ ~pipe.inStall
      /\ host \in Hosts /\ pipe \in Pipes /\ pipe' = [pipe EXCEPT !.in = None]
      /\ IF psInst.dmaIn THEN UNCHANGED mbox ELSE mbox' = Append(e, "in")
      /\ UNCHANGED <<psInst, job, moves>>
      /\ host' \in {host, Advance, [host EXCEPT !.st = "idle"]}
  BY Starts, Posted DEF Fetch, Outside
<1>2. /\ pipe'.in = None /\ pipe'.out = pipe.out /\ pipe'.dmaIn = pipe.dmaIn
      /\ pipe'.dmaOut = pipe.dmaOut
      /\ pipe'.inStall = pipe.inStall /\ pipe'.outStall = pipe.outStall
  BY <1>1 DEF Pipes
<1>3. (DmaOfTransfer /\ NoStall)'
  BY <1>1, <1>2 DEF Astray, DmaOfTransfer, NoStall
<1>4. host'.st \in {"in", "status", "idle"}
  BY <1>1 DEF Advance, Hosts
<1>5. PICK t \in HostStates \ {"off"} : t = host'.st /\ t # "configured"
  BY <1>4 DEF HostStates
<1>6. Configured(e) => Configured(e)'
  BY <1>1, <1>2 DEF Configured, Configures
<1>7. CASE Unheard(s, e)
  <2>1. psInst.scsi = "SEND_BLOCKS" /\ psInst.dmaIn
    BY <1>1, <1>7 DEF Unheard, Astray, DmaOfTransfer
  <2>2. Unheard(t, e)'
    BY <1>1, <1>2, <1>5, <1>6, <1>7 DEF Unheard
  <2> QED
    BY <1>1, <1>3, <1>5, <2>1, <2>2, FoundAstray DEF Astray
<1>8. CASE Ignored(s, e) /\ psInst.scsi = "SEND_BLOCKS"
  <2>1. psInst.dmaIn
    BY <1>8 DEF Astray, DmaOfTransfer
  <2>2. e # <<"reset">>
    BY <1>1, <1>8, QueueDistinct DEF Ignored
  <2>3. Ignored(t, e)'
    BY <1>1, <1>2, <1>5, <1>8, <2>2 DEF Ignored
  <2> QED
    BY <1>1, <1>3, <1>5, <2>1, <2>3, FoundAstray DEF Astray
<1>9. CASE Ignored(s, e) /\ psInst.scsi # "SEND_BLOCKS"
  <2>1. ~psInst.dmaIn /\ pipe.dmaIn = None /\ psInst.scsi # "RECEIVE_BLOCKS"
    BY <1>1, <1>9 DEF Astray, DmaOfTransfer, Ignored
  <2>2. e = <<>>
    BY <1>1, <1>9 DEF Ignored
  <2>3. job = "none"
    BY <1>9, <2>1 DEF Ignored, DeviceInv, JobInv
  <2>4. mbox' = <<"in">> /\ <<"in">> \in LongQueues
    BY <1>1, <2>1, <2>2, QueueGrows DEF Mails, LongQueues, Queues
  <2>5. Ignored(t, <<"in">>)'
    BY <1>1, <1>2, <1>5, <1>9, <2>1, <2>3 DEF Ignored
  <2> QED
    BY <1>3, <1>5, <2>4, <2>5, FoundAstray DEF Astray
<1> QED
  BY <1>1, <1>7, <1>8, <1>9 DEF Astray, Enumerating

\* and gives up.
LEMMA GiveUpAstray ==
  ASSUME DeviceInv, ~aborted', NEW s \in HostStates \ {"off"}, NEW e \in LongQueues,
         host.st = s, mbox = e, Astray(s, e), GiveUp
  PROVE  OutOfStep'
<1>1. /\ host \in Hosts /\ host' = [host EXCEPT !.st = "wait"] /\ pipe \in Pipes
      /\ pipe' = [pipe EXCEPT !.inStall = FALSE, !.outStall = FALSE]
      /\ UNCHANGED <<psInst, job>> /\ Stuck /\ mbox' = Append(e, "reset")
  BY Starts, Posted DEF GiveUp, Outside
<1>2. host'.st = "wait" /\ "wait" \in HostStates \ {"off"}
  BY <1>1 DEF Hosts, HostStates
<1>3. /\ pipe'.in = pipe.in /\ pipe'.out = pipe.out /\ pipe'.dmaIn = pipe.dmaIn
      /\ pipe'.dmaOut = pipe.dmaOut /\ ~pipe'.inStall /\ ~pipe'.outStall
  BY <1>1 DEF Pipes
<1>4. (DmaOfTransfer /\ NoStall)'
  BY <1>1, <1>3 DEF Astray, DmaOfTransfer, NoStall
<1>5. e = <<>> /\ s \in {"in", "out", "status", "idle"} /\ (s = "idle" => pipe.out # None)
  BY <1>1 DEF Stuck, DaemonIdle
<1>6. ~Enumerating(s, e)
  BY <1>5 DEF Enumerating, NoPacket
<1>7. ~Unheard(s, e)
  BY <1>5, QueueDistinct, LongDistinct DEF Unheard
<1>8. Ignored(s, e)
  BY <1>6, <1>7 DEF Astray
<1>9. mbox' = <<"reset">> /\ <<"reset">> \in LongQueues
  BY <1>1, <1>5, QueueGrows DEF Mails, LongQueues, Queues
<1>10. <<"reset">> # <<"in">>
  BY QueueDistinct
<1>11. Ignored("wait", <<"reset">>)'
  BY <1>1, <1>3, <1>8, <1>10 DEF Ignored
<1> QED
  BY <1>2, <1>4, <1>9, <1>11, FoundAstray DEF Astray

\* Every step of the next host leaves the device out of step.
LEMMA HostAstray ==
  ASSUME DeviceInv, MaxMoves <= 1, ~aborted', NEW s \in HostStates \ {"off"},
         NEW e \in LongQueues, Queued(s, e), Astray(s, e), HostStep
  PROVE  OutOfStep'
<1>1. CASE host.st = s /\ mbox = e
  <2>1. ~Plug /\ ~SeeInStall /\ ~SeeOutStall
    BY <1>1 DEF Plug, SeeInStall, SeeOutStall, Astray, NoStall
  <2>2. ~SendBlock
    <3>1. SUFFICES ASSUME SendBlock
                   PROVE  FALSE
      OBVIOUS
    <3>2. s = "out" /\ pipe.out = None
      BY <1>1, <3>1 DEF SendBlock
    <3> QED
      BY <3>2 DEF Astray, Enumerating, Unheard, Ignored
  <2> QED
    BY <1>1, <2>1, <2>2, DmaAstray, AskAstray, UnplugAstray, GiveUpAstray, SendCommandAstray,
       FetchAstray
    DEF HostStep, HostProgress
<1>2. CASE host.st = "off" /\ moves > 0
  <2>1. Plug /\ moves < MaxMoves
    BY <1>2
    DEF HostStep, HostProgress, DmaIn, Ask, DoNotWait, Unplug, GiveUp, Stuck, SendCommand, Fetch,
        SeeInStall, SeeOutStall, SendBlock, Plug
  <2>2. moves \in Nat /\ MaxMoves \in Nat
    BY MscAssumption DEF MscAssumption, DeviceInv, MscTypeOK
  <2> QED
    BY <1>2, <2>1, <2>2
<1> QED
  BY <1>1, <1>2 DEF Queued

-----------------------------------------------------------------------------
(* The loss *)

\* A host that leaves in a command leaves the machine in it,
LEMMA DisconnectLoses ==
  ASSUME NEW s, NEW e, Phase(s, e), Disconnect, psInst.scsi # "IDLE",
         host.st = "off", mbox' = <<>>
  PROVE  lost' /\ OutOfStep'
<1>1. /\ job = "none" /\ job' \in {"none", "disconnect"} /\ lost'
      /\ UNCHANGED <<psInst, pipe, host>>
  BY DEF Disconnect, NoStorage, mscVars, Take
<1>2. DmaOfTransfer
  BY <1>1
  DEF Phase, Quiet, Sent, Obeyed, Sending, Receiving, Ending, Reporting, Stalled, NoDma,
      DmaOfTransfer
<1> QED
  BY <1>1, <1>2 DEF OutOfStep, Away, DmaOfTransfer

\* and so does one that gives up.
LEMMA ResetLoses ==
  ASSUME DeviceInv, NEW s \in HostStates \ {"off"}, NEW e \in Queues, Queued(s, e),
         Phase(s, e), Request, Take("reset"), psInst.scsi # "IDLE"
  PROVE  lost' /\ OutOfStep'
<1> PICK t : t = IF host.st = "wait" THEN "idle" ELSE s
  OBVIOUS
<1>1. /\ host \in Hosts /\ job = "none" /\ psInst.scsi \in ScsiStates
      /\ host' = IF host.st = "wait" THEN [host EXCEPT !.st = "idle"] ELSE host
      /\ UNCHANGED <<psInst, pipe, job>>
  BY Starts DEF Request, NoStorage, mscVars, Take
<1>2. ~Take("getMaxLun")
  BY DEF Take
<1>3. lost'
  BY <1>2 DEF Request
<1>4. /\ e # <<>> /\ Head(e) = "reset"
      /\ \/ host.st = s /\ mbox' = Tail(e)
         \/ host.st = "off" /\ moves' > 0 /\ mbox' = Append(Tail(e), "disconnect")
  BY TakesQueued
<1>5. e = <<"reset">> /\ Tail(e) = <<>>
  BY <1>4, QueueStarts, QueueRests
<1>6. Ending(s, e)
  <2>1. ~Sending(s, e) /\ ~Receiving(s, e)
    BY <1>5, QueueDistinct DEF Sending, Receiving
  <2>2. ~Reporting(s, e)
    BY <1>5, QueueDistinct DEF Reporting
  <2> QED
    BY <1>1, <2>1, <2>2, PhaseIs DEF ScsiStates
<1>7. s \in {"wait", "idle"} /\ pipe.in = None /\ pipe.out = None /\ NoStall /\ NoDma
  BY <1>5, <1>6, QueueDistinct DEF Ending
<1>8. psInst.scsi = "SEND_STATUS"
  BY <1>6 DEF Ending
<1>9. t \in {"wait", "idle"} /\ t \in HostStates \ {"off"} /\ <<>> \in LongQueues
  BY <1>7 DEF HostStates, LongQueues, Queues
<1>10. Astray(t, <<>>)'
  <2>1. (DmaOfTransfer /\ NoStall)'
    BY <1>1, <1>7, <1>8 DEF DmaOfTransfer, NoStall, NoDma
  <2>2. Configured(<<>>)'
    BY <1>1, <1>7, ConfigIs DEF Configured, Configures, NoDma
  <2>3. Enumerating(t, <<>>)'
    BY <1>1, <1>7, <1>8, <1>9, <2>2 DEF Enumerating, NoPacket
  <2> QED
    BY <2>1, <2>3 DEF Astray
<1>11. \/ host'.st = t /\ mbox' = <<>>
       \/ host'.st = "off" /\ moves' > 0 /\ mbox' = Append(<<>>, "disconnect")
  <2>1. host'.st = IF host.st = "wait" THEN "idle" ELSE host.st
    BY <1>1 DEF Hosts
  <2> QED
    BY <1>4, <1>5, <2>1
<1> QED
  BY <1>3, <1>9, <1>10, <1>11, FoundAstray

\* While no host is there the machine stays in its command,
LEMMA AwayStays ==
  ASSUME DeviceInv, Away, DaemonStep \/ PythonStep
  PROVE  OutOfStep'
<1>1. \A m : ~Take(m)
  BY DEF Away, Take
<1>2. \/ Opened \/ Hangs \/ Flushed \/ Disconnected \/ Ejected
      \/ SendNextRead \/ Read10Read \/ BlockWritten \/ PythonStep
  BY <1>1
  DEF DaemonStep, SendNext, SendLast, StatusPhase, StatusGone, ReceiveBlock, Ignore, Respond,
      RefuseData, Read10, Write10, TestUnitReady, Open, Removal, Fail, Eject, RefuseNoData,
      Unknown, Disconnect, ConfigChange, Request, Obey
<1>3. Flushed \/ Disconnected \/ PythonStep
  BY <1>2
  DEF Away, Opened, Ejected, SendNextRead, Read10Read, BlockWritten, Resume, Hangs,
      OpenHangs, DeviceInv, JobInv
<1>4. UNCHANGED <<mbox, host, psInst, pipe>> /\ job' \in {"none", "disconnect"}
  BY <1>3 DEF Flushed, Disconnected, PythonStep, Resume, mscVars, Away
<1> QED
  BY <1>4 DEF Away, DmaOfTransfer, OutOfStep

\* and the next one enumerates it there.
LEMMA PlugAstray ==
  ASSUME DeviceInv, ~aborted', Away, Plug
  PROVE  OutOfStep'
<1>1. /\ host \in Hosts /\ host' = [host EXCEPT !.st = "configured"] /\ pipe \in Pipes
      /\ pipe' = [pipe EXCEPT !.in = None, !.out = None, !.inStall = FALSE, !.outStall = FALSE]
      /\ moves \in Nat /\ moves' = moves + 1
      /\ UNCHANGED <<psInst, job>>
  BY Starts, MscAssumption DEF Plug, Outside, DeviceInv, MscTypeOK, MscAssumption
<1>2. host'.st = "configured" /\ "configured" \in HostStates \ {"off"}
  BY <1>1 DEF Hosts, HostStates
<1>3. /\ pipe'.in = None /\ pipe'.out = None /\ pipe'.dmaIn = pipe.dmaIn
      /\ pipe'.dmaOut = pipe.dmaOut /\ pipe'.inStall = FALSE /\ pipe'.outStall = FALSE
  BY <1>1 DEF Pipes
<1>4. mbox' = <<"config">> /\ <<"config">> \in LongQueues
  BY Posted, QueueGrows DEF Plug, Away, Mails, LongQueues, Queues
<1>5. (DmaOfTransfer /\ NoStall)'
  BY <1>1, <1>3 DEF Away, DmaOfTransfer, NoStall
<1>6. moves' > 0
  BY <1>1
<1>7. Configured(<<"config">>)'
  BY <1>6, ConfigIs DEF Configured, Configures
<1>8. Enumerating("configured", <<"config">>)'
  BY <1>1, <1>3, <1>7 DEF Enumerating, Away, NoPacket
<1> QED
  BY <1>2, <1>4, <1>5, <1>8, FoundAstray DEF Astray

-----------------------------------------------------------------------------
(* The invariant *)

\* The steps that find the device and a host together
LEMMA KeepsTogether ==
  ASSUME DeviceInv, MaxMoves <= 1, ~aborted', MscNext, Together
  PROVE  Together' \/ (lost' /\ OutOfStep')
<1>1. CASE Unplugged
  <2>1. DaemonStep \/ PythonStep \/ Plug
    BY <1>1
    DEF Unplugged, MscNext, HostStep, HostProgress, DmaIn, Ask, Fetch, SeeInStall, SeeOutStall,
        SendBlock, DoNotWait, Unplug, GiveUp, Stuck, SendCommand
  <2> QED
    BY <1>1, <2>1, AloneInStep, PlugInStep
<1>2. ASSUME NEW s \in HostStates \ {"off"}, NEW e \in Queues, Queued(s, e), Phase(s, e)
      PROVE  Together' \/ (lost' /\ OutOfStep')
  <2>1. CASE HostStep
    BY <1>2, <2>1, HostInStep
  <2>2. CASE (DaemonStep \/ PythonStep) /\ ~Loses
    BY <1>2, <2>2, DaemonInStep
  <2>3. CASE (DaemonStep \/ PythonStep) /\ Loses
    <3>1. /\ psInst.scsi # "IDLE" /\ mbox # <<>> /\ mbox' = Tail(mbox)
          /\ Head(mbox) \in {"disconnect", "reset"} /\ job = "none" /\ daemon = "ready"
          /\ Take("disconnect") \/ Take("reset")
      BY <2>3 DEF Loses, Take
    <3>2. Disconnect \/ Request
      <4>1. mbox \in Seq(Mails)
        BY DEF DeviceInv, MscTypeOK
      <4>2. mbox' # mbox
        BY <3>1, <4>1
      <4>3. ~PythonStep /\ ~Hangs /\ ~Flushed
        BY <4>2 DEF PythonStep, Hangs, Flushed
      <4>4. ~(Opened \/ Disconnected \/ Ejected \/ SendNextRead \/ Read10Read \/ BlockWritten)
        BY <3>1
        DEF Opened, Disconnected, Ejected, SendNextRead, Read10Read, BlockWritten, Resume
      <4>5. ~(Take("in") \/ Take("out") \/ Take("config"))
        BY <3>1 DEF Take
      <4> QED
        BY <2>3, <4>3, <4>4, <4>5
        DEF DaemonStep, SendNext, SendLast, StatusPhase, StatusGone, ReceiveBlock, Ignore,
            Respond, RefuseData, Read10, Write10, TestUnitReady, Open, Removal, Fail, Eject,
            RefuseNoData, Unknown, ConfigChange, Obey
    <3>3. CASE Take("disconnect")
      <4>1. Disconnect
        BY <3>2, <3>3 DEF Request, Take
      <4>2. e = <<>> /\ host.st = "off" /\ mbox' = <<>>
        BY <1>2, <3>3, TakesQueued, QueueStarts
      <4> QED
        BY <1>2, <3>1, <4>1, <4>2, DisconnectLoses
    <3>4. CASE Take("reset")
      <4>1. Request
        BY <3>2, <3>4 DEF Disconnect, Take
      <4> QED
        BY <1>2, <3>1, <3>4, <4>1, ResetLoses
    <3> QED
      BY <3>1, <3>3, <3>4
  <2> QED
    BY <2>1, <2>2, <2>3 DEF MscNext
<1> QED
  BY <1>1, <1>2 DEF Together

\* The steps that find it out of step
LEMMA KeepsOutOfStep ==
  ASSUME DeviceInv, MaxMoves <= 1, ~aborted', MscNext, OutOfStep
  PROVE  OutOfStep' \/ Together'
<1>1. CASE Away
  <2>1. DaemonStep \/ PythonStep \/ Plug
    BY <1>1
    DEF Away, MscNext, HostStep, HostProgress, DmaIn, Ask, Fetch, SeeInStall, SeeOutStall,
        SendBlock, DoNotWait, Unplug, GiveUp, Stuck, SendCommand
  <2> QED
    BY <1>1, <2>1, AwayStays, PlugAstray
<1>2. ASSUME NEW s \in HostStates \ {"off"}, NEW e \in LongQueues, Queued(s, e), Astray(s, e)
      PROVE  OutOfStep' \/ Together'
  BY <1>2, DaemonAstray, HostAstray DEF MscNext
<1> QED
  BY <1>1, <1>2 DEF OutOfStep

\* Every step keeps in step or finds the loss, as long as the plug moves once
\* at a time.
LEMMA KeepsInStep ==
  ASSUME DeviceInv, MaxMoves <= 1, InStep, MscNext
  PROVE  InStep'
<1>1. ~aborted /\ (lost => lost')
  BY MailKept DEF DeviceInv
<1>2. CASE aborted'
  BY <1>2 DEF InStep
<1>3. CASE ~aborted'
  BY <1>1, <1>3, KeepsTogether, KeepsOutOfStep DEF InStep
<1> QED
  BY <1>2, <1>3

\* The device and a host are in step, or a host was lost in a command and the
\* device does not hear the next one.
THEOREM MscInvariant == MscSpec => []MscInv
<1>1. MscInit => MscInv
  <2>1. SUFFICES ASSUME MscInit
                 PROVE  MscInv
    OBVIOUS
  <2>2. DeviceInv
    BY <2>1, DeviceInit
  <2>3. Unplugged /\ ~aborted
    BY <2>1 DEF MscInit, Unplugged, NoDma
  <2> QED
    BY <2>2, <2>3 DEF MscInv, InStep, Together
<1>2. MscInv /\ [MscNext]_vars => MscInv'
  <2>1. SUFFICES ASSUME MscInv, [MscNext]_vars
                 PROVE  MscInv'
    OBVIOUS
  <2>2. CASE MscNext
    <3>1. DeviceInv'
      BY <2>1, <2>2, DeviceStep DEF MscInv
    <3>2. aborted' => Len(mbox') = NUMMSGS
      BY <2>1, <2>2, MailKept DEF MscInv, DeviceInv
    <3>3. MaxMoves <= 1 => InStep'
      BY <2>1, <2>2, KeepsInStep DEF MscInv
    <3> QED
      BY <3>1, <3>2, <3>3 DEF MscInv
  <2>3. CASE UNCHANGED vars
    <3>1. DeviceInv'
      BY <2>1, <2>3
      DEF MscInv, vars, storageVars, usbVars, pyVars, mscVars, histVars, DeviceInv, MscTypeOK,
          LoanInv, StorageTypeOK, ClearingExcludesOpening, EnabledWhileInUse, JobInv, RangeInv,
          MediaInv, HostInv
    <3>2. /\ UNCHANGED <<psInst, pipe, csw, command, job, badRead, host, mbox, moves>>
          /\ UNCHANGED <<pvMedia, lost, aborted>>
      BY <2>3 DEF vars, storageVars, usbVars, mscVars, histVars
    <3>3. Together => Together'
      <4>1. Unplugged => Unplugged'
        BY <3>2 DEF Unplugged, NoDma
      <4>2. ASSUME NEW s \in HostStates \ {"off"}, NEW e \in Queues, Queued(s, e), Phase(s, e)
            PROVE  (Queued(s, e) /\ Phase(s, e))'
        <5>1. Phase(s, e)'
          BY <2>1, <3>2, <4>2, PhaseKept DEF MscInv
        <5> QED
          BY <3>2, <4>2, <5>1 DEF Queued
      <4> QED
        BY <4>1, <4>2 DEF Together
    <3>4. OutOfStep => OutOfStep'
      <4>1. Away => Away'
        BY <3>2 DEF Away, DmaOfTransfer
      <4>2. ASSUME NEW s \in HostStates \ {"off"}, NEW e \in LongQueues, Queued(s, e),
                   Astray(s, e)
            PROVE  (Queued(s, e) /\ Astray(s, e))'
        BY <3>2, <4>2
        DEF Queued, Astray, DmaOfTransfer, NoStall, Enumerating, Unheard, Ignored, Configured,
            NoPacket
      <4> QED
        BY <4>1, <4>2 DEF OutOfStep
    <3> QED
      BY <2>1, <3>1, <3>2, <3>3, <3>4 DEF MscInv, InStep
  <2> QED
    BY <2>1, <2>2, <2>3
<1> QED
  BY <1>1, <1>2, PTL DEF MscSpec

\* What every step finds
LEMMA FoundInStep ==
  ASSUME MscInv, MaxMoves <= 1, MscNext
  PROVE  ~aborted /\ (Together \/ (lost /\ OutOfStep))
BY MailKept DEF MscInv, DeviceInv, InStep

\* While no host has been lost
LEMMA FoundTogether ==
  ASSUME MscInv, MaxMoves <= 1, MscNext, ~lost
  PROVE  /\ ~aborted
         /\ \/ Unplugged
            \/ \E s \in HostStates \ {"off"}, e \in Queues : Queued(s, e) /\ Phase(s, e)
BY FoundInStep DEF Together

\* What is written to a block is what the command in progress sent for it.
THEOREM WritesAreInPlace ==
  ASSUME MaxMoves <= 1
  PROVE  MscSpec => WritesInPlace
<1>1. ASSUME MscInv, MscNext, job = "receive", ~lost
      PROVE  psInst.buf = OutBlock(psInst.lba, csw.tag)
  <2>1. psInst.scsi = "RECEIVE_BLOCKS"
    BY <1>1 DEF MscInv, DeviceInv, JobInv
  <2>2. PICK s \in HostStates \ {"off"}, e \in Queues : Queued(s, e) /\ Phase(s, e)
    BY <1>1, <2>1, FoundTogether DEF Unplugged
  <2>3. Receiving(s, e)
    BY <2>1, <2>2, PhaseIs
  <2> QED
    BY <1>1, <2>3 DEF Receiving
<1>2. MscInv /\ [MscNext]_vars =>
        [job = "receive" /\ job' = "none" =>
           psInst.buf = OutBlock(psInst.lba, csw.tag) \/ lost]_vars
  BY <1>1
<1> QED
  BY <1>2, MscInvariant, PTL DEF MscSpec, WritesInPlace

\* What a host takes for a block of the disk is that block.
THEOREM ReadsAreInPlace ==
  ASSUME MaxMoves <= 1
  PROVE  MscSpec => ReadsInPlace
<1>1. ASSUME MscInv, MscNext, host.st = "in", host.cmd.op = "READ", host'.done = host.done + 1,
             ~lost
      PROVE  pipe.in = InBlock(host.cmd.lba + host.done) \/ badRead
  <2>1. DeviceInv /\ host \in Hosts /\ host.done \in Nat
    BY <1>1, Starts, Numbers DEF MscInv
  <2>2. \A t : [host EXCEPT !.st = t].done # host.done + 1
    BY <2>1 DEF Hosts
  <2>3. Fetch
    <3>1. ~DaemonStep
      BY <1>1, <2>1, <2>2, DaemonMovesHost
    <3>2. ~PythonStep
      BY <1>1, <2>1 DEF PythonStep
    <3>3. ~(Ask \/ DoNotWait \/ Unplug \/ GiveUp \/ Plug \/ SeeInStall \/ SeeOutStall)
      BY <1>1, <2>2 DEF Ask, DoNotWait, Unplug, GiveUp, Plug, SeeInStall, SeeOutStall
    <3>4. ~DmaIn
      BY <1>1, <2>1 DEF DmaIn
    <3>5. ~SendBlock /\ \A c \in Commands : ~SendCommand(c)
      BY <1>1 DEF SendBlock, SendCommand
    <3> QED
      BY <1>1, <3>1, <3>2, <3>3, <3>4, <3>5 DEF MscNext, HostStep, HostProgress
  <2>4. pipe.in # None
    BY <2>3 DEF Fetch
  <2>5. PICK s \in HostStates \ {"off"}, e \in Queues : Queued(s, e) /\ Phase(s, e)
    BY <1>1, FoundTogether DEF Unplugged
  <2>6. s = "in"
    BY <1>1, <2>5 DEF Queued
  <2>7. Sending(s, e) \/ Ending(s, e)
    BY <2>4, <2>5, <2>6
    DEF Phase, Quiet, Sent, Obeyed, Receiving, Reporting, Stalled, NoPacket
  <2>8. Holds(pipe.in, host.cmd.lba + host.done)
    BY <1>1, <2>4, <2>6, <2>7 DEF Sending, Ending
  <2> QED
    BY <2>8 DEF Holds
<1>2. MscInv /\ [MscNext]_vars =>
        [host.st = "in" /\ host.cmd.op = "READ" /\ host'.done = host.done + 1 =>
           pipe.in = InBlock(host.cmd.lba + host.done) \/ badRead \/ lost]_vars
  BY <1>1
<1> QED
  BY <1>2, MscInvariant, PTL DEF MscSpec, ReadsInPlace

\* The status a host fetches is that of its command, and reports a success only
\* when all the data has passed.
THEOREM StatusesAreTrue ==
  ASSUME MaxMoves <= 1
  PROVE  MscSpec => StatusIsTrue
<1>1. ASSUME MscInv, MscNext, host.st \in {"in", "status"}, pipe.in.kind = "csw", ~lost
      PROVE  /\ pipe.in.tag = host.cmd.tag
             /\ pipe.in.bad \/ host.cmd.op \in NoData \/ host.done = host.cmd.n
  <2>1. PICK s \in HostStates \ {"off"}, e \in Queues : Queued(s, e) /\ Phase(s, e)
    BY <1>1, FoundTogether DEF Unplugged
  <2>2. s \in {"in", "status"}
    BY <1>1, <2>1 DEF Queued
  <2>3. pipe.in # None
    BY <1>1 DEF None
  <2>4. Reporting(s, e)
    BY <1>1, <2>1, <2>2, <2>3
    DEF Phase, Quiet, Sent, Obeyed, Sending, Receiving, Ending, Stalled, NoPacket
  <2>5. PICK bad \in BOOLEAN :
          /\ pipe.in = Csw(host.cmd.tag, bad)
          /\ bad \/ host.cmd.op \in NoData \/ host.done = host.cmd.n
    BY <2>2, <2>4 DEF Reporting
  <2>6. pipe.in.tag = host.cmd.tag /\ pipe.in.bad = bad
    BY <2>5, Kinds
  <2> QED
    BY <2>5, <2>6
<1>2. MscInv /\ [MscNext]_vars =>
        [pipe.in.kind = "csw" /\ pipe'.in = None /\ host.st \in {"in", "status"}
            /\ host'.st = "idle" =>
           \/ lost
           \/ /\ pipe.in.tag = host.cmd.tag
              /\ pipe.in.bad \/ host.cmd.op \in NoData \/ host.done = host.cmd.n]_vars
  BY <1>1
<1> QED
  BY <1>2, MscInvariant, PTL DEF MscSpec, StatusIsTrue

\* A host waits in vain only for the status of commands that never have one.
THEOREM SilenceIsKnown ==
  ASSUME MaxMoves <= 1
  PROVE  MscSpec => []OnlyKnownSilence
<1>1. ASSUME MscInv, Stuck, ~lost
      PROVE  NeverAnswered
  <2>1. mbox = <<>> /\ host.st # "off"
    BY <1>1 DEF Stuck, DaemonIdle
  <2>2. ~aborted
    BY <1>1, <2>1, MscAssumption DEF MscInv, MscAssumption
  <2>3. PICK s \in HostStates \ {"off"}, e \in Queues : Queued(s, e) /\ Phase(s, e)
    BY <1>1, <2>1, <2>2 DEF MscInv, InStep, Together, Unplugged
  <2>4. host.st = s /\ mbox = e
    BY <2>1, <2>3 DEF Queued
  <2>5. \/ host.cmd.op = "WRITE" /\ ~pvMedia
        \/ Stalled(s, e)
    BY <1>1, <2>3, <2>4, SilenceIs DEF MscInv
  <2> QED
    BY <2>5 DEF Stalled, NeverAnswered
<1>2. MscInv => OnlyKnownSilence
  BY <1>1 DEF OnlyKnownSilence
<1> QED
  BY <1>2, MscInvariant, PTL

\* The queues of a device in step are short.
LEMMA QueueLengths ==
  ASSUME NEW e \in Queues
  PROVE  Len(e) <= 3
<1>1. Len(<<>>) <= 3
  OBVIOUS
<1>2. CASE e \in {<<"in">>, <<"out">>, <<"reset">>, <<"config">>, <<"getMaxLun">>}
  <2>1. Len(e) = 1
    BY <1>2, QueueDistinct
  <2> QED
    BY <2>1
<1>3. CASE e \in {<<"in", "in">>, <<"config", "getMaxLun">>, <<"getMaxLun", "out">>}
  <2>1. Len(e) = 2
    BY <1>3, QueueDistinct
  <2> QED
    BY <2>1
<1>4. CASE e = <<"config", "getMaxLun", "out">>
  BY <1>4, QueueDistinct
<1> QED
  BY <1>1, <1>2, <1>3, <1>4 DEF Queues

\* With the longest queue of a device out of step nothing is posted: the plug
\* has made its movement, the endpoints are taken and the lost transfer makes
\* a fetch silent.
LEMMA LongestIsLast ==
  ASSUME DeviceInv, MaxMoves <= 1, NEW s \in HostStates \ {"off"}, NEW e, host.st = s, mbox = e,
         e = <<"config", "getMaxLun", "out", "in">>, Astray(s, e), HostStep
  PROVE  UNCHANGED aborted
<1>1. e # <<>> /\ Head(e) = "config"
  BY LongDistinct
<1>2. /\ Unheard(s, e) /\ psInst.scsi = "SEND_BLOCKS" /\ pipe.dmaIn = None
  <2>1. \/ e \in {<<"config">>, <<"config", "getMaxLun">>, <<"config", "getMaxLun", "out">>}
        \/ Unheard(s, e) /\ psInst.scsi = "SEND_BLOCKS" /\ pipe.dmaIn = None
    BY <1>1, AstrayStarts
  <2> QED
    BY <2>1, QueueDistinct, LongDistinct
<1>3. /\ s # "configured" /\ pipe.out # None /\ moves > 0 /\ psInst.dmaIn
      /\ ~pipe.inStall /\ ~pipe.outStall
  BY <1>1, <1>2 DEF Unheard, Configured, Configures, Astray, DmaOfTransfer, NoStall
<1>4. moves \in Nat /\ MaxMoves \in Nat
  BY MscAssumption DEF MscAssumption, DeviceInv, MscTypeOK
<1>5. ~Unplug /\ ~Plug
  BY <1>3, <1>4 DEF Unplug, Plug
<1>6. ~DmaIn /\ ~Ask /\ ~SeeInStall /\ ~SeeOutStall /\ ~SendBlock
  BY <1>2, <1>3 DEF DmaIn, Ask, SeeInStall, SeeOutStall, SendBlock
<1>7. \A c \in Commands : ~SendCommand(c)
  BY <1>3 DEF SendCommand
<1>8. ~GiveUp
  BY <1>1 DEF GiveUp, Stuck, DaemonIdle
<1>9. Fetch \/ DoNotWait
  BY <1>5, <1>6, <1>7, <1>8 DEF HostStep, HostProgress
<1> QED
  BY <1>3, <1>9 DEF Fetch, DoNotWait

\* A mailbox of four entries does not overflow, before and after a host is lost
\* in a command.
THEOREM MailFits ==
  ASSUME MaxMoves <= 1, NUMMSGS >= 4
  PROVE  MscSpec => []NoOverflow
<1>1. ASSUME MscInv, MscNext
      PROVE  NoOverflow'
  <2>1. SUFFICES ASSUME aborted'
                 PROVE  FALSE
    BY DEF NoOverflow
  <2>2. ~aborted /\ moves \in Nat /\ DeviceInv
    BY <1>1, FoundInStep, MscAssumption DEF MscInv, DeviceInv, MscTypeOK, MscAssumption
  <2>3. HostStep
    BY <1>1, <2>1, <2>2
    DEF MscNext, DaemonStep, PythonStep, SendNext, SendNextRead, SendLast, StatusPhase,
        StatusGone, ReceiveBlock, BlockWritten, Ignore, Respond, RefuseData, Read10, Read10Read,
        Write10, TestUnitReady, Open, Opened, Hangs, Removal, Fail, Eject, Ejected, RefuseNoData,
        Unknown, Disconnect, Disconnected, Flushed, ConfigChange, Request, Obey, Take, Resume
  <2>4. ~(Len(mbox) < NUMMSGS)
    BY <2>1, <2>2, <2>3
    DEF HostStep, HostProgress, DmaIn, Ask, Fetch, SeeInStall, SeeOutStall, SendBlock, Plug,
        DoNotWait, Unplug, GiveUp, SendCommand, Post
  <2>5. host.st = "off" => moves = 0
    <3>1. host.st = "off" => Plug
      BY <2>3
      DEF HostStep, HostProgress, DmaIn, Ask, Fetch, SeeInStall, SeeOutStall, SendBlock, DoNotWait,
          Unplug, GiveUp, Stuck, SendCommand
    <3> QED
      BY <2>2, <3>1, MscAssumption DEF Plug, MscAssumption
  <2>6. Len(mbox) \in Nat
    BY <2>2 DEF DeviceInv, MscTypeOK
  <2>7. ~(Len(mbox) <= 3)
    BY <2>4, <2>6, MscAssumption DEF MscAssumption
  <2>8. mbox # <<>> /\ mbox \notin Queues
    BY <2>7, QueueLengths DEF Queues
  <2>9. ~Together
    BY <2>2, <2>5, <2>8 DEF Together, Unplugged, Queued
  <2>10. PICK s \in HostStates \ {"off"}, e \in LongQueues : Queued(s, e) /\ Astray(s, e)
    BY <1>1, <2>8, <2>9, FoundInStep DEF OutOfStep, Away
  <2>11. host.st = s /\ mbox = e
    BY <2>2, <2>5, <2>10 DEF Queued
  <2>12. e # <<"out", "in">> /\ e # <<"getMaxLun", "out", "in">>
    <3>1. Len(<<"out", "in">>) <= 3 /\ Len(<<"getMaxLun", "out", "in">>) <= 3
      BY QueueDistinct
    <3> QED
      BY <2>7, <2>11, <3>1
  <2>13. e = <<"config", "getMaxLun", "out", "in">>
    BY <2>8, <2>11, <2>12 DEF LongQueues
  <2> QED
    BY <2>1, <2>2, <2>3, <2>10, <2>11, <2>13, LongestIsLast
<1>2. MscInit => NoOverflow
  BY DEF MscInit, NoOverflow
<1>3. MscInv /\ NoOverflow /\ [MscNext]_vars => NoOverflow'
  BY <1>1 DEF NoOverflow, vars
<1> QED
  BY <1>2, <1>3, MscInvariant, PTL DEF MscSpec

\* No command is obeyed twice but one that stalls the OUT endpoint, before and
\* after a host is lost in a command.
THEOREM ObeyedOnce ==
  ASSUME MaxMoves <= 1
  PROVE  MscSpec => NotObeyedTwice
<1>1. ASSUME NEW s \in HostStates \ {"off"}, NEW e \in Seq(Mails), Queued(s, e),
             mbox # <<>>, Head(mbox) = "out"
      PROVE  e # <<>> /\ Head(e) = "out"
  <2>1. CASE mbox = e
    BY <1>1, <2>1
  <2>2. CASE mbox = Append(e, "disconnect") /\ e = <<>>
    <3>1. mbox = <<"disconnect">>
      BY <2>2, QueueGrows DEF Mails
    <3> QED
      BY <1>1, <3>1, QueueDistinct
  <2>3. CASE mbox = Append(e, "disconnect") /\ e # <<>>
    BY <1>1, <2>3, HeadTailAppend DEF Mails
  <2> QED
    BY <1>1, <2>1, <2>2, <2>3 DEF Queued
<1>2. ASSUME MscInv, MscNext, ObeyedAgain
      PROVE  command.op = "SELECT"
  <2>1. /\ job = "none" /\ psInst.scsi = "IDLE" /\ mbox # <<>> /\ Head(mbox) = "out"
        /\ pipe.out = None
    BY <1>2 DEF ObeyedAgain
  <2>2. ~OutOfStep
    <3>1. ASSUME NEW s \in HostStates \ {"off"}, NEW e \in LongQueues, Queued(s, e), Astray(s, e)
          PROVE  FALSE
      <4>1. e # <<>> /\ Head(e) = "out"
        BY <1>1, <2>1, <3>1, LongTypes
      <4>2. Unheard(s, e)
        BY <3>1, <4>1, AstrayStarts
      <4> QED
        BY <2>1, <4>2 DEF Unheard
    <3> QED
      BY <2>1, <3>1 DEF OutOfStep, Away
  <2>3. PICK s \in HostStates \ {"off"}, e \in Queues : Queued(s, e) /\ Phase(s, e)
    BY <1>2, <2>1, <2>2, FoundInStep DEF Together, Unplugged
  <2>4. e = <<"out">>
    <3>1. e # <<>> /\ Head(e) = "out"
      BY <1>1, <2>1, <2>3, QueueTypes
    <3> QED
      BY <3>1, QueueStarts
  <2>5. Stalled(s, e) /\ host.cmd # None
    <3>1. \/ Quiet(s, e)
          \/ host.cmd # None /\ (Sent(s, e) \/ Obeyed(s, e) \/ Reporting(s, e) \/ Stalled(s, e))
      BY <2>1, <2>3, PhaseIs
    <3>2. ~Quiet(s, e) /\ ~Obeyed(s, e) /\ ~Reporting(s, e)
      BY <2>1, <2>4, QueueDistinct DEF Quiet, Obeyed, Reporting
    <3>3. host.cmd # None => ~Sent(s, e)
      BY <2>1 DEF Sent
    <3> QED
      BY <3>1, <3>2, <3>3
  <2> QED
    BY <2>4, <2>5, QueueDistinct DEF Stalled
<1>3. MscInv /\ [MscNext]_vars => [ObeyedAgain => command.op = "SELECT"]_vars
  BY <1>2
<1> QED
  BY <1>3, MscInvariant, PTL DEF MscSpec, NotObeyedTwice
=============================================================================

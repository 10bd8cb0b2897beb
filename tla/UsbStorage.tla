----------------------------- MODULE UsbStorage -----------------------------
(***************************************************************************)
(* Who may use the flash disk: storage.c lends it to the USB host.         *)
(*                                                                         *)
(* Python allows the loan (enable_usb) and takes it back (disable_usb);    *)
(* the mass storage daemon opens and closes the drive for the host         *)
(* (SCMSC_open, SCMSC_close).  Two flags, a mutex and a binary semaphore   *)
(* arbitrate.  SCMSC_open calls storage_init again, which puts a new       *)
(* semaphore and a new mutex in the two handles, and Python does the same  *)
(* when it mounts the disk; objects are therefore numbered here, and the   *)
(* handles `sem' and `mtx' hold the number of the current ones.            *)
(*                                                                         *)
(* The daemon has the highest priority of the system and Python the        *)
(* lowest: the daemon runs without interruption until it blocks, and may   *)
(* start between any two steps of Python.  One action per statement of     *)
(* Python's calls that reads or writes shared state, one action per        *)
(* stretch of the daemon between two places where it can block.            *)
(***************************************************************************)
EXTENDS Integers, FiniteSets

CONSTANT MaxObjects  \* how many semaphores and mutexes the heap has room for

ASSUME MaxObjectsAssumption == MaxObjects \in Nat \ {0}

VARIABLES
  usb_enabled,  \* Python lends the disk
  usb_in_use,   \* the host has it
  sem,          \* semUSBUnmountWait: number of the current semaphore
  mtx,          \* mutexUSBStorageEnable: number of the current mutex
  token,        \* [semaphore -> its count, 0 or 1, as a Boolean]
  held,         \* [mutex -> Python holds it] (the daemon never blocks holding one)
  py,           \* where Python is
  handle,       \* the handle Python has loaded for its next call
  daemon,       \* where the daemon is
  pvMedia,      \* the daemon's pointer to the open drive is not null
  crossed       \* history: Python cleared usb_enabled under a replaced mutex

pyVars == <<py, handle, crossed>>
usbVars == <<usb_enabled, usb_in_use, sem, mtx, token, held>>
storageVars == <<usbVars, pyVars, daemon, pvMedia>>

Objects == 1..MaxObjects

PyPlaces == {"run", "enLock", "enSet", "enUnlock", "diPend", "diLoad",
             "diLock", "diCheck", "diClear", "diUnlock", "mtxCreate", "hung"}

DaemonPlaces == {"ready", "io", "open", "flush", "close", "hung"}

\* After storage_init at the start of mp_main: nothing lent, nothing open.
StorageInit ==
  /\ usb_enabled = FALSE
  /\ usb_in_use = FALSE
  /\ sem = 1
  /\ mtx = 1
  /\ token = [s \in Objects |-> FALSE]
  /\ held = [m \in Objects |-> FALSE]
  /\ py = "run"
  /\ handle = 1
  /\ daemon = "ready"
  /\ pvMedia = FALSE
  /\ crossed = FALSE

-----------------------------------------------------------------------------
(* Python *)

\* The daemon waits: for an event, the flash or a mutex Python holds.
PyRuns ==
  \/ daemon \in {"ready", "io", "flush"}
  \/ daemon \in {"open", "close"} /\ held[mtx]

At(here, next) ==
  /\ PyRuns
  /\ py = here
  /\ py' = next
  /\ UNCHANGED <<daemon, pvMedia>>

Load(here, next, h) ==
  /\ At(here, next)
  /\ handle' = h
  /\ UNCHANGED <<usbVars, crossed>>

\* MutexP_lock on the handle that was loaded
Lock(here, next) ==
  /\ At(here, next)
  /\ ~held[handle]
  /\ held' = [held EXCEPT ![handle] = TRUE]
  /\ UNCHANGED <<usb_enabled, usb_in_use, sem, mtx, token, handle, crossed>>

\* MutexP_unlock evaluates the handle anew
Unlock(here) ==
  /\ At(here, "run")
  /\ held' = [held EXCEPT ![mtx] = FALSE]
  /\ UNCHANGED <<usb_enabled, usb_in_use, sem, mtx, token, handle, crossed>>

EnableLoad == Load("run", "enLock", mtx)

EnableLock == Lock("enLock", "enSet")

EnableSet ==
  /\ At("enSet", "enUnlock")
  /\ usb_enabled' = TRUE
  /\ UNCHANGED <<usb_in_use, sem, mtx, token, held, handle, crossed>>

EnableUnlock == Unlock("enUnlock")

DisableLoad == Load("run", "diPend", sem)

DisablePend ==
  /\ At("diPend", "diLoad")
  /\ token[handle]
  /\ token' = [token EXCEPT ![handle] = FALSE]
  /\ UNCHANGED <<usb_enabled, usb_in_use, sem, mtx, held, handle, crossed>>

DisableLoadMutex == Load("diLoad", "diLock", mtx)

\* Variant: the mutex is not taken
DisableLockNone == Load("diLock", "diCheck", handle)

DisableLock == Lock("diLock", "diCheck")

\* Variant: the loan is ended whether the host is using the disk or not
DisableCheckNone == Load("diCheck", "diClear", handle)

DisableCheck ==
  /\ At("diCheck", IF usb_in_use THEN "diUnlock" ELSE "diClear")
  /\ UNCHANGED <<usbVars, handle, crossed>>

DisableClear ==
  /\ At("diClear", "diUnlock")
  /\ usb_enabled' = FALSE
  /\ crossed' = (crossed \/ handle # mtx)
  /\ UNCHANGED <<usb_in_use, sem, mtx, token, held, handle>>

DisableUnlock == Unlock("diUnlock")

\* A new semaphore, and then a new mutex, replace the ones in the handles;
\* when the heap has no room for one, storage_init never returns.
InitSem ==
  /\ At("run", "mtxCreate")
  /\ sem < MaxObjects
  /\ sem' = sem + 1
  /\ UNCHANGED <<usb_enabled, usb_in_use, mtx, token, held, handle, crossed>>

InitMutex ==
  /\ At("mtxCreate", "run")
  /\ mtx < MaxObjects
  /\ mtx' = mtx + 1
  /\ UNCHANGED <<usb_enabled, usb_in_use, sem, token, held, handle, crossed>>

InitHangs ==
  /\ \/ At("run", "hung") /\ sem = MaxObjects
     \/ At("mtxCreate", "hung") /\ mtx = MaxObjects
  /\ UNCHANGED <<usbVars, handle, crossed>>

Python ==
  \/ EnableLoad \/ EnableLock \/ EnableSet \/ EnableUnlock
  \/ DisableLoad \/ DisablePend \/ DisableLoadMutex \/ DisableLock
  \/ DisableCheck \/ DisableClear \/ DisableUnlock
  \/ InitSem \/ InitMutex \/ InitHangs

-----------------------------------------------------------------------------
(* The daemon's side: SCMSC_open and SCMSC_close *)

\* storage_open_usb once the mutex is free, and the rest of SCMSC_open: the
\* loan is refused,
OpenRefused ==
  /\ daemon = "open"
  /\ ~held[mtx]
  /\ ~usb_enabled
  /\ daemon' = "ready"
  /\ pvMedia' = FALSE
  /\ UNCHANGED <<usbVars, pyVars>>

\* or granted, with a storage_init,
OpenGranted ==
  /\ daemon = "open"
  /\ ~held[mtx]
  /\ usb_enabled
  /\ sem < MaxObjects /\ mtx < MaxObjects
  /\ daemon' = "ready"
  /\ usb_in_use' = TRUE
  /\ pvMedia' = TRUE
  /\ sem' = sem + 1
  /\ mtx' = mtx + 1
  /\ UNCHANGED <<usb_enabled, token, held, pyVars>>

\* which never returns, at the highest priority, when the heap is exhausted.
OpenHangs ==
  /\ daemon = "open"
  /\ ~held[mtx]
  /\ usb_enabled
  /\ sem = MaxObjects \/ mtx = MaxObjects
  /\ daemon' = "hung"
  /\ usb_in_use' = TRUE
  /\ UNCHANGED <<usb_enabled, sem, mtx, token, held, pyVars, pvMedia>>

OpenUsb == OpenRefused \/ OpenGranted \/ OpenHangs

\* storage_flush, the first half of SCMSC_close, has returned.
FlushDone ==
  /\ daemon = "flush"
  /\ daemon' = "close"
  /\ UNCHANGED <<usbVars, pyVars, pvMedia>>

\* Variant: nobody is told
CloseUsbNoPost ==
  /\ daemon = "close"
  /\ ~held[mtx]
  /\ daemon' = "ready"
  /\ usb_in_use' = FALSE
  /\ pvMedia' = FALSE
  /\ UNCHANGED <<usb_enabled, sem, mtx, token, held, pyVars>>

\* storage_close_usb, and the handler that called it forgets the drive
CloseUsb ==
  /\ daemon = "close"
  /\ ~held[mtx]
  /\ daemon' = "ready"
  /\ usb_in_use' = FALSE
  /\ token' = [token EXCEPT ![sem] = TRUE]
  /\ pvMedia' = FALSE
  /\ UNCHANGED <<usb_enabled, sem, mtx, held, pyVars>>

\* The handlers open a drive that is closed, and START|LOEJ one that is open;
\* they close only one that is open.
CallOpen ==
  /\ daemon = "ready"
  /\ daemon' = "open"
  /\ UNCHANGED <<usbVars, pyVars, pvMedia>>

CallClose ==
  /\ daemon = "ready"
  /\ pvMedia
  /\ daemon' = "flush"
  /\ UNCHANGED <<usbVars, pyVars, pvMedia>>

\* SCMSC_read and SCMSC_write wait for the flash, with the drive open.
CallBlock ==
  /\ daemon = "ready"
  /\ pvMedia
  /\ daemon' = "io"
  /\ UNCHANGED <<usbVars, pyVars, pvMedia>>

BlockDone ==
  /\ daemon = "io"
  /\ daemon' = "ready"
  /\ UNCHANGED <<usbVars, pyVars, pvMedia>>

StorageDaemon ==
  \/ CallOpen \/ CallClose \/ CallBlock
  \/ OpenUsb \/ FlushDone \/ CloseUsb \/ BlockDone

StorageNext == Python \/ StorageDaemon

\* The daemon runs as soon as it can.  Python gets the processor whenever the
\* daemon waits, which it does between any two packets of the host.  Whether
\* Python makes a call, and whether the host asks for a drive, is up to them.
StorageFairness ==
  /\ WF_storageVars(OpenUsb \/ FlushDone \/ CloseUsb \/ BlockDone)
  /\ SF_storageVars(Python /\ py # "run")

StorageSpec == StorageInit /\ [][StorageNext]_storageVars

FairStorageSpec == StorageSpec /\ StorageFairness

-----------------------------------------------------------------------------
(* Properties *)

\* The type of the state of storage.c's loan protocol.
StorageTypeOK ==
  /\ usb_enabled \in BOOLEAN
  /\ usb_in_use \in BOOLEAN
  /\ sem \in Objects
  /\ mtx \in Objects
  /\ token \in [Objects -> BOOLEAN]
  /\ held \in [Objects -> BOOLEAN]
  /\ py \in PyPlaces
  /\ handle \in Objects
  /\ daemon \in DaemonPlaces
  /\ pvMedia \in BOOLEAN
  /\ crossed \in BOOLEAN

\* disable_usb never takes the disk from a host that is using it, whatever
\* the interleaving of its test with SCMSC_open, unless the mutex it holds
\* was replaced by storage_init between its loading and its locking.
EnabledWhileInUse == usb_in_use => usb_enabled \/ crossed

\* Between two handlers the daemon's own idea of the drive and storage.c's
\* agree: no drive stays in use after its close, none is used unrecorded.
DriveIsInUse == daemon = "ready" => (pvMedia <=> usb_in_use) \/ crossed

\* Python in the middle of taking the disk back under the current mutex has
\* shut the daemon out: nothing is opened between the test and the clearing.
ClearingExcludesOpening ==
  py = "diClear" /\ handle = mtx => ~usb_in_use

\* What makes the three above inductive: Python holds the mutex it has locked,
\* handles are never ahead of the numbers given out, and the drive and the
\* loan agree whatever the daemon is doing.
LoanInv ==
  /\ StorageTypeOK
  /\ py \in {"enSet", "enUnlock", "diCheck", "diClear", "diUnlock"} => held[handle]
  /\ py \in {"enLock", "enSet", "enUnlock", "diLock", "diCheck", "diClear", "diUnlock"} =>
       handle <= mtx
  /\ ClearingExcludesOpening
  /\ EnabledWhileInUse
  /\ daemon # "hung" => (pvMedia <=> usb_in_use) \/ crossed

\* A Python program blocked in disable_usb since before the host began to
\* eject the drive is released when the drive has been closed.
EjectReleasesPython ==
  py = "diPend" /\ handle = sem /\ daemon = "flush"
    ~> py # "diPend" \/ daemon = "hung"
=============================================================================

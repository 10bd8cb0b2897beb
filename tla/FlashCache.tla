---------------------------- MODULE FlashCache ----------------------------
(***************************************************************************)
(* The one-sector write-back cache between the block device layer and the  *)
(* external SPI NOR flash, src/machine_nvsbdev.c.                          *)
(*                                                                         *)
(* Three tasks share flash_cache_mem, flash_flags and the sector variables *)
(* with no lock: the MicroPython thread and the USB mass storage daemon    *)
(* (the Clients) call flash_bdev_readblock/writeblock/ioctl(SYNC), and the *)
(* flush thread (Flusher) writes a dirty cache back when SYNC wakes it or  *)
(* when its 5 s pend times out.  A step of the model is a stretch of code  *)
(* between two points where another task can be switched in.  The kernel   *)
(* has strict priorities and no time slicing, so a task loses the CPU to a *)
(* higher priority at any point and to an equal one only where it blocks:  *)
(* a pend with no token, or the SPI transfers inside NVS_read/NVS_write.   *)
(*                                                                         *)
(* A block is a pair <<sector, offset>>, the quotient and the remainder of *)
(* its number by the blocks of a sector.  A copy of one block is one step. *)
(***************************************************************************)
EXTENDS Naturals

CONSTANTS
    Clients,     \* tasks that read and write blocks
    Handled,     \* clients with an exception handler of their own
    Flusher,     \* the flush thread
    Prio,        \* task priority, a larger number preempts a smaller one
    Sectors, Offsets, Data,
    Erased,      \* what a block of an erased sector reads as
    NoSector,    \* (uint32_t)-1
    Nobody,
    MaxFaults    \* bound: NVS calls that fail before the next power cycle

Tasks == Clients \cup {Flusher}

Contents == Data \cup {Erased}

ASSUME ConstAssumption ==
    /\ Handled \subseteq Clients
    /\ Flusher \notin Clients
    /\ Nobody \notin Tasks
    /\ NoSector \notin Sectors
    /\ Sectors # {} /\ Offsets # {}
    /\ Prio \in [Tasks -> Nat]
    /\ \A c \in Clients : Prio[Flusher] <= Prio[c]
    /\ MaxFaults \in Nat

VARIABLES
    flash,       \* the NOR chip: contents of each block of each sector
    cacheMem,    \* flash_cache_mem, one sector
    cacheId,     \* flash_cache_sector_id
    cacheStart,  \* flash_cache_sector_start, as the sector it addresses
    dirty,       \* flash_flags & FLASH_FLAG_DIRTY
    cacheSem,    \* token of flushFlashBdevCache
    cleanSem,    \* token of flushFlashBdevClean
    pc, req,     \* where each task is; the call each client is serving
    result,      \* what that call returned
    target,      \* sector address passed to the NVS_write in progress
    done,        \* offsets this NVS_write has programmed, then verified
    nvsOwner,    \* holder of the NVS driver's own lock
    onCpu,       \* tasks that have run since they last blocked
    faults,      \* NVS calls that failed
    fatal,       \* an exception was raised on a task with no handler
    image,       \* history: what the clients have written to each block
    breach       \* history: unguarded situations that have occurred

vars == <<flash, cacheMem, cacheId, cacheStart, dirty, cacheSem, cleanSem, pc,
          req, result, target, done, nvsOwner, onCpu, faults, fatal, image, breach>>

cacheVars == <<cacheMem, cacheId, cacheStart, dirty>>
semVars   == <<cacheSem, cleanSem>>
callVars  == <<req, result>>
history   == <<image, breach>>
nvsVars   == <<flash, target, done, nvsOwner, faults, fatal>>

ClientLabels == {"idle", "lookup", "sync", "pend", "wait", "load", "reading",
                 "setid", "setstart", "mark", "copy"}
FlushLabels  == {"check", "args", "begin", "program", "verify", "clear",
                 "post", "loop", "sleep"}

Requests == [op : {"read"}, sec : Sectors, off : Offsets]
       \cup [op : {"write"}, sec : Sectors, off : Offsets, val : Data]
       \cup [op : {"sync"}]

Results == Contents \cup {"none", "ok", "eio"}

Breaches == {"overlap", "stale_token", "write_in_flush", "read_failed"}

Image == [Sectors -> [Offsets -> Contents]]

---------------------------------------------------------------------------
(* The scheduler: SYS/BIOS tasks as src/boards/.../kernel/tirtos configures *)
(* them, and the NVS driver's lock.                                         *)

\* Labels at which a task waits for a semaphore, an SPI transfer or a call.
Blocking == {"idle", "wait", "reading", "program", "verify", "sleep"}

\* A task at label l can use the CPU; at "load" and "begin" it needs the lock.
Ready(l) == /\ l \notin Blocking
            /\ l \in {"load", "begin"} => nvsOwner = Nobody

Executing(t) == Ready(pc[t])

CanRun(t) == /\ ~fatal
             /\ \A u \in Tasks \ {t} : Executing(u) =>
                    \/ Prio[u] < Prio[t]
                    \/ Prio[u] = Prio[t] /\ u \notin onCpu

\* t goes to label l; it keeps the CPU of its priority level unless it blocks.
Goto(t, l) == /\ pc' = [pc EXCEPT ![t] = l]
              /\ onCpu' = IF Ready(l) THEN onCpu \cup {t} ELSE onCpu \ {t}

---------------------------------------------------------------------------
(* The clients.                                                            *)

NoCall == [op |-> "sync"]

\* The call returns v; its arguments go with it.
Return(c, v) == /\ Goto(c, "idle")
                /\ req' = [req EXCEPT ![c] = NoCall]
                /\ result' = [result EXCEPT ![c] = v]

Begin(c, r) ==
    /\ pc[c] = "idle" /\ CanRun(c)
    /\ req' = [req EXCEPT ![c] = r]
    /\ result' = [result EXCEPT ![c] = "none"]
    /\ breach' = IF \E d \in Clients : pc[d] # "idle"
                 THEN breach \cup {"overlap"} ELSE breach
    /\ Goto(c, IF r.op = "sync" THEN "sync" ELSE "lookup")
    /\ UNCHANGED <<cacheVars, semVars, nvsVars, image>>

\* Variant: any cached sector counts as a hit.
LookupAnySector(c) ==
    /\ pc[c] = "lookup" /\ CanRun(c)
    /\ Goto(c, IF cacheId = NoSector THEN "sync" ELSE "mark")
    /\ UNCHANGED <<cacheVars, semVars, nvsVars, callVars, history>>

Lookup(c) ==
    /\ pc[c] = "lookup" /\ CanRun(c)
    /\ Goto(c, IF cacheId # req[c].sec THEN "sync" ELSE "mark")
    /\ UNCHANGED <<cacheVars, semVars, nvsVars, callVars, history>>

\* SYNC was the call itself, or it was made for the sector to be loaded.
AfterSync(c) == IF req[c].op = "sync" THEN "idle" ELSE "load"

SyncResult(c) == result' = IF req[c].op = "sync"
                           THEN [result EXCEPT ![c] = "ok"] ELSE result

\* SYNC of a clean cache returns at once.
SyncClean(c) ==
    /\ pc[c] = "sync" /\ CanRun(c) /\ ~dirty
    /\ Goto(c, AfterSync(c)) /\ SyncResult(c)
    /\ UNCHANGED <<cacheVars, semVars, nvsVars, req, history>>

\* Variant: SYNC posts and does not wait for the flush.
SyncDirtyNoPend(c) ==
    /\ pc[c] = "sync" /\ CanRun(c) /\ dirty
    /\ cacheSem' = 1
    /\ Goto(c, AfterSync(c)) /\ SyncResult(c)
    /\ UNCHANGED <<cacheVars, cleanSem, nvsVars, req, history>>

\* SYNC of a dirty cache posts flushFlashBdevCache: a flush thread asleep in
\* its pend takes the token, otherwise the binary semaphore keeps it.  A clean
\* token of an earlier flush, left or about to be posted, is not taken back.
SyncDirty(c) ==
    /\ pc[c] = "sync" /\ CanRun(c) /\ dirty
    /\ IF pc[Flusher] = "sleep"
       THEN /\ pc' = [pc EXCEPT ![c] = "pend", ![Flusher] = "check"]
            /\ UNCHANGED cacheSem
       ELSE /\ pc' = [pc EXCEPT ![c] = "pend"]
            /\ cacheSem' = 1
    /\ onCpu' = onCpu \cup {c}
    /\ breach' = IF cleanSem = 1 \/ pc[Flusher] = "post"
                 THEN breach \cup {"stale_token"} ELSE breach
    /\ UNCHANGED <<cacheVars, cleanSem, nvsVars, callVars, image>>

\* The pend on flushFlashBdevClean finds a token...
PendTake(c) ==
    /\ pc[c] = "pend" /\ CanRun(c) /\ cleanSem = 1
    /\ cleanSem' = 0
    /\ Goto(c, AfterSync(c)) /\ SyncResult(c)
    /\ UNCHANGED <<cacheVars, cacheSem, nvsVars, req, history>>

\* Variant: the pend gives up after a timeout and nobody looks at its result.
PendGivesUp(c) ==
    /\ pc[c] = "pend" /\ CanRun(c) /\ cleanSem = 0
    /\ Goto(c, AfterSync(c)) /\ SyncResult(c)
    /\ UNCHANGED <<cacheVars, semVars, nvsVars, req, history>>

\* ... or blocks, with no timeout.
PendBlock(c) ==
    /\ pc[c] = "pend" /\ CanRun(c) /\ cleanSem = 0
    /\ Goto(c, "wait")
    /\ UNCHANGED <<cacheVars, semVars, nvsVars, callVars, history>>

\* Variant: the driver does not serialise NVS_read with NVS_write.
ReadBeginNoLock(c) ==
    /\ pc[c] = "load" /\ CanRun(c)
    /\ nvsOwner' = c
    /\ Goto(c, "reading")
    /\ UNCHANGED <<cacheVars, semVars, flash, target, done, faults, fatal,
                   callVars, history>>

ReadBegin(c) ==
    /\ pc[c] = "load" /\ CanRun(c) /\ nvsOwner = Nobody
    /\ nvsOwner' = c
    /\ Goto(c, "reading")
    /\ UNCHANGED <<cacheVars, semVars, flash, target, done, faults, fatal,
                   callVars, history>>

ReadEnd(c) ==
    /\ pc[c] = "reading" /\ CanRun(c)
    /\ cacheMem' = flash[req[c].sec]
    /\ nvsOwner' = Nobody
    /\ Goto(c, "setid")
    /\ UNCHANGED <<cacheId, cacheStart, dirty, semVars, flash, target, done,
                   faults, fatal, callVars, history>>

\* A transfer fails part way: mp_raise_OSError(MP_EIO) unwinds the client, the
\* sector variables keep describing the sector that was cached before.
ReadFail(c) ==
    /\ pc[c] = "reading" /\ CanRun(c) /\ faults < MaxFaults
    /\ \E part \in SUBSET Offsets :
         cacheMem' = [o \in Offsets |-> IF o \in part THEN flash[req[c].sec][o]
                                                      ELSE cacheMem[o]]
    /\ nvsOwner' = Nobody
    /\ faults' = faults + 1
    /\ fatal' = (c \notin Handled)
    /\ breach' = breach \cup {"read_failed"}
    /\ Return(c, "eio")
    /\ UNCHANGED <<cacheId, cacheStart, dirty, semVars, flash, target, done,
                   image>>

SetId(c) ==
    /\ pc[c] = "setid" /\ CanRun(c)
    /\ cacheId' = req[c].sec
    /\ Goto(c, "setstart")
    /\ UNCHANGED <<cacheMem, cacheStart, dirty, semVars, nvsVars, callVars, history>>

\* Variant: the start address is left as it was.
SetStartForgotten(c) ==
    /\ pc[c] = "setstart" /\ CanRun(c)
    /\ Goto(c, "mark")
    /\ UNCHANGED <<cacheVars, semVars, nvsVars, callVars, history>>

SetStart(c) ==
    /\ pc[c] = "setstart" /\ CanRun(c)
    /\ cacheStart' = req[c].sec
    /\ Goto(c, "mark")
    /\ UNCHANGED <<cacheMem, cacheId, dirty, semVars, nvsVars, callVars, history>>

\* The dirty flag goes up before the caller copies its block.
Mark(c) ==
    /\ pc[c] = "mark" /\ CanRun(c)
    /\ dirty' = (dirty \/ req[c].op = "write")
    /\ Goto(c, "copy")
    /\ UNCHANGED <<cacheMem, cacheId, cacheStart, semVars, nvsVars, callVars, history>>

\* Variant: the offset of the block in its sector is not added.
CopyOutNoOffset(c) ==
    /\ pc[c] = "copy" /\ CanRun(c) /\ req[c].op = "read"
    /\ \E o \in Offsets : Return(c, cacheMem[o])
    /\ UNCHANGED <<cacheVars, semVars, nvsVars, image, breach>>

CopyOut(c) ==
    /\ pc[c] = "copy" /\ CanRun(c) /\ req[c].op = "read"
    /\ Return(c, cacheMem[req[c].off])
    /\ UNCHANGED <<cacheVars, semVars, nvsVars, image, breach>>

CopyIn(c) ==
    /\ pc[c] = "copy" /\ CanRun(c) /\ req[c].op = "write"
    /\ cacheMem' = [cacheMem EXCEPT ![req[c].off] = req[c].val]
    /\ image' = [image EXCEPT ![req[c].sec][req[c].off] = req[c].val]
    /\ breach' = IF pc[Flusher] \in {"program", "verify", "clear"}
                 THEN breach \cup {"write_in_flush"} ELSE breach
    /\ Return(c, "ok")
    /\ UNCHANGED <<cacheId, cacheStart, dirty, semVars, nvsVars>>

ClientStep(c) ==
    \/ Lookup(c) \/ SyncClean(c) \/ SyncDirty(c) \/ PendTake(c) \/ PendBlock(c)
    \/ ReadBegin(c) \/ ReadEnd(c) \/ ReadFail(c) \/ SetId(c) \/ SetStart(c)
    \/ Mark(c) \/ CopyOut(c) \/ CopyIn(c)

---------------------------------------------------------------------------
(* The flush thread.                                                       *)

FlushCheck ==
    /\ pc[Flusher] = "check" /\ CanRun(Flusher)
    /\ Goto(Flusher, IF dirty THEN "args" ELSE "loop")
    /\ UNCHANGED <<cacheVars, semVars, nvsVars, callVars, history>>

\* Variant: the flag is cleared before the write instead of after it.
FlushArgsClear ==
    /\ pc[Flusher] = "args" /\ CanRun(Flusher)
    /\ target' = cacheStart
    /\ dirty' = FALSE
    /\ Goto(Flusher, "begin")
    /\ UNCHANGED <<cacheMem, cacheId, cacheStart, semVars, flash, done, nvsOwner,
                   faults, fatal, callVars, history>>

FlushArgs ==
    /\ pc[Flusher] = "args" /\ CanRun(Flusher)
    /\ target' = cacheStart
    /\ Goto(Flusher, "begin")
    /\ UNCHANGED <<cacheVars, semVars, flash, done, nvsOwner, faults, fatal,
                   callVars, history>>

\* NVS_write with NVS_WRITE_ERASE | NVS_WRITE_POST_VERIFY: erase the sector,
\* program it from the cache, read it back and compare it with the cache.
NvsErase ==
    /\ pc[Flusher] = "begin" /\ CanRun(Flusher) /\ nvsOwner = Nobody
    /\ nvsOwner' = Flusher
    /\ flash' = [flash EXCEPT ![target] = [o \in Offsets |-> Erased]]
    /\ done' = {}
    /\ Goto(Flusher, "program")
    /\ UNCHANGED <<cacheVars, semVars, target, faults, fatal, callVars, history>>

NvsProgram(o) ==
    /\ pc[Flusher] = "program" /\ CanRun(Flusher) /\ o \notin done
    /\ flash' = [flash EXCEPT ![target][o] = cacheMem[o]]
    /\ LET all == done \cup {o} = Offsets
       IN  /\ done' = IF all THEN {} ELSE done \cup {o}
           /\ Goto(Flusher, IF all THEN "verify" ELSE "program")
    /\ UNCHANGED <<cacheVars, semVars, target, nvsOwner, faults, fatal,
                   callVars, history>>

NvsVerify(o) ==
    /\ pc[Flusher] = "verify" /\ CanRun(Flusher) /\ o \notin done
    /\ flash[target][o] = cacheMem[o]
    /\ LET all == done \cup {o} = Offsets
       IN  /\ done' = IF all THEN {} ELSE done \cup {o}
           /\ nvsOwner' = IF all THEN Nobody ELSE nvsOwner
           /\ target' = IF all THEN NoSector ELSE target
           /\ Goto(Flusher, IF all THEN "clear" ELSE "verify")
    /\ UNCHANGED <<cacheVars, semVars, flash, faults, fatal, callVars, history>>

\* NVS_write reports an error, from the chip or from the comparison:
\* mp_raise_OSError jumps to a handler that belongs to another task.
NvsFail ==
    /\ pc[Flusher] \in {"program", "verify"} /\ CanRun(Flusher)
    /\ \/ faults < MaxFaults /\ faults' = faults + 1
       \/ /\ pc[Flusher] = "verify"
          /\ \E o \in Offsets \ done : flash[target][o] # cacheMem[o]
          /\ UNCHANGED faults
    /\ nvsOwner' = Nobody
    /\ fatal' = TRUE
    /\ UNCHANGED <<cacheVars, semVars, flash, target, done, pc, onCpu,
                   callVars, history>>

FlushClear ==
    /\ pc[Flusher] = "clear" /\ CanRun(Flusher)
    /\ dirty' = FALSE
    /\ Goto(Flusher, "post")
    /\ UNCHANGED <<cacheMem, cacheId, cacheStart, semVars, nvsVars, callVars, history>>

\* Variant: nobody is told that the cache is clean.
FlushPostNothing ==
    /\ pc[Flusher] = "post" /\ CanRun(Flusher)
    /\ Goto(Flusher, "loop")
    /\ UNCHANGED <<cacheVars, semVars, nvsVars, callVars, history>>

\* Posting flushFlashBdevClean wakes one client that waits for it; with none
\* waiting the token stays for whoever pends next.
FlushPost ==
    /\ pc[Flusher] = "post" /\ CanRun(Flusher)
    /\ onCpu' = onCpu \cup {Flusher}
    /\ \/ \E c \in Clients :
            /\ pc[c] = "wait"
            /\ pc' = [pc EXCEPT ![c] = AfterSync(c), ![Flusher] = "loop"]
            /\ SyncResult(c)
            /\ UNCHANGED cleanSem
       \/ /\ \A c \in Clients : pc[c] # "wait"
          /\ pc' = [pc EXCEPT ![Flusher] = "loop"]
          /\ cleanSem' = 1
          /\ UNCHANGED result
    /\ UNCHANGED <<cacheVars, cacheSem, nvsVars, req, history>>

\* The pend on flushFlashBdevCache, 5000 ms.
FlushLoop ==
    /\ pc[Flusher] = "loop" /\ CanRun(Flusher)
    /\ cacheSem' = 0
    /\ Goto(Flusher, IF cacheSem = 1 THEN "check" ELSE "sleep")
    /\ UNCHANGED <<cacheVars, cleanSem, nvsVars, callVars, history>>

FlushTimeout ==
    /\ pc[Flusher] = "sleep" /\ CanRun(Flusher)
    /\ Goto(Flusher, "check")
    /\ UNCHANGED <<cacheVars, semVars, nvsVars, callVars, history>>

FlushStep == \/ FlushCheck \/ FlushArgs \/ NvsErase
             \/ \E o \in Offsets : NvsProgram(o) \/ NvsVerify(o)
             \/ NvsFail \/ FlushClear \/ FlushPost \/ FlushLoop

---------------------------------------------------------------------------
(* Power: RAM is lost, the chip keeps what it holds, storage_init runs.    *)

RamAfterBoot ==
    /\ cacheMem \in {[o \in Offsets |-> d] : d \in Data}
    /\ cacheId = NoSector /\ cacheStart \in Sectors
    /\ dirty = FALSE
    /\ cacheSem = 0 /\ cleanSem = 0
    /\ pc = [t \in Tasks |-> IF t = Flusher THEN "check" ELSE "idle"]
    /\ req = [c \in Clients |-> NoCall] /\ result = [c \in Clients |-> "none"]
    /\ target = NoSector /\ done = {}
    /\ nvsOwner = Nobody /\ onCpu = {} /\ faults = 0
    /\ fatal = FALSE /\ breach = {}

Init == flash \in Image /\ image = flash /\ RamAfterBoot

PowerCycle ==
    /\ flash' = flash /\ image' = flash
    /\ cacheMem' \in {[o \in Offsets |-> d] : d \in Data}
    /\ cacheId' = NoSector /\ cacheStart' \in Sectors
    /\ dirty' = FALSE
    /\ cacheSem' = 0 /\ cleanSem' = 0
    /\ pc' = [t \in Tasks |-> IF t = Flusher THEN "check" ELSE "idle"]
    /\ req' = [c \in Clients |-> NoCall] /\ result' = [c \in Clients |-> "none"]
    /\ target' = NoSector /\ done' = {}
    /\ nvsOwner' = Nobody /\ onCpu' = {} /\ faults' = 0
    /\ fatal' = FALSE /\ breach' = {}

Next == \/ \E c \in Clients : (\E r \in Requests : Begin(c, r)) \/ ClientStep(c)
        \/ FlushStep \/ FlushTimeout
        \/ PowerCycle

Spec == Init /\ [][Next]_vars

\* The executions in which no breach occurs between two power cycles.
SoundSpec == Init /\ [][Next /\ breach' = {}]_vars

\* The kernel runs a ready task once nothing of its priority or above runs, and
\* a transfer completes or fails.  Nothing makes a client call again.
Fairness == /\ WF_vars(FlushStep)
            /\ \A c \in Clients : WF_vars(ClientStep(c))

FairSpec == Spec /\ Fairness

---------------------------------------------------------------------------
(* Properties.                                                             *)

\* Every variable keeps its type; the two semaphores are binary.
TypeOK ==
    /\ flash \in Image /\ image \in Image
    /\ cacheMem \in [Offsets -> Contents]
    /\ cacheId \in Sectors \cup {NoSector}
    /\ cacheStart \in Sectors /\ target \in Sectors \cup {NoSector}
    /\ dirty \in BOOLEAN /\ fatal \in BOOLEAN
    /\ cacheSem \in {0, 1} /\ cleanSem \in {0, 1}
    /\ pc \in [Tasks -> ClientLabels \cup FlushLabels]
    /\ \A c \in Clients : pc[c] \in ClientLabels
    /\ pc[Flusher] \in FlushLabels
    /\ req \in [Clients -> Requests]
    /\ result \in [Clients -> Results]
    /\ done \in SUBSET Offsets
    /\ nvsOwner \in Tasks \cup {Nobody}
    /\ onCpu \in SUBSET Tasks
    /\ faults \in 0..MaxFaults
    /\ breach \in SUBSET Breaches

Sound == breach = {}

\* Without a breach the cache holds what was last written to the sector it is
\* labelled with, except between the read of a new sector and its relabelling
\* (flash_cache_get_addr).
CacheHoldsItsSector ==
    Sound /\ cacheId \in Sectors /\ (\A c \in Clients : pc[c] # "setid")
        => cacheMem = image[cacheId]

\* Without a breach the flash is up to date but for the dirty sector, also
\* while that is being erased and reprogrammed: what a power cut can cost.
OnlyDirtySectorDiffers ==
    Sound => \A s \in Sectors : s # cacheId \/ ~dirty => flash[s] = image[s]

\* Without a breach flash_bdev_flush writes the cache over its own sector and
\* over no other, though the address is read before NVS_write can block.
FlushInPlace ==
    Sound /\ pc[Flusher] \in {"begin", "program", "verify"}
        => target = cacheId /\ dirty

\* An exception on a task with no handler comes from a failed NVS call or from
\* a client that copied into the cache while the flush thread was writing it
\* (the verification then differs): the driver's lock excludes all else.
NoUnhandledError == fatal => faults > 0 \/ "write_in_flush" \in breach

\* A SYNC that started with no clean token of an earlier flush at hand, in an
\* execution without the other breaches, does not let its caller go on before
\* the flash holds all that was written: flash_bdev_ioctl against the flush
\* that the timeout starts, which posts the same semaphore at any time.
SyncIsDurable ==
    [][\A c \in Clients :
          /\ pc[c] \in {"sync", "pend", "wait"} /\ pc'[c] \in {"idle", "load"}
          /\ breach' = {}
          => flash' = image']_vars

\* Without a breach the cache implements a plain block device: each call gets
\* the block it asked for as last written, and the media lags behind in one
\* sector at most.
Outstanding(c) == IF pc[c] = "idle" THEN [op |-> "none"] ELSE req[c]

Device == INSTANCE BlockDevice WITH
    disk <- image, media <- flash,
    open <- IF dirty THEN cacheId ELSE NoSector,
    asked <- [c \in Clients |-> Outstanding(c)]

BlockDeviceSpec == Device!Spec

\* A client blocked in SYNC goes on, or an unhandled error has stopped the
\* badge, or two clients have overlapped (they share one clean token).
SyncReturns ==
    \A c \in Clients :
        pc[c] = "wait" ~> pc[c] # "wait" \/ fatal \/ "overlap" \in breach

\* moduos.c on sync(): "Sync all filesystems."
SyncWritesEverything ==
    [][\A c \in Clients :
          /\ req[c].op = "sync" /\ result[c] = "none" /\ result'[c] = "ok"
          => flash' = image']_vars

---------------------------------------------------------------------------
(* The inductive invariant: what holds in every state, then what holds     *)
(* until the first breach.                                                 *)

CallInv ==
    /\ \A c \in Clients :
          pc[c] \in {"lookup", "load", "reading", "setid", "setstart", "mark",
                    "copy"} => req[c].op # "sync"
    /\ pc[Flusher] \in {"begin", "program", "verify"} => target \in Sectors

LockInv ==
    ~fatal => /\ \A c \in Clients : nvsOwner = c <=> pc[c] = "reading"
              /\ nvsOwner = Flusher <=> pc[Flusher] \in {"program", "verify"}

WriteBackInv ==
    "write_in_flush" \notin breach /\ ~fatal =>
        /\ pc[Flusher] = "program" => \A o \in done : flash[target][o] = cacheMem[o]
        /\ pc[Flusher] = "verify" => flash[target] = cacheMem

SerialInv ==
    \A c, d \in Clients : pc[c] # "idle" /\ pc[d] # "idle" => c = d

ClientInv ==
    \A c \in Clients :
        /\ pc[c] = "copy" => c \in onCpu /\ (req[c].op = "write" => dirty)
        /\ pc[c] \in {"load", "reading", "setid", "setstart"} => ~dirty
        /\ pc[c] = "setid" => cacheMem = image[req[c].sec]
        /\ pc[c] \in {"setstart", "mark", "copy"} => cacheId = req[c].sec

\* While a SYNC of a dirty cache waits, no token of an earlier flush is at hand.
TokenInv ==
    \A c \in Clients : dirty /\ pc[c] \in {"pend", "wait"} =>
        /\ pc[Flusher] # "post"
        /\ pc[c] = "pend" => cleanSem = 0

LabelInv ==
    /\ cacheId = NoSector => ~dirty
    /\ cacheId \in Sectors /\ (\A c \in Clients : pc[c] # "setstart")
          => cacheStart = cacheId
    /\ pc[Flusher] \in {"args", "begin", "program", "verify", "clear"} => dirty
    /\ pc[Flusher] = "clear" => flash[cacheId] = cacheMem

\* Sound executions keep the labels, the cache and the flash consistent at
\* every step of every task; FlashCacheProofs shows this inductive.
Inv == /\ TypeOK /\ CallInv /\ LockInv /\ WriteBackInv /\ NoUnhandledError
       /\ Sound => SerialInv /\ ClientInv /\ LabelInv /\ TokenInv
       /\ CacheHoldsItsSector /\ OnlyDirtySectorDiffers /\ FlushInPlace
=============================================================================

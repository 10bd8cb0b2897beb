# TiLDA Mk4 MicroPython firmware: TLA+ models, checks and proofs

The repository is the firmware of a conference badge: MicroPython on TI-RTOS
(SYS/BIOS), on an MSP432E4 with a CC3120 Wi-Fi chip, an external SPI NOR flash,
a USB device port, a button expander, sound and neopixels. Interpreter, kernel,
drivers, USB and network libraries are outside `src/` (submodules) or vendored.
What is this project's own is the glue, and the glue is concurrent: tasks of
strict priorities, software and hardware interrupts, and an interpreter that is
reset and started again while all of them go on.

Contents:
[components](#1-the-system-and-its-components) -
[plan](#2-plan) -
[modules](#3-modules-and-the-code) -
[runs](#4-runs) -
[bounds and fairness](#5-bounds-and-fairness) -
[proofs](#6-proofs) -
[findings](#7-findings-and-observations) -
[limits](#8-what-is-not-covered)

## 1. The system and its components

### Who runs

| thread of control | priority | code |
|---|---|---|
| hardware interrupts (USB, GPIO, sound timer, DMA) | above all | callbacks of `usbdmsc.c`, `CDCD.c`, `machine_pin.c`, `tilda_thread.c`, `sound.c`, `neopix.c` |
| clock functions (software interrupt) | above the tasks | `pdb.c` |
| `mscDaemon` | 15 | `usbdmsc.c:2520` |
| `tildaThread` | 10 | `tilda_thread.c:271` |
| `sl_Task` | 9 | the Wi-Fi driver's task (external) |
| `mpThread`, MicroPython | 1 | `mpmain-emf.c` |
| flash flush thread | 1 | `machine_nvsbdev.c:109` |

There is no time slicing: a task loses the processor to a higher priority at any
point and to an equal one only where it blocks or yields. `MICROPY_PY_THREAD` is
off, so the `nlr` exception chain belongs to `mpThread`, whoever raises.

### The components

| component | state | operations | meets | hard | correct when |
|---|---|---|---|---|---|
| Flash cache, `machine_nvsbdev.c` | one sector in RAM, its number and address, a dirty flag, two binary semaphores | read and write a block, SYNC, the flush thread's loop | MicroPython's FAT, the USB daemon, the flush thread; NVS driver | no lock; a flush and a refill at once; stale semaphore tokens; failing transfers; power cuts | a read returns the last write, SYNC is durable, a power cut costs one sector |
| Loan of the disk, `storage.c`, `SCMSC.c` | `usb_enabled`, `usb_in_use`, a semaphore, a mutex, made anew by each `storage_init` | `enable_usb`, `disable_usb`, open, close, mount | Python against the daemon | handles replaced under a caller; a wait without timeout; objects that are never freed | the disk is not taken back from a host that uses it; an eject releases Python |
| USB mass storage, `usbdmsc.c` | SCSI state, bytes to transfer, LBA, one block buffer, the CSW, a mailbox of 4 | bulk IN and OUT events, commands, requests, connect and disconnect | USB interrupt, DMA, the loan, the cache | events while a handler waits for the flash; a host lost in the middle of a command | data go where the command said, the status is of the command and after its data, every command is answered |
| Button debouncer and expander, `pdb.c`, `tilda_thread.c` | level, count and period of the debouncer; two button states | edge interrupt, clock function, read, compare | interrupts, I2C, MicroPython's scheduler | an interrupt inside the clock function; an edge that must not be lost; a failing read | every change is told once and debounced |
| Button API and callback slots, `tilda_buttons.c`, `modtilda.c`; pin interrupts, `machine_pin.c` | callback, mode, argument of each slot | register, enable, disable, dispatch | `tildaThread`, pin interrupts, the soft reset | slots that outlive the heap they point to | an event calls what was registered for it in this life of the heap |
| Start, soft reset, sleep, `mpmain-emf.c`, `modmachine.c`, `modutime.c` | heap, semaphore of sleep, the order of teardown and set-up | start, reset, `sleep_ms`, wake | everything that posts to Python | an interrupt between teardown and set-up | no post to a deleted semaphore, a sleep ends when its cause comes |
| USB serial, `CDCD.c`, `cdcmsc.c` | two ring buffers, link state, tokens | read, write, connect, disconnect, Ctrl-C | USB interrupt, MicroPython's console | a reset of the buffers under a reader; a write that times out | text in order; loss only where the code gives up |
| First files, `mpmain-emf.c` | `boot.py`, `bootstrap.py`, the mode chosen with the button | format, create | power cuts | half of the files | a badge that starts has both |
| Sound, `sound.c`, `modaudio.c` | ring position, ramps, busy flags | init, play, stop, interrupt | the timer interrupt and the heap | refusals that leave a flag; empty buffers | `play` returns and can be called again |
| Neopixels, `neopix.c` | frame buffer, `inprogress` | display, destroy, DMA interrupt | the DMA | freeing or refilling under the DMA | the buffer is stable while it is sent |
| Serial objects, `machine_uart.c`, `_pwm`, `_i2c`, `_spi`, `_adc` | table of open drivers | init, deinit, deinit of all | the soft reset | handles closed twice | a handle is closed once |
| Wi-Fi station, `network_stalan.c` | role, policy and profiles, which the CC3120 keeps without power | `active`, `connect`, `ifconfig` | CC3120 | a command that fails in the middle of a sequence; a power cut in it | a device that connects by itself does so to a network a program asked for |
| Layout of the disk, `storage.c` | partition table of one entry | block number to block of the flash | both mounts | arithmetic at the ends | every block of the partition has a place of its own |
| Socket, RTC, EEPROM, LEDs, sensors, `os`, graphics, board set-up | - | arguments to one driver call | - | - | not modelled, see section 8 |

`PROJECT.json` lists every component with its files, and under `hazards` every
place that is hard to test, with the properties that would notice.

### How the modelled parts meet

```
    Python (mpThread)                       USB host
        | enable_usb / disable_usb             | packets, plug
        v                                      v
     storage.c  <---- open / close -----  usbdmsc.c (mscDaemon)
   loan: UsbStorage                       UsbMsc (EXTENDS UsbStorage)
        |                                      |
        +-------- read, write, SYNC -----------+
                          v    block numbers: FlashLayout
            machine_nvsbdev.c: FlashCache  -- implements -->  BlockDevice
                          |
                   flush thread, NVS

    buttons -> TCA9555 -> edge interrupt -> pdb.c -> tildaThread: TildaButtons
                                                        | callback, post
    joystick, menu, Pin interrupts, Ctrl-C ----------+  v
                        session and soft reset: SoftReset

    console <-> CDCD.c <-> USB host: CdcSerial  -- implements -->  SerialLine

    a program's devices: Peripherals = Sound + Neopix + Drivers + StationLan
```

UsbMsc waits for the flash in the steps in which it calls `SCMSC_read`,
`SCMSC_write` and `SCMSC_close` and takes from it only what BlockDevice promises:
a block is read or written at some moment of the call. SoftReset takes from
TildaButtons that a change is told once, and from nobody when. Peripherals
composes four modules that share the interpreter's thread and the soft reset:
the program is in one call at a time, the interrupts come between any two steps.

## 2. Plan

| order | module | content | state |
|---|---|---|---|
| 1 | FlashCache, BlockDevice | the cache, and what it promises | checked, proved |
| 2 | UsbStorage | the loan | checked, proved |
| 3 | UsbMsc over UsbStorage | the mass storage device and its host | checked, proved |
| 4 | TildaButtons | debouncer and expander | checked, proved |
| 5 | SoftReset | teardown, `mp_init` and `tilda_init0` against pin, button and Ctrl-C events; callback slots, `machine_sleep_sem`, scheduler queue | checked, proved |
| 6 | CdcSerial, SerialLine | ring buffers, tokens, timeouts, reconnection; two lossy queues as the promise | checked, proved |
| 7 | FlashLayout | partition table, offset and the cache's sector arithmetic | proved |
| 8 | Sound, Neopix, Drivers, StationLan, Peripherals | the devices of a program, and the soft reset over them | checked, proved |
| 9 | UsbMsc's proofs | TransferIsLent, WritesInPlace, ReadsInPlace, StatusIsTrue, OnlyKnownSilence, NoOverflow and NotObeyedTwice from one inductive invariant over the SCSI state, the DMA, the mailbox and the host, before and after a host is lost | proved |

The first files (`mpmain-emf.c:267-447`) were planned and are not modelled: what
a power cut leaves of two files is decided by the order in which FatFs writes
directory, table and data, and FatFs is not in `src/`.

More hazards, beyond those in `PROJECT.json`:

- `usbdmsc.c:653`: the result of a write is ignored; the host is told of a success. (UsbMsc has it: a block that fails is written all the same.)
- `usbdmsc.c:501`: a READ or WRITE of zero blocks starts with nothing to transfer, and the first block takes the unsigned count below 0. Left out: the host sends none.
- `usbdmsc.c:2465`: `postHandleRequests` queues a pointer to the USB library's request, which a second request overwrites before the daemon reads it.
- `SCMSC.c:44`: a block that cannot be read is sent as whatever the buffer held. (UsbMsc has it.)
- `pdb.c:39`: the period is counted below 0 when a tick comes after the one that stopped the clock. `tilda_thread.c:333`: a first read that fails leaves two states of 0. (TildaButtons has both.)
- `CDCD.c:128`: the wait for a packet has a timeout for each piece, so that a slow host makes a write last as many times as long.
- `tilda_thread.c:364`: `mp_sched_schedule` refuses when its queue is full and nobody looks at the result: the change is not told again. (SoftReset has it.)
- `modutime.c:78`: the wake token of an event that happened before the call, of Ctrl-C or a pin, ends the next sleep at once. (SoftReset has it.)
- `tilda_buttons.c:68`: `enable_interrupt` is the only call with no test of the button's number, which indexes two tables.
- `mpmain-emf.c:162`: Ctrl-C raises the interrupt from the notification and also stays in the receive buffer, where the next read of the console finds it.
- `sound.c:227`: the ramps use `ui32Period`, fixed for 64 kHz at `SoundInit`, while the generator runs at the period of the call (475).
- `neopix.c:198`: when `malloc` fails the buffer is NULL with the old size: the next display of as many pixels writes through NULL. (Neopix has it.)
- `machine_uart.c:159`: `init()` of an object that is open opens the same port again, fails, and forgets the open handle. (Drivers has it.)
- `mpmain-emf.c:353`: the results of `f_open` and `f_write` are not looked at: on a full disk the file is empty and `boot.py` counts as present.
- `mpmain-emf.c:391`: the reset mode is cycled while the button is held and the mode decides whether the file system is erased.
- `storage.c:159`: block 0 is the partition table and the first partition starts at an offset. (FlashLayout's theorems cover the last block.)

Modules that are proved about have no RECURSIVE operator, name their
assumptions on the constants and state the inductive invariant as an operator
of the module, so that a run checks it too.

## 3. Modules and the code

`PROJECT.json` maps each definition to the lines it stands for. A step is the
code between two places where somebody else can get in. Definitions marked
`Variant:` are plausible slips in that code, each of which must break a
property; nothing in a specification uses them.

**FlashCache** (`machine_nvsbdev.c`). Clients (`mp`, `msc`) and the flush
thread each have a program counter; `CanRun` is the kernel's rule, strict
priorities with a switch to an equal priority only where a task blocks.
`Begin`, `Lookup` .. `Mark` are `flash_cache_get_addr` statement by statement
where it can be preempted (the number, the address and the flag of the cache are
separate stores), `CopyIn`/`CopyOut` the block copies, `SyncClean`, `SyncDirty`,
`PendTake`, `PendBlock` the ioctl. `FlushCheck` .. `FlushLoop` are the flush
thread, with the erase, each program step and the verification of `NVS_write` as
steps of their own under the driver's lock. `NvsFail`, `ReadFail` are failing
transfers, `PowerCycle` a power cut and the next start. Blocks are pairs of
sector and offset, which is what the two divisions of the code produce.
`image` is a history variable: the disk as its users see it. `breach` records
that something happened after which the code keeps no promise: two clients in
the cache at once (`overlap`), a SYNC that began with a token of another flush
at hand, or with a flush about to leave one (`stale_token`), a copy into the cache during the transfer of it
(`write_in_flush`), a failed read (`read_failed`). The safety properties are
stated up to the first breach; the run FlashBadSync and the properties
NoUnhandledError and SyncReturns say what happens after one.

**BlockDevice** is the promise: a disk of blocks, at most one sector of which is
being rewritten. A call names its block (`asked`), and a read returns the last
write to that block; a write changes that block; a sync leaves nothing open;
a power cut keeps all but the open sector. FlashCache implements it through the
mapping `disk <- image`, `media <- flash`, `open <-` the dirty sector and
`asked <-` the call whose copy or SYNC is outstanding (`Outstanding`).

**UsbStorage** (`storage.c:48-72, 224-266`, `SCMSC.c`). One action per statement
of Python's calls that touches shared state (the load of a handle and the call
that uses it are two), one per stretch of the daemon between two places where it
can block. Semaphores and mutexes are numbered because `storage_init` replaces
them; `held`, `token` are per object.

**UsbMsc** (`usbdmsc.c`) extends UsbStorage: the daemon's `ready` place is the
mailbox loop. `Post` is the interrupt callbacks (`2441-2518`), one action per
kind of event taken by the daemon and per continuation after a wait: `Obey` and
the commands of `USBDSCSICommand`, `SendNext`/`SendLast`/`StatusPhase` and
`ReceiveBlock`/`BlockWritten` the IN and OUT halves of `HandleEndpoints`,
`Disconnect`, `ConfigChange`, `Request`. `pipe` is the endpoint hardware and its
DMA, `host` a bulk-only host: legal commands, the data phase they announce, the
status, unplugging, and a reset after a timeout when the device says nothing.

**TildaButtons** (`pdb.c`, `tilda_thread.c:66-129, 332-378`). `Change` moves a
button and, when the line falls, runs `PDB_start` at once, also between any two
of the steps `TickLoad` .. `TickNotify` of the clock function. `Setup`, `Pend`,
`ReadTCA`, `Compare` are tildaThread, which runs only when the clock function
does not. Counters wrap modulo `WRAP`. The callbacks are assumed set for every
press and release; `told` is what they said.

**CdcSerial** (`CDCD.c`, `mpmain-emf.c:90-117`). One action per step of
`CDCD_sendData` and `CDCD_receiveData` between which the USB interrupt can get in:
the look at the state, the wait for the connection, the space, the write, the
wait for a packet. `Connect`, `Disconnect`, `Receive`, `Taken` are the handlers.
The text of a call is numbered from 1, so a byte says what its place is. `TxWrite`
writes all of what `TxSpace` counted: the interrupt makes room, never takes it.

**SerialLine** is the promise: a prefix of the text, in order; a call that
returns; the host's bytes in order, or nothing if there is none or no connection;
a connection empties both queues. CdcSerial implements it with `up <- state`,
`line <- txBuf`, `input <- rxBuf`, `call <-` length and count of the call.

**SoftReset** (`mpmain-emf.c:146-171, 486-671`, `modmachine.c`, `modutime.c`,
`machine_pin.c`, `tilda_thread.c:71-88, 359-378, 440-494`, `tilda_buttons.c`). `at`
is where the interpreter's thread is: in the program, at its look at the queue
and the pending exception, asleep, in one of the four stores of
`enable_interrupt`, or in one of the six steps from the end of a program to the
start of the next. `Event` is everything that gets in between: an edge of a pin
or of a joystick or menu line, a change tildaThread has read, Ctrl-C. A callback is
what it asked for and whether its heap is still there. A program is taken to
look at its queue after a sleep (the loop or the call around the sleep does),
and a look takes one callback; their order is the interpreter's and external.
`Semaphore_post(NULL)` is undefined and modelled as no effect.

**Sound** (`sound.c`, `modaudio.c`). The flags, the length, the offset and the step
of `g_sSoundState`; `RampUp`, `Interpolate`, `Fetch`, `RampDown` are the four parts
of the PWM interrupt. `alive` says whether MicroPython's heap still holds the
buffer. Samples and volume are left out.

**Neopix** (`neopix.c`). `display()` waits, allocates, fills and starts; the DMA reads
`frame_buffer` until `TransferDone`. `malloc` may fail, a pixel may be no int.

**Drivers** (`machine_uart.c`, `_pwm`, `_i2c`, `_spi`, `_adc`). One port of each
kind: whether it is open, whether the table has its handle, which UART objects
have it. An open that fails is an alternative of every open.

**StationLan** (`network_stalan.c`). `call` is the command that comes next in the
program's call, so that each command is a step after which the next may fail,
the device stop or power be lost. A command that fails has no effect. The device
joins (`DeviceJoins`) the network of the last `sl_WlanConnect` that no disconnect
has taken back (`joining`) or one of its own choice: a profile under the policy
auto, the network it was last on (`last`, kept through a power cut) under fast
connect. `asked` and `named` are history: the networks asked for with autoconnect,
and those named to any `connect()`.
`active(True)` on a device that answers as started does nothing whatever its
role, and its result is an uninitialised variable: it may go on or return.

**Peripherals** composes the four. A soft reset tears down the drivers of `machine`
and sweeps the heap; sound, frame and network go on.

**FlashLayout** (`storage.c`, `machine_nvsbdev.c:40-80, 153-198`) has no state: which blocks
are served, and in which sector and at which offset a block of the partition
lies, with the code's numbers.

**MC modules** give the tasks their priorities (MCFlashCache), the symmetry, and
the host's sets of commands (MCUsbMsc).

## 4. Runs

| run | question | distinct states |
|---|---|---|
| FlashSerial | Do both clients, the flush thread, a failing transfer and power cuts at every step keep the promise of BlockDevice, the durability of a SYNC that begins with no token at hand and the invariant of the proofs, up to the first breach? | 627 547 |
| FlashSync | In all executions of one client, breaches included: is a task without a handler hit by an exception only for the known reasons, and does a blocked SYNC return? | 218 052 |
| UsbLoan | Is the disk kept from Python while the host uses it, over five generations of the objects, does the proofs' invariant hold, and does an eject release `disable_usb`? | 48 489 |
| MscTransfer | One- and two-block transfers with unreadable blocks, refusals and resets: right place, right status, silence only where known? | 644 528 |
| MscControl | The commands without blocks against Python's calls: do the daemon and `storage.c` agree, and is every command answered? | 227 716 |
| MscLost | Hosts unplugged at any step: does the mailbox hold, is an old command obeyed again? | 1 169 582 |
| Buttons | Two buttons, the interrupt at any point of the clock function, a failing expander: every change told once, debounced, not forgotten? | 546 926 |
| Serial | A host that connects, takes packets, types and unplugs at any step of a write or read: does the port keep SerialLine's promise, drop text only when full, and hand over the connection's token? | 238 830 |
| Reset | Sessions one after the other with buttons, a pin, Ctrl-C and sleeps: what can be called, posted and slept over? | 402 104 |
| Devices | Sounds of every length and rate, frames, drivers that fail to open and a station whose commands fail: does hardware read what it was given, are ports released, is every sample played, do calls return, does the station join only what it was told to? | 521 855 |
| FlashBadSync, MscBadResync | findings, section 7 | |

Two steps of a claim are easily confused in FlashCache: FlashSerial restricts the
executions (`SoundSpec`), so what it shows of each property is what happens until
a breach; FlashSync does not.

Properties and what would break them:

- *SyncIsDurable*: a SYNC that begins with no clean token at hand, and with no flush
  about to leave one, returns only when flash and disk are equal: the stale token is
  the only way around it. What such a token does is FlashBadSync.
  *BlockDeviceSpec*: each read returns the last write to the block it asked for.
  *OnlyDirtySectorDiffers*: at any moment, in the middle of a flush too, a power
  cut costs the dirty sector at most. *CacheHoldsItsSector*: label and contents
  agree although set by separate stores. *FlushInPlace*: the transfer's address
  and the cache's label agree although read on their own by another task.
- *EnabledWhileInUse*: test and clear in `disable_usb` against an open in between.
- *WritesInPlace*, *ReadsInPlace*: a block goes to, and comes from, the address
  the command named for its position. *StatusIsTrue*: a status of success comes
  after all of the data, in both orders of DMA completion and packet.
  *OnlyKnownSilence*, *Answered*: where the host waits in vain.
  *TransferIsLent*: no transfer without an open drive. *NotObeyedTwice*:
  `g_pui8Command` is not obeyed from an empty endpoint after a refused command.
- *Debounced*, *ToldOnce*, *EveryChangeTold*, *ChangeIsRead*.
- *ArmedPinIsSafe*: why `gpioCallback` may post without a test: order of disable,
  delete and sweep. *SessionIsFresh*: no callback of a swept heap, but what a
  button schedules between `mp_init` and `tilda_init0`. *EventEndsSleep*: no wake-up
  is lost between the look at the queue and the pend. *CalledAsAsked*: callback
  and modes agree, but during a registration over another.
- *LineSpec*: all of SerialLine, the return of every call included.
  *GivesUpOnlyWhenFull*: stale tokens of `txComplete` do not cost text.
  *ConnectedToken*: state tested and token taken in two steps.
- *MemoryIsOwned*: interrupt and DMA against the program's next call.
  *WholeSoundPlayed*: a new sound only after the last sample. *PortsAreReleased*:
  what is open and what the teardown closes. *ConnectsAsAsked*: policy and profile
  of two different calls never together, and what a device left in fast connect
  goes back to was named to a `connect()`, or is where it was when the first one
  set the policy. *CallsReturn*: flags polled by the thread
  and cleared by interrupts.

The type of each component is a conjunct of its inductive invariant (`Inv`,
`LoanInv`, `MscInv`, `ButtonsInv`, `SerialInv`, `SessionInv`, `DevicesInv`), which
a run checks.

Deadlock is not checked where the system may stop: an exception in a task
without handler, `System_abort`, a heap that is full, a host that stays away, a
line that rests.

## 5. Bounds and fairness

| bound | why it is enough |
|---|---|
| FlashCache: 2 sectors, 1 or 2 blocks, 2 values, 2 clients | one sector in the cache and one that replaces it; one block written and one that must survive; old and new. The theorems hold for all. |
| `MaxFaults` | transfers that fail between two power cuts; one already ends in a breach or in a task without a handler. |
| UsbStorage `MaxObjects` = 5 (2 in UsbMsc) | a handle can be one generation old or more; the end of the heap is reached in both. |
| `MaxLBA`, `MaxBlocks` | first, middle and last event of a transfer differ from two blocks on; two addresses tell a wrong one. MscLost and MscControl use one block, as the position in the transfer is not their question. |
| `MaxMoves` = 1 | movements of the plug since the mailbox was last empty. A re-enumeration is four entries, the size of the mailbox; two of them overflow it, which section 7 notes, and with two a new host can fetch the late status of an old write, so the theorems about a host assume it too. |
| `FollowLost` | MscTransfer and MscControl stop where a host leaves in the middle of a command, because the next one meets a machine that is out of step (MscBadResync); MscLost goes on. So the runs check MscInv up to the step that finds the loss; what it says after that (`OutOfStep`) is proved. |
| `Ops` | commands of one run: those with blocks, or those without. |
| Buttons: `PRESS_TICKS` 2, `RELEASE_TICKS` 3, `PERIOD` 5, `WRAP` 16 | the code's 3, 12, 150 and 2^32 in their order; the wrapped count does not come back to 0 within a period. The theorems take any numbers of that kind. |
| Serial: `CAPACITY` 2, `PACKET` 2, `MAX_TEXT` 5 | a text longer than two buffers, a packet shorter than what waits; two characters tell an order. The code has 127, 64 and any. |
| Reset: `DEPTH` 2, one button of each kind | a queue with one callback of each kind, and a full one. `MICROPY_SCHEDULER_DEPTH` is 8. |
| Devices: `HalfPeriod` 2, `MaxBytes` 3, `MaxOffset` 2 | the ramp has a first and a last step (937 in the code); an odd length of 16-bit samples; `MaxOffset` is where the overrun of an empty buffer is cut off. |
| Devices: `MaxPixels` 1, two colours, two UART objects, two networks | a frame and a larger one; an old and a new one of each. |
| `uses` | a program with interrupts, with drivers or with the network: they share nothing but the thread, and the product of their states shows nothing more. |

Assumptions about the outside, in the modules' actions: the host sends legal
bulk-only commands; it is slower than a handler that does not wait for the flash
(`Settled`); a stall handshake is an event of its endpoint; the NVS driver has a
lock and `NVS_write` verifies, as its flags ask for.

Fairness, each from the scheduling:

- FlashCache: weak fairness of each client's step and of the flush thread's; a
  client blocked in SYNC frees the processor for the flush thread, and nothing
  makes a client call again. The 5 s timeout is not fair: a program that never
  blocks starves the flush thread of the same priority, and nothing is claimed
  of the periodic flush.
- UsbStorage: weak fairness of the daemon where it has begun something; strong
  fairness of Python, which gets the processor each time the daemon waits for
  the host. New calls and new commands are never forced.
- UsbMsc: weak fairness of the daemon, of a host that goes on with the command it
  has begun (an assumption about it), strong fairness of Python.
- TildaButtons: weak fairness of the clock function while the clock runs; strong
  fairness of tildaThread, which the clock function interrupts again and again
  but never for a whole tick.
- CdcSerial: weak fairness of the thread inside a call: every wait in one has a
  timeout.
- Peripherals: weak fairness of the PWM and timer interrupts while they are enabled,
  and of a call that can go on.

## 6. Proofs

All theorems are of the specifications the runs check, for every value of the
constants that satisfies `ConstAssumption`, `MaxObjectsAssumption`,
`MscAssumption`, `OpsAssumption`, `ButtonsAssumption`, `CdcAssumption`,
`ResetAssumption`, `SoundAssumption`, `NeopixAssumption` or `NetworksAssumption`, which TLC evaluates on
the instances. Where a theorem assumes more it says so in its `ASSUME`: those
about a host of the mass storage device take `MaxMoves <= 1`.

**FlashCacheProofs.** `TypeCorrect` and `ErrorsHaveAKnownCause` hold in all
executions; the second needs to know who owns the driver's lock and that what has
been verified equals the cache until a copy breaks it (`NvsInv`).
`InvariantHolds` is the inductive `Inv`. No single property is inductive: that the
cache holds its sector depends on where each client is between the read and the
stores of number and address, on no client being in there while the flush
thread is in the transfer, and on the meaning of the two tokens; `Inv` is the
conjunction of these, each up to the first breach, so a step has to preserve it
only when it causes none. `CacheIsRight`, `OneSectorAtRisk`, `FlushStaysInPlace`
follow. `SyncDurable` is an action property from the invariant before the step; it
rests on the part `TokenInv`, that while a client is in SYNC with the cache dirty there
is no clean token to take and no flush about to post one (`ClientToken`, `FlushToken`,
`BeginToken`). `ImplementsBlockDevice` maps each step of FlashCache to a
step or a stutter of BlockDevice (`SoundSpec => BlockDeviceSpec`): `BeginDevice` for
the call, whose block stays the one asked for until its copy (`AskedStays`,
`AskedEnds`), one lemma for the other steps of the clients, one for the flush thread,
one for power.

**UsbStorageProofs.** `LoanInv`: Python holds the mutex it has locked wherever its call is, the
mutex it has loaded is never newer than the current one, and drive and flags
agree whatever the daemon is doing. Without the first two, a test of
`usb_in_use` that passed says nothing about the step that clears the loan. From it
`LoanKept`, `DriveAgreed`, `ClearingExclusive`.

**UsbMscProofs.** In two layers. The first is `DeviceInv`, which holds whatever
the hosts do: besides the types and `LoanInv`, the handler that waits is the one
its SCSI state allows (`JobInv`), a transfer stays within the disk (`RangeInv`),
only a disconnection takes the drive from a transfer (`MediaInv`), and the host
has got no further than its command is long (`HostInv`). `BlocksAreLent` follows
from it. The second, in `MscInv`, is `InStep`: until a host is lost in a command
(`Together`), machine, endpoints, DMA, mailbox and host are in one of eight phases
(`Quiet`, `Sent`, `Obeyed`, `Sending`, `Receiving`, `Ending`, `Reporting`,
`Stalled`), each of which says which events may be in the mailbox and how the
blocks counted by the two sides differ. That difference is what no property says
alone: a block sent and not yet fetched, or come and not yet written, is between
the machine's `left` and the host's `done`. A host that is unplugged leaves its
phase behind with the disconnection after it (`Queued`), so the daemon's steps are
proved once for both. One lemma per action says which phase it leads to.

The daemon finds a loss in two handlers (`Loses`): a disconnection or a reset that
it takes with a command still in the machine. From there on the machine is
`OutOfStep`: alone (`Away`), or with a next host that enumerates it
(`Enumerating`), has sent a command that waits in the mailbox (`Unheard`), or has
had the event of that command ignored, or taken for a block (`Ignored`). In all of
them the command stays in the OUT endpoint, so there is no second OUT event, and
IN events come only from the packets of the lost transfer (`DmaOfTransfer`), one
at a time.
The longest queue is therefore an enumeration, a command and that packet, four
entries, and with it in the mailbox nothing is posted (`LongestIsLast`): its
configuration has been the plug's one movement (`Configured`). A machine whose
lost command ends meanwhile is in IDLE with a command that it will not look at;
the two are together again when that host has left too.

From the first part follow `WritesAreInPlace`, `ReadsAreInPlace`,
`StatusesAreTrue`, `SilenceIsKnown`, which claim nothing after a loss, because
nothing of the kind is true there (MscBadResync); from both `MailFits`, which is
NoOverflow for a mailbox of four entries or more, and `ObeyedOnce`, which is
NotObeyedTwice. `MaxMoves <= 1` is necessary: with two movements of the plug a
write that waits for the flash sends its status to the next host, and two
enumerations overflow the mailbox.

**TildaButtonsProofs.** `ButtonsInv`: what has been told, wherever the thread is
(`ToldInv`); the period (`PeriodInv`); and, while the line is low, that the count
and the looks that saw it low add up to `RELEASE_TICKS`, before and after the
clock function stores the count it has in hand (`CountInv`, up to an edge inside
the clock function). `Debounced` is not inductive without the last part.

**FlashLayout.** `BlockFits`, `PlacesAreApart`, `EveryPlaceIsUsed`: a block of the partition
lies within one of the 256 sectors, no two share a byte and together they fill
the flash, with `PlaceIs` and `SectorIsQuotient` (the search over sectors is a
division) below them. `PartitionIsServed`: every block of the partition, the last
one too, and only those and block 0 are served. No run: there are no states.

**CdcSerialProofs.** `SerialInv` adds to the type and to ConnectedToken what the
variables of a call mean outside of it (`CallInv`) and that the space seen before
a write is still there (`SpaceInv`): the interrupt between the two only takes
characters away or empties the buffer, and where `txData` waits it has found the
buffer full or a token or a connection has come since. `GivesUpOnlyWhenFull`
depends on the latter. `ImplementsSerialLine` is the safety of LineSpec: every
step is a step of SerialLine or a stutter, for buffers, packets and texts of any
length.

**SoftResetProofs.** `SessionInv` has four parts besides the types. `PinInv`: the
semaphore exists but between teardown and set-up, and a pin's function is on the
line only while `irq_in_use` tells the teardown to take it off; without the second
nothing says that the deletion comes after the last edge. `QueueInv`: from
`mp_init` on the queue holds nothing of the swept heap but what is marked early, and
what is unseen is in it. `WakeInv`: from `mp_init` on, until the thread looks, what is
unseen has left a token; it must hold in the program, not only in the sleep.
`ModesInv`: what each of the four stores of `enable_interrupt` has reached. A queue of
any depth is covered, the one that is full and refuses included. `PinIsSafe`,
`SessionsAreFresh`, `NoLostWakeUp` and `CallsAreAskedFor` follow.

**PeripheralsProofs.** `DevicesInv` is the conjunction of one invariant for each
device. `SoundInv`: the interrupt is enabled exactly from start to the end of the
ramp, what has been read is what the offset says, and all of it has been read when
the ramp down begins. `NeopixInv`: `display()` touches the block only when no
transfer is in progress, and its size is what it says. `DriversInv`: an object has
a handle only of a port that the table knows. `StationInv`: while `connect()`
changes the profiles the device does not look at them, so that a command that
fails there, or a power cut, leaves no profile to join: the policy is fast
connect, and the device goes back to its last network. That one, and the one it is
told to join, are named from the first policy on (`ChoiceIsNamed`). The soft reset is a step of its own in
each: it may sweep the heap under a sound, never under one a `play` waits for.

Only model-checked: the liveness properties (SyncReturns, EjectReleasesPython,
Answered, ChangeIsRead, CallsReturn, the fairness of LineSpec), which the prover
does not do. Every invariant and every action property of the runs is proved.

## 7. Findings and observations

Each has a run in which TLC shows the execution.

- **FlashBadSync** (`machine_nvsbdev.c:145`): a token left by the periodic flush
  lets a later SYNC return with its block only in RAM.
- **MscBadResync** (`usbdmsc.c:653`): a host lost in the middle of a WRITE leaves
  RECEIVE_BLOCKS behind, and the next host's command is written to the disk.
Known and in the models, without a run of their own, because no text of the
repository says otherwise:

- `machine_nvsbdev.c:213`: `flash_flags = 0` forgets a block copied into the cache
  after the transfer was verified. `machine_nvsbdev.c:206`: after a stale token the client
  refills the cache while the flush thread is about to write it, and one sector
  goes over another. Both are breaches of FlashCache.
- `pdb.c:55`: the count is 0 after a change and wraps when the level is back by the
  next look; the high level is then never registered.
- `tilda_thread.c:87`: the joystick and menu interrupts outlive a soft reset and post
  a semaphore that is not there between teardown and set-up.
- `tilda_thread.c:364, 448`: the two exceptions named by SessionIsFresh and CalledAsAsked.
- `machine_pin.c:258`: `Pin.irq` does not look at its trigger; any edge interrupts.
- `sound.c:483`: a call refused for its depth leaves its rate flag set, and the driver
  is busy for ever after. `sound.c:326`: a buffer without a sample is read past its end for ever, and
  `play` with it waits for ever; a wav file shorter than its header is one of nearly
  2^32 bytes. 64 kHz is documented and refused. The last sample is read and not
  heard. The first sound sets the volume to 255 again (382).
- `modaudio.c:87`: a sound started with `wait=False` is read from a buffer the heap may have
  collected; MemoryIsOwned claims it only for a `play` that waits.
- `neopix.c:109`: a second object stops the transfer in progress, and the next display
  waits for ever. `neopix.c:240`: `destroy` frees the buffer under the DMA.
- `machine_uart.c:203`: `deinit` leaves the table entry, and the soft reset closes the handle
  again. Any use of an object whose port did not open is a use of NULL.
- `network_stalan.c:201`: a `connect()` that fails after this command leaves fast connect:
  the device joins the network it was last on again, although no call asked for
  autoconnect, and does so after every start until a later call succeeds.
- `network_stalan.c:64`: a device started as an access point stays one after `active(True)`.
  `ifconfig` ignores what fails.

Seen in the USB device: LOAD opens a drive only when one is present
(`usbdmsc.c:2155-2160`), so nothing reopens an ejected one; the status of a
refused WRITE is not sent (`1897-1919` against `592-600`); after a command with
data out that the device does not know, the event of the stall obeys the
command left in the buffer again (`715-738`, `2417`); two re-enumerations during
one wait for the flash overflow the mailbox (`2466`). The first three are in the
model: `NeverAnswered` names the commands left without status and
`NotObeyedTwice` the one obeyed again. The last is one reason why `MaxMoves` is 1; the
other is that a write still waiting for the flash answers the next host.

## 8. What is not covered

- In the modelled components: the Python objects of `storage.c`, descriptors, responses
  and sense data of `usbdmsc.c`, its composite events (`HandleDevice`), its branch
  for packets that are no command block, and transfers of zero blocks; `PDB_stop`
  and `PDB_delete`, which nothing calls; reading and writing a pin; what a
  transfer of I2C, SPI, UART or ADC moves.
- The first files and the reset mode: section 2. The start of the tasks: `main`
  creates them before the kernel runs, and nothing races.
- Not worth a model: wrappers that pass their arguments to one driver call (RTC,
  EEPROM, LEDs, sensors, `os`, sockets);
  the CC3120 update, a straight sequence on an external device; board and kernel
  set-up, of which the models take the priorities; vendored graphics; files that
  are not in the EMF3 build (`mpmain.c`, `usb.c`, `usbd_*.c`, `machine_sd.c`);
  scripts run by hand.
- External, modelled from their use: the kernel's scheduling, semaphores,
  mutexes and mailbox; the NVS driver; the USB library and its DMA; the host;
  the TCA9555; the CC3120; the PWM, timer and DMA hardware; MicroPython's scheduler
  queue and heap; usblib's ring buffer.

## Reproducing

```
tlc -workers 2 -config FlashSerial.cfg MCFlashCache     # and so on, per section 4
tlapm FlashCacheProofs.tla
tlapm UsbStorageProofs.tla
tlapm UsbMscProofs.tla
tlapm TildaButtonsProofs.tla
tlapm CdcSerialProofs.tla
tlapm FlashLayout.tla
tlapm SoftResetProofs.tla
tlapm PeripheralsProofs.tla
```

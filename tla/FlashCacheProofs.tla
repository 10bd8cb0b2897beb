------------------------- MODULE FlashCacheProofs -------------------------
(***************************************************************************)
(* Proofs about FlashCache for any clients, sectors, blocks and data.      *)
(***************************************************************************)
EXTENDS FlashCache, TLAPS

TypeInv == TypeOK /\ CallInv

\* Moving one task keeps the types of pc and onCpu.
LEMMA GotoClient ==
    ASSUME TypeOK, NEW c \in Clients, NEW l \in ClientLabels, Goto(c, l)
    PROVE  /\ pc' \in [Tasks -> ClientLabels \cup FlushLabels]
           /\ \A d \in Clients : pc'[d] = IF d = c THEN l ELSE pc[d]
           /\ \A d \in Clients : pc'[d] \in ClientLabels
           /\ pc'[Flusher] = pc[Flusher] /\ pc'[Flusher] \in FlushLabels
           /\ onCpu' \in SUBSET Tasks
  BY ConstAssumption DEF TypeOK, Goto, Tasks

LEMMA GotoFlusher ==
    ASSUME TypeOK, NEW l \in FlushLabels, Goto(Flusher, l)
    PROVE  /\ pc' \in [Tasks -> ClientLabels \cup FlushLabels]
           /\ \A d \in Clients : pc'[d] = pc[d] /\ pc'[d] \in ClientLabels
           /\ pc'[Flusher] = l
           /\ onCpu' \in SUBSET Tasks
  BY ConstAssumption DEF TypeOK, Goto, Tasks

\* The same when a semaphore post moves a client and the flush thread at once.
LEMMA TwoMoves ==
    ASSUME TypeOK, NEW c \in Clients, NEW k \in ClientLabels, NEW l \in FlushLabels,
           pc' = [pc EXCEPT ![c] = k, ![Flusher] = l]
    PROVE  /\ pc' \in [Tasks -> ClientLabels \cup FlushLabels]
           /\ \A d \in Clients : pc'[d] = IF d = c THEN k ELSE pc[d]
           /\ pc'[Flusher] = l
  <1> DEFINE mid == [pc EXCEPT ![c] = k]
  <1>1. /\ mid \in [Tasks -> ClientLabels \cup FlushLabels]
        /\ \A x \in Tasks : mid[x] = IF x = c THEN k ELSE pc[x]
    BY DEF TypeOK, Tasks
  <1>2. pc' = [mid EXCEPT ![Flusher] = l]
    OBVIOUS
  <1> HIDE DEF mid
  <1> QED
    BY <1>1, <1>2, ConstAssumption DEF Tasks

\* After a boot every client is idle and the flush thread starts its loop.
LEMMA InitType == Init => TypeInv
  <1> SUFFICES ASSUME Init PROVE TypeInv
    OBVIOUS
  <1>1. pc \in [Tasks -> ClientLabels \cup FlushLabels]
    BY DEF Init, RamAfterBoot, ClientLabels, FlushLabels
  <1>2. (\A c \in Clients : pc[c] = "idle") /\ pc[Flusher] = "check"
    BY ConstAssumption DEF Init, RamAfterBoot, Tasks
  <1>3. req \in [Clients -> Requests] /\ result \in [Clients -> Results]
    BY DEF Init, RamAfterBoot, NoCall, Requests, Results
  <1>4. cacheMem \in [Offsets -> Contents]
    BY DEF Init, RamAfterBoot, Contents
  <1>5. /\ flash \in Image /\ image \in Image
        /\ cacheId = NoSector /\ cacheStart \in Sectors /\ target = NoSector
        /\ dirty \in BOOLEAN /\ fatal \in BOOLEAN
        /\ cacheSem = 0 /\ cleanSem = 0
        /\ done = {} /\ nvsOwner = Nobody /\ onCpu = {} /\ faults = 0 /\ breach = {}
    BY DEF Init, RamAfterBoot
  <1>6. CallInv
    BY <1>2 DEF CallInv
  <1>7. TypeOK
    BY ConstAssumption, <1>1, <1>2, <1>3, <1>4, <1>5
    DEF TypeOK, ClientLabels, FlushLabels
  <1> QED
    BY <1>6, <1>7 DEF TypeInv

LEMMA PowerCycleInit == TypeInv /\ PowerCycle => Init'
  BY DEF TypeInv, TypeOK, PowerCycle, Init, RamAfterBoot

LEMMA BeginType ==
    ASSUME TypeInv, NEW c \in Clients, NEW r \in Requests, Begin(c, r)
    PROVE  TypeInv'
  <1>1. (IF r.op = "sync" THEN "sync" ELSE "lookup") \in ClientLabels
    BY DEF ClientLabels
  <1>2. TypeOK'
    BY GotoClient, <1>1
    DEF TypeInv, TypeOK, Begin, Results, Breaches, cacheVars, semVars, nvsVars
  <1>3. CallInv'
    BY GotoClient, <1>1
    DEF TypeInv, TypeOK, CallInv, Begin, nvsVars
  <1> QED
    BY <1>2, <1>3 DEF TypeInv

LEMMA ClientType ==
    ASSUME TypeInv, NEW c \in Clients, ClientStep(c)
    PROVE  TypeInv'
  <1> USE DEF TypeInv, cacheVars, semVars, callVars, history, nvsVars
  <1>a. /\ AfterSync(c) \in {"idle", "load"} /\ AfterSync(c) \in ClientLabels
        /\ AfterSync(c) = "load" => req[c].op # "sync"
    BY DEF AfterSync, ClientLabels
  <1>b. SyncResult(c) => result' \in [Clients -> Results]
    BY DEF SyncResult, TypeOK, Results
  <1>1. CASE Lookup(c)
    <2>1. req[c].op # "sync"
      BY <1>1 DEF Lookup, CallInv
    <2>2. (IF cacheId # req[c].sec THEN "sync" ELSE "mark") \in ClientLabels
      BY DEF ClientLabels
    <2>3. TypeOK'
      BY <1>1, <2>2, GotoClient DEF Lookup, TypeOK
    <2> QED
      BY <1>1, <2>1, <2>2, <2>3, GotoClient DEF Lookup, TypeOK, CallInv
  <1>2. CASE SyncClean(c)
    <2>1. TypeOK'
      BY <1>2, <1>a, <1>b, GotoClient DEF SyncClean, TypeOK
    <2> QED
      BY <1>2, <1>a, <2>1, GotoClient DEF SyncClean, TypeOK, CallInv
  <1>3. CASE SyncDirty(c)
    <2>1. /\ pc' \in [Tasks -> ClientLabels \cup FlushLabels]
          /\ \A d \in Clients : pc'[d] = IF d = c THEN "pend" ELSE pc[d]
          /\ pc'[Flusher] \in {pc[Flusher], "check"}
      BY <1>3, ConstAssumption DEF SyncDirty, TypeOK, Tasks, ClientLabels, FlushLabels
    <2>2. cacheSem' \in {0, 1} /\ onCpu' \in SUBSET Tasks
      BY <1>3 DEF SyncDirty, TypeOK, Tasks
    <2>3. TypeOK'
      BY <1>3, <2>1, <2>2 DEF SyncDirty, TypeOK, ClientLabels, FlushLabels, Breaches
    <2> QED
      BY <1>3, <2>1, <2>3 DEF SyncDirty, CallInv
  <1>4. CASE PendTake(c)
    <2>1. breach' \in SUBSET Breaches
      BY <1>4 DEF PendTake, TypeOK, Breaches
    <2>2. TypeOK'
      BY <1>4, <1>a, <1>b, <2>1, GotoClient DEF PendTake, TypeOK
    <2> QED
      BY <1>4, <1>a, <2>2, GotoClient DEF PendTake, TypeOK, CallInv
  <1>5. CASE PendBlock(c)
    <2>1. TypeOK'
      BY <1>5, GotoClient DEF PendBlock, TypeOK, ClientLabels
    <2> QED
      BY <1>5, <2>1, GotoClient DEF PendBlock, TypeOK, CallInv, ClientLabels
  <1>6. CASE ReadBegin(c)
    <2>1. TypeOK'
      BY <1>6, GotoClient DEF ReadBegin, TypeOK, ClientLabels, Tasks
    <2> QED
      BY <1>6, <2>1, GotoClient DEF ReadBegin, TypeOK, CallInv, ClientLabels
  <1>7. CASE ReadEnd(c)
    <2>1. req[c].sec \in Sectors
      BY <1>7 DEF ReadEnd, TypeOK, CallInv, Requests
    <2>2. TypeOK'
      BY <1>7, <2>1, GotoClient DEF ReadEnd, TypeOK, ClientLabels, Image
    <2> QED
      BY <1>7, <2>2, GotoClient DEF ReadEnd, TypeOK, CallInv, ClientLabels
  <1>8. CASE ReadFail(c)
    <2>1. req[c].sec \in Sectors
      BY <1>8 DEF ReadFail, TypeOK, CallInv, Requests
    <2>2. cacheMem' \in [Offsets -> Contents]
      BY <1>8, <2>1 DEF ReadFail, TypeOK, Image
    <2>3. /\ breach' \in SUBSET Breaches /\ faults' \in 0..MaxFaults
          /\ fatal' \in BOOLEAN
      BY <1>8, ConstAssumption DEF ReadFail, TypeOK, Breaches
    <2>4. req' \in [Clients -> Requests] /\ result' \in [Clients -> Results]
      BY <1>8 DEF ReadFail, Return, TypeOK, Requests, NoCall, Results
    <2>5. Goto(c, "idle") /\ "idle" \in ClientLabels
      BY <1>8 DEF ReadFail, Return, ClientLabels
    <2>6. TypeOK'
      BY <1>8, <2>2, <2>3, <2>4, <2>5, GotoClient DEF ReadFail, TypeOK
    <2> QED
      BY <1>8, <2>5, <2>6, GotoClient DEF ReadFail, Return, TypeOK, CallInv
  <1>9. CASE SetId(c) \/ SetStart(c) \/ Mark(c)
    <2>1. req[c].sec \in Sectors /\ req[c].op # "sync"
      BY <1>9 DEF SetId, SetStart, Mark, TypeOK, CallInv, Requests
    <2>2. PICK l \in {"setstart", "mark", "copy"} : Goto(c, l)
      BY <1>9 DEF SetId, SetStart, Mark
    <2>3. dirty' \in BOOLEAN
      BY <1>9 DEF SetId, SetStart, Mark, TypeOK
    <2>4. TypeOK'
      BY <1>9, <2>1, <2>2, <2>3, GotoClient
      DEF SetId, SetStart, Mark, TypeOK, ClientLabels
    <2> QED
      BY <1>9, <2>1, <2>2, <2>4, GotoClient
      DEF SetId, SetStart, Mark, TypeOK, CallInv, ClientLabels
  <1>10. CASE CopyOut(c) \/ CopyIn(c)
    <2>1. /\ req[c].sec \in Sectors /\ req[c].off \in Offsets
          /\ req[c].op = "write" => req[c].val \in Data
      BY <1>10 DEF CopyOut, CopyIn, TypeOK, CallInv, Requests
    <2>2. cacheMem' \in [Offsets -> Contents] /\ image' \in Image
      <3>1. CASE CopyOut(c)
        BY <3>1 DEF CopyOut, TypeOK
      <3>2. CASE CopyIn(c)
        BY <3>2, <2>1 DEF CopyIn, TypeOK, Contents, Image
      <3> QED
        BY <1>10, <3>1, <3>2
    <2>3. PICK v \in Results : Return(c, v)
      BY <1>10, <2>1 DEF CopyOut, CopyIn, TypeOK, Results
    <2>4. req' \in [Clients -> Requests] /\ result' \in [Clients -> Results]
      BY <2>3 DEF Return, TypeOK, Requests, NoCall
    <2>5. Goto(c, "idle") /\ "idle" \in ClientLabels
      BY <2>3 DEF Return, ClientLabels
    <2>6. breach' \in SUBSET Breaches
      BY <1>10 DEF CopyOut, CopyIn, TypeOK, Breaches
    <2>7. TypeOK'
      BY <1>10, <2>2, <2>4, <2>5, <2>6, GotoClient DEF CopyOut, CopyIn, TypeOK
    <2> QED
      BY <1>10, <2>3, <2>5, <2>7, GotoClient
      DEF CopyOut, CopyIn, Return, TypeOK, CallInv
  <1> QED
    BY <1>1, <1>2, <1>3, <1>4, <1>5, <1>6, <1>7, <1>8, <1>9, <1>10
    DEF ClientStep
LEMMA FlushType ==
    ASSUME TypeInv, FlushStep \/ FlushTimeout
    PROVE  TypeInv'
  <1> USE DEF TypeInv, cacheVars, semVars, callVars, history, nvsVars
  <1>1. CASE FlushCheck \/ FlushClear \/ FlushLoop \/ FlushTimeout
    <2>1. PICK l \in {"args", "loop", "post", "check", "sleep"} : Goto(Flusher, l)
      BY <1>1 DEF FlushCheck, FlushClear, FlushLoop, FlushTimeout
    <2>2. dirty' \in BOOLEAN
      BY <1>1 DEF FlushCheck, FlushClear, FlushLoop, FlushTimeout, TypeOK
    <2>3. cacheSem' \in {0, 1}
      BY <1>1 DEF FlushCheck, FlushClear, FlushLoop, FlushTimeout, TypeOK
    <2>4. TypeOK'
      BY <1>1, <2>1, <2>2, <2>3, GotoFlusher
      DEF FlushCheck, FlushClear, FlushLoop, FlushTimeout, TypeOK, FlushLabels
    <2> QED
      BY <1>1, <2>1, <2>4, GotoFlusher
      DEF FlushCheck, FlushClear, FlushLoop, FlushTimeout, CallInv, FlushLabels
  <1>2. CASE FlushArgs
    <2>1. TypeOK'
      BY <1>2, GotoFlusher DEF FlushArgs, TypeOK, FlushLabels
    <2> QED
      BY <1>2, <2>1, GotoFlusher DEF FlushArgs, TypeOK, CallInv, FlushLabels
  <1>3. CASE NvsErase
    <2>1. flash' \in Image
      BY <1>3 DEF NvsErase, TypeOK, Image, Contents
    <2>2. TypeOK'
      BY <1>3, <2>1, GotoFlusher DEF NvsErase, TypeOK, FlushLabels, Tasks
    <2> QED
      BY <1>3, <2>2, GotoFlusher DEF NvsErase, CallInv, FlushLabels
  <1>4. ASSUME NEW o \in Offsets, NvsProgram(o) PROVE TypeInv'
    <2>1. PICK l \in {"verify", "program"} : Goto(Flusher, l)
      BY <1>4 DEF NvsProgram
    <2>2. flash' \in Image /\ done' \in SUBSET Offsets
      BY <1>4 DEF NvsProgram, TypeOK, Image
    <2>3. TypeOK'
      BY <1>4, <2>1, <2>2, GotoFlusher DEF NvsProgram, TypeOK, FlushLabels
    <2> QED
      BY <1>4, <2>1, <2>3, GotoFlusher DEF NvsProgram, CallInv, FlushLabels
  <1>5. ASSUME NEW o \in Offsets, NvsVerify(o) PROVE TypeInv'
    <2>1. PICK l \in {"clear", "verify"} :
            Goto(Flusher, l) /\ (l = "verify" => target' = target)
      BY <1>5 DEF NvsVerify
    <2>2. /\ done' \in SUBSET Offsets /\ nvsOwner' \in Tasks \cup {Nobody}
          /\ target' \in Sectors \cup {NoSector}
      BY <1>5 DEF NvsVerify, TypeOK
    <2>3. TypeOK'
      BY <1>5, <2>1, <2>2, GotoFlusher DEF NvsVerify, TypeOK, FlushLabels
    <2> QED
      BY <1>5, <2>1, <2>3, GotoFlusher DEF NvsVerify, CallInv, FlushLabels
  <1>6. CASE NvsFail
    <2>1. faults' \in 0..MaxFaults /\ fatal' \in BOOLEAN
      BY <1>6, ConstAssumption DEF NvsFail, TypeOK
    <2> QED
      BY <1>6, <2>1 DEF NvsFail, TypeOK, CallInv
  <1>7. CASE FlushPost
    <2>1. /\ pc' \in [Tasks -> ClientLabels \cup FlushLabels]
          /\ pc'[Flusher] = "loop"
          /\ \A c \in Clients :
               \/ pc'[c] = pc[c]
               \/ pc'[c] = "idle"
               \/ pc'[c] = "load" /\ req[c].op # "sync"
      <3>1. \A c \in Clients :
              /\ AfterSync(c) \in {"idle", "load"}
              /\ AfterSync(c) = "load" => req[c].op # "sync"
        BY DEF AfterSync
      <3>2. "loop" \in FlushLabels /\ "idle" \in ClientLabels /\ "load" \in ClientLabels
        BY DEF FlushLabels, ClientLabels
      <3>3. ASSUME NEW c \in Clients,
                   pc' = [pc EXCEPT ![c] = AfterSync(c), ![Flusher] = "loop"]
            PROVE  /\ pc' \in [Tasks -> ClientLabels \cup FlushLabels]
                   /\ pc'[Flusher] = "loop"
                   /\ \A d \in Clients : pc'[d] = IF d = c THEN AfterSync(c) ELSE pc[d]
        <4>1. AfterSync(c) \in ClientLabels
          BY <3>1, <3>2
        <4>2. TypeOK /\ "loop" \in FlushLabels
          BY <3>2
        <4> QED
          BY ONLY <3>3, <4>1, <4>2, TwoMoves, ZenonT(60)
      <3>4. CASE pc' = [pc EXCEPT ![Flusher] = "loop"]
        BY <1>7, <3>2, <3>4, GotoFlusher DEF Goto, FlushPost, Ready, Blocking
      <3> QED
        BY <1>7, <3>1, <3>3, <3>4 DEF FlushPost
    <2>2. result' \in [Clients -> Results]
      BY <1>7 DEF FlushPost, SyncResult, TypeOK, Results
    <2>3. /\ onCpu' \in SUBSET Tasks /\ breach' \in SUBSET Breaches
          /\ cleanSem' \in {0, 1}
      BY <1>7 DEF FlushPost, TypeOK, Tasks, Breaches
    <2>4. TypeOK'
      BY <1>7, <2>1, <2>2, <2>3
      DEF FlushPost, TypeOK, ClientLabels, FlushLabels
    <2> QED
      BY <1>7, <2>1, <2>4 DEF FlushPost, CallInv
  <1> QED
    BY <1>1, <1>2, <1>3, <1>4, <1>5, <1>6, <1>7 DEF FlushStep

\* Every variable of the cache keeps its type in every execution, breaches,
\* failing transfers and power cuts included.
THEOREM TypeCorrect == Spec => []TypeOK
  <1>1. Init => TypeInv
    BY InitType
  <1>2. Init' => TypeInv'
    BY <1>1, PTL
  <1>3. TypeInv /\ [Next]_vars => TypeInv'
    <2> SUFFICES ASSUME TypeInv, [Next]_vars PROVE TypeInv'
      OBVIOUS
    <2>1. CASE UNCHANGED vars
      BY <2>1 DEF TypeInv, TypeOK, CallInv, vars
    <2>2. CASE Next
      BY <2>2, <1>2, PowerCycleInit, BeginType, ClientType, FlushType DEF Next
    <2> QED
      BY <2>1, <2>2
  <1> QED
    BY <1>1, <1>3, PTL DEF Spec, TypeInv
---------------------------------------------------------------------------
(* The driver's lock keeps reads of the chip out of the flush, so that only *)
(* a client's copy can make the verification differ.                       *)

NvsInv == LockInv /\ WriteBackInv /\ NoUnhandledError

Programming(l) == l \in {"program", "verify"}

\* A step that leaves the transfer of the flush thread and the lock alone.
Quiet ==
    /\ UNCHANGED <<nvsOwner, fatal, faults>> /\ breach \subseteq breach'
    /\ \A c \in Clients : pc'[c] = "reading" <=> pc[c] = "reading"
    /\ \/ /\ UNCHANGED <<flash, target, done, cacheMem>>
          /\ pc'[Flusher] = pc[Flusher]
       \/ ~Programming(pc[Flusher]) /\ ~Programming(pc'[Flusher])

LEMMA QuietKeepsNvs ==
    ASSUME TypeInv, NvsInv, ~fatal, Quiet
    PROVE  NvsInv'
  <1>1. LockInv'
    BY DEF NvsInv, LockInv, Quiet, Programming
  <1>2. WriteBackInv'
    BY DEF NvsInv, WriteBackInv, Quiet, Programming
  <1>3. NoUnhandledError'
    BY DEF NvsInv, NoUnhandledError, Quiet
  <1> QED
    BY <1>1, <1>2, <1>3 DEF NvsInv

LEMMA BeginQuiet ==
    ASSUME TypeInv, NEW c \in Clients, NEW r \in Requests, Begin(c, r)
    PROVE  Quiet /\ ~fatal
  <1>1. PICK l \in {"sync", "lookup"} : Goto(c, l)
    BY DEF Begin
  <1>2. l \in ClientLabels
    BY <1>1 DEF ClientLabels
  <1> QED
    BY <1>1, <1>2, GotoClient DEF TypeInv, Begin, CanRun, Quiet, cacheVars, nvsVars

LEMMA ClientNvs ==
    ASSUME TypeInv, NvsInv, NEW c \in Clients, ClientStep(c)
    PROVE  NvsInv'
  <1> USE DEF cacheVars, semVars, callVars, history, nvsVars
  <1>1. TypeOK /\ ~fatal
    BY DEF TypeInv, ClientStep, Lookup, SyncClean, SyncDirty, PendTake, PendBlock,
           ReadBegin, ReadEnd, ReadFail, SetId, SetStart, Mark, CopyOut, CopyIn, CanRun
  <1>2. AfterSync(c) \in {"idle", "load"}
    BY DEF AfterSync
  <1>3. CASE Lookup(c) \/ SyncClean(c) \/ PendTake(c) \/ PendBlock(c)
             \/ SetId(c) \/ SetStart(c) \/ Mark(c) \/ CopyOut(c)
    <2>1. PICK l \in {"sync", "mark", "idle", "load", "wait", "setstart", "copy"} :
            Goto(c, l)
      BY <1>2, <1>3 DEF Lookup, SyncClean, PendTake, PendBlock, SetId, SetStart,
                        Mark, CopyOut, Return
    <2>2. l \in ClientLabels
      BY <2>1 DEF ClientLabels
    <2>3. pc[c] # "reading" /\ breach \subseteq breach'
      BY <1>3 DEF Lookup, SyncClean, PendTake, PendBlock, SetId, SetStart, Mark, CopyOut
    <2>4. UNCHANGED <<flash, target, done, cacheMem, nvsOwner, fatal, faults>>
      BY <1>3 DEF Lookup, SyncClean, PendTake, PendBlock, SetId, SetStart, Mark, CopyOut
    <2>5. Quiet
      BY <1>1, <2>1, <2>2, <2>3, <2>4, GotoClient DEF Quiet
    <2> QED
      BY <1>1, <2>5, QuietKeepsNvs
  <1>4. CASE SyncDirty(c)
    <2>1. Quiet
      BY <1>1, <1>4, ConstAssumption DEF SyncDirty, Quiet, TypeOK, Tasks, Programming
    <2> QED
      BY <1>1, <2>1, QuietKeepsNvs
  <1>5. CASE ReadBegin(c)
    <2>1. Goto(c, "reading") /\ "reading" \in ClientLabels /\ nvsOwner = Nobody /\ nvsOwner' = c
      BY <1>5 DEF ReadBegin, ClientLabels
    <2>2. LockInv'
      BY <1>1, <1>5, <2>1, GotoClient, ConstAssumption
      DEF NvsInv, LockInv, ReadBegin, Tasks
    <2>3. WriteBackInv' /\ NoUnhandledError'
      BY <1>1, <1>5, <2>1, GotoClient
      DEF NvsInv, WriteBackInv, NoUnhandledError, ReadBegin
    <2> QED
      BY <2>2, <2>3 DEF NvsInv
  <1>6. CASE ReadEnd(c) \/ ReadFail(c)
    <2>1. /\ \E l \in {"setid", "idle"} : Goto(c, l)
          /\ pc[c] = "reading" /\ nvsOwner' = Nobody
      BY <1>6 DEF ReadEnd, ReadFail, Return
    <2>2. nvsOwner = c /\ ~Programming(pc[Flusher])
      BY <1>1, <2>1, ConstAssumption DEF NvsInv, LockInv, Programming
    <2>3. /\ \A d \in Clients : pc'[d] = IF d = c THEN pc'[c] ELSE pc[d]
          /\ pc'[c] # "reading" /\ pc'[Flusher] = pc[Flusher]
      BY <1>1, <2>1, GotoClient DEF ClientLabels
    <2>4. LockInv'
      BY <1>1, <2>1, <2>2, <2>3, ConstAssumption DEF NvsInv, LockInv, Programming, Tasks
    <2>5. WriteBackInv'
      BY <2>2, <2>3 DEF WriteBackInv, Programming
    <2>6. NoUnhandledError'
      <3>1. CASE ReadEnd(c)
        BY <1>1, <3>1 DEF ReadEnd, NoUnhandledError
      <3>2. CASE ReadFail(c)
        <4>1. faults' > 0
          BY <1>1, <3>2, ConstAssumption DEF ReadFail, TypeOK
        <4> QED
          BY <4>1 DEF NoUnhandledError
      <3> QED
        BY <1>6, <3>1, <3>2
    <2> QED
      BY <2>4, <2>5, <2>6 DEF NvsInv
  <1>7. CASE CopyIn(c)
    <2>1. Goto(c, "idle") /\ "idle" \in ClientLabels /\ pc[c] = "copy"
      BY <1>7 DEF CopyIn, Return, ClientLabels
    <2>2. LockInv'
      BY <1>1, <1>7, <2>1, GotoClient DEF CopyIn, NvsInv, LockInv
    <2>3. WriteBackInv'
      BY <1>1, <1>7, <2>1, GotoClient DEF CopyIn, WriteBackInv
    <2>4. NoUnhandledError'
      BY <1>1, <1>7 DEF CopyIn, NoUnhandledError
    <2> QED
      BY <2>2, <2>3, <2>4 DEF NvsInv
  <1> QED
    BY <1>3, <1>4, <1>5, <1>6, <1>7 DEF ClientStep
LEMMA FlushNvs ==
    ASSUME TypeInv, NvsInv, FlushStep \/ FlushTimeout
    PROVE  NvsInv'
  <1> USE DEF cacheVars, semVars, callVars, history, nvsVars
  <1>1. TypeOK /\ ~fatal
    BY DEF TypeInv, FlushStep, FlushTimeout, FlushCheck, FlushArgs, NvsErase, NvsProgram,
           NvsVerify, NvsFail, FlushClear, FlushPost, FlushLoop, CanRun
  <1>2. CASE FlushCheck \/ FlushArgs \/ FlushClear \/ FlushLoop \/ FlushTimeout
    <2>1. PICK l \in {"args", "loop", "begin", "post", "check", "sleep"} : Goto(Flusher, l)
      BY <1>2 DEF FlushCheck, FlushArgs, FlushClear, FlushLoop, FlushTimeout
    <2>2. l \in FlushLabels /\ ~Programming(l) /\ ~Programming(pc[Flusher])
      BY <1>2, <2>1
      DEF FlushLabels, Programming, FlushCheck, FlushArgs, FlushClear, FlushLoop, FlushTimeout
    <2>3. UNCHANGED <<nvsOwner, fatal, faults, breach>>
      BY <1>2 DEF FlushCheck, FlushArgs, FlushClear, FlushLoop, FlushTimeout
    <2>4. Quiet
      BY <1>1, <2>1, <2>2, <2>3, GotoFlusher DEF Quiet
    <2> QED
      BY <1>1, <2>4, QuietKeepsNvs
  <1>3. CASE FlushPost
    <2>1. pc[Flusher] = "post" /\ pc'[Flusher] = "loop"
          /\ UNCHANGED <<nvsOwner, fatal, faults>> /\ breach \subseteq breach'
      BY <1>1, <1>3, ConstAssumption DEF FlushPost, TypeOK, Tasks
    <2>2. \A c \in Clients : pc'[c] = "reading" <=> pc[c] = "reading"
      BY <1>1, <1>3, ConstAssumption DEF FlushPost, AfterSync, TypeOK, Tasks
    <2>3. Quiet
      BY <2>1, <2>2 DEF Quiet, Programming
    <2> QED
      BY <1>1, <2>3, QuietKeepsNvs
  <1>4. CASE NvsErase
    <2>1. /\ Goto(Flusher, "program") /\ "program" \in FlushLabels
          /\ nvsOwner = Nobody /\ nvsOwner' = Flusher /\ done' = {}
      BY <1>4 DEF NvsErase, FlushLabels
    <2>2. LockInv'
      BY <1>1, <1>4, <2>1, GotoFlusher, ConstAssumption DEF NvsErase, NvsInv, LockInv, Tasks
    <2>3. WriteBackInv'
      BY <1>1, <2>1, GotoFlusher DEF WriteBackInv
    <2> QED
      BY <1>1, <1>4, <2>2, <2>3 DEF NvsErase, NvsInv, NoUnhandledError
  <1>5. ASSUME NEW o \in Offsets, NvsProgram(o) PROVE NvsInv'
    <2>1. PICK l \in {"verify", "program"} :
             Goto(Flusher, l) /\ (l = "verify" <=> done \cup {o} = Offsets)
      BY <1>5 DEF NvsProgram
    <2>2. l \in FlushLabels /\ target \in Sectors
      BY <1>5, <2>1 DEF FlushLabels, NvsProgram, TypeInv, CallInv
    <2>3. LockInv'
      BY <1>1, <1>5, <2>1, <2>2, GotoFlusher DEF NvsProgram, NvsInv, LockInv
    <2>4. ASSUME "write_in_flush" \notin breach
          PROVE  \A p \in done \cup {o} : flash'[target][p] = cacheMem[p]
      BY <1>1, <1>5, <2>2, <2>4 DEF NvsProgram, NvsInv, WriteBackInv, TypeOK, Image
    <2>5. WriteBackInv'
      <3> SUFFICES ASSUME "write_in_flush" \notin breach
                   PROVE  /\ l = "program" => \A p \in done' : flash'[target][p] = cacheMem[p]
                          /\ l = "verify" => flash'[target] = cacheMem
        BY <1>1, <1>5, <2>1, <2>2, GotoFlusher DEF NvsProgram, WriteBackInv
      <3>1. l = "program" => done' = done \cup {o}
        BY <1>5, <2>1 DEF NvsProgram
      <3>2. flash'[target] \in [Offsets -> Contents] /\ cacheMem \in [Offsets -> Contents]
        BY <1>1, <1>5, <2>2 DEF NvsProgram, TypeOK, Image
      <3> QED
        BY <2>1, <2>4, <3>1, <3>2
    <2> QED
      BY <1>1, <1>5, <2>3, <2>5 DEF NvsProgram, NvsInv, NoUnhandledError
  <1>6. ASSUME NEW o \in Offsets, NvsVerify(o) PROVE NvsInv'
    <2>1. PICK l \in {"verify", "clear"} :
             /\ Goto(Flusher, l)
             /\ l = "verify" => UNCHANGED <<target, nvsOwner>>
             /\ l = "clear" => nvsOwner' = Nobody
      BY <1>6 DEF NvsVerify
    <2>2. l \in FlushLabels
      BY <2>1 DEF FlushLabels
    <2>3. LockInv'
      BY <1>1, <1>6, <2>1, <2>2, GotoFlusher, ConstAssumption
      DEF NvsVerify, NvsInv, LockInv, Tasks
    <2>4. WriteBackInv'
      BY <1>1, <1>6, <2>1, <2>2, GotoFlusher DEF NvsVerify, NvsInv, WriteBackInv
    <2> QED
      BY <1>1, <1>6, <2>3, <2>4 DEF NvsVerify, NvsInv, NoUnhandledError
  <1>7. CASE NvsFail
    <2>1. LockInv' /\ WriteBackInv'
      BY <1>7 DEF NvsFail, LockInv, WriteBackInv
    <2>2. CASE faults < MaxFaults /\ faults' = faults + 1
      <3>1. faults' > 0
        BY <1>1, <2>2 DEF TypeOK
      <3> QED
        BY <2>1, <3>1 DEF NvsInv, NoUnhandledError
    <2>3. CASE pc[Flusher] = "verify" /\ \E o \in Offsets \ done : flash[target][o] # cacheMem[o]
      BY <1>1, <1>7, <2>1, <2>3 DEF NvsFail, NvsInv, WriteBackInv, NoUnhandledError
    <2> QED
      BY <1>7, <2>2, <2>3 DEF NvsFail
  <1> QED
    BY <1>2, <1>3, <1>4, <1>5, <1>6, <1>7 DEF FlushStep

\* An exception reaches a task without a handler only through a failed NVS
\* call or a copy made during the write: no read or flush can collide.
THEOREM ErrorsHaveAKnownCause == Spec => []NoUnhandledError
  <1>1. Init => TypeInv /\ NvsInv
    BY InitType, ConstAssumption
    DEF Init, RamAfterBoot, NvsInv, LockInv, WriteBackInv, NoUnhandledError, Tasks
  <1>2. Init' => (TypeInv /\ NvsInv)'
    BY <1>1, PTL
  <1>3. TypeInv /\ NvsInv /\ [Next]_vars => (TypeInv /\ NvsInv)'
    <2> SUFFICES ASSUME TypeInv, NvsInv, [Next]_vars PROVE (TypeInv /\ NvsInv)'
      OBVIOUS
    <2>1. CASE UNCHANGED vars
      BY <2>1 DEF TypeInv, TypeOK, CallInv, NvsInv, LockInv, WriteBackInv,
                  NoUnhandledError, vars
    <2>2. CASE PowerCycle
      BY <2>2, <1>2, PowerCycleInit
    <2>3. ASSUME NEW c \in Clients, NEW r \in Requests, Begin(c, r)
          PROVE  (TypeInv /\ NvsInv)'
      BY <2>3, BeginType, BeginQuiet, QuietKeepsNvs
    <2>4. CASE (\E c \in Clients : ClientStep(c)) \/ FlushStep \/ FlushTimeout
      BY <2>4, ClientType, ClientNvs, FlushType, FlushNvs
    <2> QED
      BY <2>1, <2>2, <2>3, <2>4 DEF Next
  <1> QED
    BY <1>1, <1>3, PTL DEF Spec, NvsInv
---------------------------------------------------------------------------
(* Sound executions: up to the first breach one client at a time is inside *)
(* the cache, and what it is about to do agrees with what the flush thread *)
(* is doing.                                                               *)

SafeInv == /\ SerialInv /\ ClientInv /\ LabelInv
           /\ CacheHoldsItsSector /\ OnlyDirtySectorDiffers /\ FlushInPlace

LEMMA InvParts == Inv <=> TypeInv /\ NvsInv /\ (Sound => SafeInv /\ TokenInv)
  BY DEF Inv, TypeInv, NvsInv, SafeInv, CacheHoldsItsSector,
         OnlyDirtySectorDiffers, FlushInPlace, Sound

\* A client step that leaves the cache, the flash and the history as they are
\* is safe when the client goes to a label whose assertions hold.
LEMMA SafeMove ==
    ASSUME TypeInv, SafeInv, Sound, Sound', NEW c \in Clients,
           UNCHANGED <<cacheMem, cacheId, cacheStart, dirty, flash, image, target>>,
           \A d \in Clients \ {c} : pc'[d] = pc[d] /\ pc[d] = "idle" /\ req'[d] = req[d],
           pc'[Flusher] = pc[Flusher] \/ pc'[Flusher] \in {"check", "loop", "sleep"},
           pc[c] \notin {"setid", "setstart"},
           \/ pc'[c] \in {"idle", "lookup", "sync", "pend", "wait"}
           \/ pc'[c] \in {"load", "reading"} /\ ~dirty
           \/ pc'[c] = "mark" /\ cacheId = req'[c].sec
    PROVE  SafeInv'
  <1>1. SerialInv'
    BY DEF SerialInv
  <1>2. ClientInv'
    BY DEF ClientInv
  <1>3. LabelInv'
    BY DEF SafeInv, LabelInv
  <1>4. CacheHoldsItsSector' /\ OnlyDirtySectorDiffers' /\ FlushInPlace'
    BY DEF SafeInv, CacheHoldsItsSector, OnlyDirtySectorDiffers, FlushInPlace
  <1> QED
    BY <1>1, <1>2, <1>3, <1>4 DEF SafeInv

LEMMA BeginSafe ==
    ASSUME TypeInv, SafeInv, Sound, Sound', NEW c \in Clients, NEW r \in Requests,
           Begin(c, r)
    PROVE  SafeInv'
  <1>1. PICK l \in {"sync", "lookup"} : Goto(c, l)
    BY DEF Begin
  <1>2. l \in ClientLabels
    BY <1>1 DEF ClientLabels
  <1>3. \A d \in Clients : pc[d] = "idle"
    BY DEF Begin, Sound
  <1>4. /\ \A d \in Clients : pc'[d] = IF d = c THEN l ELSE pc[d]
        /\ pc'[Flusher] = pc[Flusher]
    BY <1>1, <1>2, GotoClient DEF TypeInv
  <1>5. /\ UNCHANGED <<cacheMem, cacheId, cacheStart, dirty, flash, image, target>>
        /\ \A d \in Clients \ {c} : req'[d] = req[d]
    BY DEF Begin, cacheVars, nvsVars, TypeInv, TypeOK
  <1> QED
    BY <1>1, <1>3, <1>4, <1>5, SafeMove

LEMMA ClientSafe ==
    ASSUME TypeInv, NvsInv, SafeInv, TokenInv, Sound, Sound', NEW c \in Clients,
           ClientStep(c)
    PROVE  SafeInv'
  <1> USE DEF cacheVars, semVars, callVars, history, nvsVars
  <1>1. TypeOK /\ ~fatal /\ pc[c] # "idle"
    BY DEF TypeInv, ClientStep, Lookup, SyncClean, SyncDirty, PendTake, PendBlock,
           ReadBegin, ReadEnd, ReadFail, SetId, SetStart, Mark, CopyOut, CopyIn, CanRun
  <1>2. \A d \in Clients \ {c} : pc[d] = "idle"
    BY <1>1 DEF SafeInv, SerialInv
  <1>3. AfterSync(c) \in {"idle", "load"}
    BY DEF AfterSync
  <1>4. ~ReadFail(c)
    BY DEF ReadFail, Sound
  <1>5. CASE Lookup(c) \/ SyncClean(c) \/ PendTake(c) \/ PendBlock(c)
             \/ ReadBegin(c) \/ CopyOut(c)
    <2>1. PICK l \in {"sync", "mark", "idle", "load", "wait", "reading"} :
            /\ Goto(c, l)
            /\ l \in {"load", "reading"} => ~dirty
            /\ l = "mark" => cacheId = req[c].sec /\ req' = req
      BY <1>3, <1>5
      DEF Lookup, SyncClean, PendTake, PendBlock, ReadBegin, CopyOut, Return,
          SafeInv, ClientInv, TokenInv
    <2>2. l \in ClientLabels
      BY <2>1 DEF ClientLabels
    <2>3. /\ \A d \in Clients : pc'[d] = IF d = c THEN l ELSE pc[d]
          /\ pc'[Flusher] = pc[Flusher]
      BY <1>1, <2>1, <2>2, GotoClient
    <2>4. /\ UNCHANGED <<cacheMem, cacheId, cacheStart, dirty, flash, image, target>>
          /\ \A d \in Clients \ {c} : req'[d] = req[d]
          /\ pc[c] \notin {"setid", "setstart"}
      BY <1>1, <1>5
      DEF Lookup, SyncClean, PendTake, PendBlock, ReadBegin, CopyOut, Return, TypeOK
    <2> QED
      BY <1>2, <2>1, <2>3, <2>4, SafeMove
  <1>6. CASE SyncDirty(c)
    <2>1. /\ \A d \in Clients : pc'[d] = IF d = c THEN "pend" ELSE pc[d]
          /\ pc'[Flusher] \in {pc[Flusher], "check"}
      BY <1>1, <1>6, ConstAssumption DEF SyncDirty, TypeOK, Tasks
    <2>2. /\ UNCHANGED <<cacheMem, cacheId, cacheStart, dirty, flash, image, target, req>>
          /\ pc[c] = "sync"
      BY <1>6 DEF SyncDirty
    <2> QED
      BY <1>2, <2>1, <2>2, SafeMove
  <1>7. CASE ReadEnd(c) \/ SetId(c) \/ SetStart(c) \/ Mark(c) \/ CopyIn(c)
    <2>1. PICK l \in {"setid", "setstart", "mark", "copy", "idle"} : Goto(c, l)
      BY <1>7 DEF ReadEnd, SetId, SetStart, Mark, CopyIn, Return
    <2>2. l \in ClientLabels
      BY <2>1 DEF ClientLabels
    <2>3. /\ \A d \in Clients : pc'[d] = IF d = c THEN l ELSE "idle"
          /\ pc'[Flusher] = pc[Flusher]
      BY <1>1, <1>2, <2>1, <2>2, GotoClient
    <2>4. SerialInv'
      BY <2>3 DEF SerialInv
    <2>5. req[c].sec \in Sectors
      BY <1>7 DEF ReadEnd, SetId, SetStart, Mark, CopyIn, TypeInv, TypeOK, CallInv, Requests
    <2>6. CASE ReadEnd(c)
      <3>1. pc[c] = "reading" /\ l = "setid" /\ ~dirty /\ req' = req /\ dirty' = dirty
        BY <2>6, <2>1, <2>3, <1>1, ConstAssumption DEF ReadEnd, SafeInv, ClientInv, Goto, TypeOK, Tasks
      <3>2. cacheMem' = image[req[c].sec] /\ UNCHANGED <<cacheId, cacheStart, flash, image, target>>
        BY <2>5, <2>6, <3>1 DEF ReadEnd, SafeInv, OnlyDirtySectorDiffers
      <3>3. ClientInv'
        BY <2>3, <3>1, <3>2 DEF ClientInv
      <3>4. LabelInv'
        BY <1>2, <2>3, <3>1, <3>2 DEF SafeInv, LabelInv
      <3>5. CacheHoldsItsSector' /\ OnlyDirtySectorDiffers' /\ FlushInPlace'
        BY <2>3, <3>1, <3>2
        DEF SafeInv, CacheHoldsItsSector, OnlyDirtySectorDiffers, FlushInPlace
      <3> QED
        BY <2>4, <3>3, <3>4, <3>5 DEF SafeInv
    <2>7. CASE SetId(c)
      <3>1. pc[c] = "setid" /\ pc'[c] = "setstart" /\ ~dirty /\ cacheMem = image[req[c].sec]
        BY <1>1, <2>7 DEF SetId, Goto, TypeOK, Tasks, SafeInv, ClientInv
      <3>2. /\ cacheId' = req[c].sec
            /\ UNCHANGED <<cacheMem, cacheStart, dirty, flash, image, target, req>>
        BY <2>7 DEF SetId
      <3>3. ClientInv'
        BY <2>3, <3>1, <3>2 DEF ClientInv
      <3>4. LabelInv'
        BY <2>3, <2>5, <3>1, <3>2, ConstAssumption DEF SafeInv, LabelInv
      <3>5. CacheHoldsItsSector' /\ OnlyDirtySectorDiffers' /\ FlushInPlace'
        BY <2>3, <3>1, <3>2
        DEF SafeInv, CacheHoldsItsSector, OnlyDirtySectorDiffers, FlushInPlace
      <3> QED
        BY <2>4, <3>3, <3>4, <3>5 DEF SafeInv
    <2>8. CASE SetStart(c)
      <3>1. pc[c] = "setstart" /\ pc'[c] = "mark" /\ ~dirty /\ cacheId = req[c].sec
        BY <1>1, <2>8 DEF SetStart, Goto, TypeOK, Tasks, SafeInv, ClientInv
      <3>2. /\ cacheStart' = req[c].sec
            /\ UNCHANGED <<cacheMem, cacheId, dirty, flash, image, target, req>>
        BY <2>8 DEF SetStart
      <3>3. ClientInv' /\ LabelInv'
        BY <2>3, <3>1, <3>2 DEF ClientInv, SafeInv, LabelInv
      <3>4. CacheHoldsItsSector' /\ OnlyDirtySectorDiffers' /\ FlushInPlace'
        BY <1>2, <2>3, <3>1, <3>2
        DEF SafeInv, CacheHoldsItsSector, OnlyDirtySectorDiffers, FlushInPlace
      <3> QED
        BY <2>4, <3>3, <3>4 DEF SafeInv
    <2>9. CASE Mark(c)
      <3>1. pc[c] = "mark" /\ pc'[c] = "copy" /\ c \in onCpu' /\ cacheId = req[c].sec
        BY <1>1, <2>9 DEF Mark, Goto, Ready, Blocking, TypeOK, Tasks, SafeInv, ClientInv
      <3>2. /\ dirty' = (dirty \/ req[c].op = "write")
            /\ UNCHANGED <<cacheMem, cacheId, cacheStart, flash, image, target, req>>
        BY <2>9 DEF Mark
      <3>3. cacheId \in Sectors /\ \A s \in Sectors : s # cacheId => flash[s] = image[s]
        BY <2>5, <3>1 DEF SafeInv, OnlyDirtySectorDiffers
      <3>4. ClientInv'
        BY <2>3, <3>1, <3>2 DEF ClientInv
      <3>5. LabelInv'
        BY <1>2, <2>3, <3>1, <3>2, <3>3, ConstAssumption DEF SafeInv, LabelInv
      <3>6. CacheHoldsItsSector' /\ OnlyDirtySectorDiffers' /\ FlushInPlace'
        BY <1>2, <2>3, <3>1, <3>2, <3>3
        DEF SafeInv, CacheHoldsItsSector, OnlyDirtySectorDiffers, FlushInPlace
      <3> QED
        BY <2>4, <3>4, <3>5, <3>6 DEF SafeInv
    <2>10. CASE CopyIn(c)
      <3>1. /\ pc[c] = "copy" /\ pc'[c] = "idle" /\ dirty
            /\ cacheId = req[c].sec /\ cacheStart = cacheId /\ cacheMem = image[cacheId]
        BY <1>1, <1>2, <2>5, <2>10
        DEF CopyIn, Return, Goto, TypeOK, Tasks, SafeInv, ClientInv, LabelInv,
            CacheHoldsItsSector
      <3>2. pc[Flusher] \notin {"program", "verify", "clear"}
        BY <2>10 DEF CopyIn, Sound
      <3>3. /\ cacheMem' = [cacheMem EXCEPT ![req[c].off] = req[c].val]
            /\ image' = [image EXCEPT ![cacheId][req[c].off] = req[c].val]
            /\ UNCHANGED <<cacheId, cacheStart, dirty, flash, target>>
        BY <2>10, <3>1 DEF CopyIn
      <3>4. /\ image'[cacheId] = cacheMem'
            /\ \A s \in Sectors : s # cacheId => image'[s] = image[s]
        BY <1>1, <2>5, <3>1, <3>3 DEF TypeOK, Image
      <3>5. ClientInv'
        BY <2>3, <3>1 DEF ClientInv
      <3>6. LabelInv'
        BY <2>3, <3>1, <3>2, <3>3 DEF SafeInv, LabelInv
      <3>7. CacheHoldsItsSector' /\ OnlyDirtySectorDiffers' /\ FlushInPlace'
        BY <2>3, <3>1, <3>2, <3>3, <3>4
        DEF SafeInv, CacheHoldsItsSector, OnlyDirtySectorDiffers, FlushInPlace
      <3> QED
        BY <2>4, <3>5, <3>6, <3>7 DEF SafeInv
    <2> QED
      BY <1>7, <2>6, <2>7, <2>8, <2>9, <2>10
  <1> QED
    BY <1>4, <1>5, <1>6, <1>7 DEF ClientStep

LEMMA FlushSafe ==
    ASSUME TypeInv, NvsInv, SafeInv, TokenInv, Sound, Sound', FlushStep \/ FlushTimeout
    PROVE  SafeInv'
  <1> USE DEF cacheVars, semVars, callVars, history, nvsVars
  <1>1. TypeOK /\ ~fatal /\ CanRun(Flusher)
    BY DEF TypeInv, FlushStep, FlushTimeout, FlushCheck, FlushArgs, NvsErase, NvsProgram,
           NvsVerify, NvsFail, FlushClear, FlushPost, FlushLoop, CanRun
  <1>2. dirty => cacheId \in Sectors
    BY <1>1 DEF SafeInv, LabelInv, TypeOK
  <1>3. dirty => /\ cacheStart = cacheId
                 /\ cacheMem = image[cacheId]
    BY <1>2 DEF SafeInv, ClientInv, LabelInv, CacheHoldsItsSector
  \* What is left to show of a step that moves the flush thread alone and
  \* touches neither the cache nor the history.
  <1>4. ASSUME UNCHANGED <<cacheMem, cacheId, cacheStart, dirty, image, req>>,
               \A c \in Clients : pc'[c] = pc[c] /\ (c \in onCpu => c \in onCpu'),
               pc'[Flusher] \in {"args", "begin", "program", "verify", "clear"} => dirty,
               pc'[Flusher] = "clear" => flash'[cacheId] = cacheMem,
               pc'[Flusher] \in {"begin", "program", "verify"} => target' = cacheId,
               \A s \in Sectors : s # cacheId \/ ~dirty => flash'[s] = flash[s]
        PROVE  SafeInv'
    <2>1. SerialInv' /\ ClientInv'
      BY <1>4 DEF SafeInv, SerialInv, ClientInv
    <2>2. LabelInv'
      BY <1>4 DEF SafeInv, LabelInv
    <2>3. CacheHoldsItsSector' /\ OnlyDirtySectorDiffers' /\ FlushInPlace'
      BY <1>4, <1>2 DEF SafeInv, CacheHoldsItsSector, OnlyDirtySectorDiffers, FlushInPlace
    <2> QED
      BY <2>1, <2>2, <2>3 DEF SafeInv
  <1>5. \A l \in FlushLabels : Goto(Flusher, l) =>
           /\ \A c \in Clients : pc'[c] = pc[c] /\ (c \in onCpu => c \in onCpu')
           /\ pc'[Flusher] = l
    BY <1>1, GotoFlusher, ConstAssumption DEF Goto
  <1>6. CASE FlushCheck \/ FlushLoop \/ FlushTimeout
    <2>1. PICK l \in {"args", "loop", "check", "sleep"} :
             Goto(Flusher, l) /\ (l = "args" => dirty)
      BY <1>6 DEF FlushCheck, FlushLoop, FlushTimeout
    <2>2. l \in FlushLabels
      BY <2>1 DEF FlushLabels
    <2>3. UNCHANGED <<cacheMem, cacheId, cacheStart, dirty, flash, image, req>>
      BY <1>6 DEF FlushCheck, FlushLoop, FlushTimeout
    <2> QED
      BY <1>4, <1>5, <2>1, <2>2, <2>3
  <1>7. CASE FlushArgs
    <2>1. Goto(Flusher, "begin") /\ "begin" \in FlushLabels /\ dirty /\ target' = cacheStart
      BY <1>7 DEF FlushArgs, FlushLabels, SafeInv, LabelInv
    <2>2. UNCHANGED <<cacheMem, cacheId, cacheStart, dirty, flash, image, req>>
      BY <1>7 DEF FlushArgs
    <2> QED
      BY <1>3, <1>4, <1>5, <2>1, <2>2
  <1>8. CASE NvsErase
    <2>1. /\ Goto(Flusher, "program") /\ "program" \in FlushLabels
          /\ dirty /\ target = cacheId /\ target' = target
      BY <1>8 DEF NvsErase, FlushLabels, SafeInv, FlushInPlace
    <2>2. UNCHANGED <<cacheMem, cacheId, cacheStart, dirty, image, req>>
      BY <1>8 DEF NvsErase
    <2>3. \A s \in Sectors : s # cacheId => flash'[s] = flash[s]
      BY <1>1, <1>8, <2>1 DEF NvsErase, TypeOK, Image
    <2> QED
      BY <1>4, <1>5, <2>1, <2>2, <2>3
  <1>9. ASSUME NEW o \in Offsets, NvsProgram(o) PROVE SafeInv'
    <2>1. PICK l \in {"verify", "program"} : Goto(Flusher, l)
      BY <1>9 DEF NvsProgram
    <2>2. l \in FlushLabels /\ dirty /\ target = cacheId /\ target' = target
      BY <1>9, <2>1 DEF NvsProgram, FlushLabels, SafeInv, FlushInPlace
    <2>3. UNCHANGED <<cacheMem, cacheId, cacheStart, dirty, image, req>>
      BY <1>9 DEF NvsProgram
    <2>4. \A s \in Sectors : s # cacheId => flash'[s] = flash[s]
      BY <1>1, <1>9, <2>2 DEF NvsProgram, TypeOK, Image
    <2> QED
      BY <1>4, <1>5, <2>1, <2>2, <2>3, <2>4
  <1>10. ASSUME NEW o \in Offsets, NvsVerify(o) PROVE SafeInv'
    <2>1. PICK l \in {"verify", "clear"} :
            Goto(Flusher, l) /\ (l = "verify" => target' = target)
      BY <1>10 DEF NvsVerify
    <2>2. l \in FlushLabels /\ dirty /\ target = cacheId
      BY <1>10, <2>1 DEF NvsVerify, FlushLabels, SafeInv, FlushInPlace
    <2>3. UNCHANGED <<cacheMem, cacheId, cacheStart, dirty, image, req, flash>>
      BY <1>10 DEF NvsVerify
    <2>4. flash[cacheId] = cacheMem
      BY <1>1, <1>10, <2>2 DEF NvsVerify, NvsInv, WriteBackInv, Sound
    <2> QED
      BY <1>4, <1>5, <2>1, <2>2, <2>3, <2>4
  <1>11. CASE NvsFail
    <2>1. UNCHANGED <<cacheMem, cacheId, cacheStart, dirty, image, req, flash, target, pc, onCpu>>
      BY <1>11 DEF NvsFail
    <2> QED
      BY <1>4, <2>1 DEF SafeInv, LabelInv, FlushInPlace
  <1>12. CASE FlushClear
    <2>1. /\ Goto(Flusher, "post") /\ "post" \in FlushLabels
          /\ dirty /\ flash[cacheId] = cacheMem
      BY <1>12 DEF FlushClear, FlushLabels, SafeInv, LabelInv
    <2>2. /\ UNCHANGED <<cacheMem, cacheId, cacheStart, image, req, flash, target>>
          /\ dirty' = FALSE
      BY <1>12 DEF FlushClear
    <2>3. \A c \in Clients : pc[c] # "copy"
      <3> SUFFICES ASSUME NEW c \in Clients, pc[c] = "copy" PROVE FALSE
        OBVIOUS
      <3>1. c \in onCpu /\ Executing(c)
        BY DEF SafeInv, ClientInv, Executing, Ready, Blocking
      <3>2. Prio[Flusher] <= Prio[c] /\ c \in Tasks \ {Flusher}
            /\ Prio[c] \in Nat /\ Prio[Flusher] \in Nat
        BY ConstAssumption DEF Tasks
      <3> QED
        BY <1>1, <3>1, <3>2 DEF CanRun
    <2>4. SerialInv' /\ ClientInv'
      BY <1>5, <2>1, <2>2, <2>3 DEF SafeInv, SerialInv, ClientInv
    <2>5. LabelInv'
      BY <1>5, <2>1, <2>2 DEF SafeInv, LabelInv
    <2>6. \A s \in Sectors : flash[s] = image[s]
      BY <1>3, <2>1 DEF SafeInv, OnlyDirtySectorDiffers
    <2>7. CacheHoldsItsSector' /\ OnlyDirtySectorDiffers' /\ FlushInPlace'
      BY <1>5, <2>1, <2>2, <2>6
      DEF SafeInv, CacheHoldsItsSector, OnlyDirtySectorDiffers, FlushInPlace
    <2> QED
      BY <2>4, <2>5, <2>7 DEF SafeInv
  <1>13. CASE FlushPost
    <2>1. /\ UNCHANGED <<cacheMem, cacheId, cacheStart, dirty, flash, image, target, req>>
          /\ pc'[Flusher] = "loop" /\ onCpu \subseteq onCpu'
      BY <1>1, <1>13, ConstAssumption DEF FlushPost, TypeOK, Tasks
    <2>2. \A c \in Clients : \/ pc'[c] = pc[c]
                             \/ pc[c] = "wait" /\ pc'[c] = "idle"
                             \/ pc[c] = "wait" /\ pc'[c] = "load" /\ ~dirty
      BY <1>1, <1>13, ConstAssumption DEF FlushPost, TypeOK, Tasks, AfterSync, TokenInv
    <2>3. SerialInv' /\ ClientInv'
      BY <2>1, <2>2 DEF SafeInv, SerialInv, ClientInv
    <2>4. LabelInv'
      BY <2>1, <2>2 DEF SafeInv, LabelInv
    <2>5. CacheHoldsItsSector' /\ OnlyDirtySectorDiffers' /\ FlushInPlace'
      BY <2>1, <2>2 DEF SafeInv, CacheHoldsItsSector, OnlyDirtySectorDiffers, FlushInPlace
    <2> QED
      BY <2>3, <2>4, <2>5 DEF SafeInv
  <1> QED
    BY <1>6, <1>7, <1>8, <1>9, <1>10, <1>11, <1>12, <1>13 DEF FlushStep

\* A token that is at hand while a SYNC waits was posted by a flush that ended
\* after the SYNC began, so the cache is clean.
LEMMA ClientToken ==
    ASSUME TypeInv, SafeInv, TokenInv, Sound, Sound', NEW c \in Clients, ClientStep(c)
    PROVE  TokenInv'
  <1> USE DEF cacheVars, semVars, callVars, history, nvsVars
  <1>1. TypeOK /\ \A d \in Clients \ {c} : pc[d] = "idle"
    BY DEF TypeInv, SafeInv, SerialInv, ClientStep, Lookup, SyncClean, SyncDirty,
           PendTake, PendBlock, ReadBegin, ReadEnd, ReadFail, SetId, SetStart, Mark,
           CopyOut, CopyIn
  <1>2. CASE SyncDirty(c)
    <2>1. cleanSem' = 0 /\ pc[Flusher] # "post"
      BY <1>1, <1>2 DEF SyncDirty, Sound, TypeOK
    <2>2. pc'[Flusher] # "post"
      BY <1>1, <1>2, <2>1, ConstAssumption DEF SyncDirty, TypeOK, Tasks
    <2> QED
      BY <2>1, <2>2 DEF TokenInv
  <1>3. CASE PendBlock(c)
    <2>1. Goto(c, "wait") /\ "wait" \in ClientLabels /\ pc[c] = "pend"
          /\ UNCHANGED <<dirty, cleanSem>>
      BY <1>3 DEF PendBlock, ClientLabels
    <2> QED
      BY <1>1, <2>1, GotoClient DEF TokenInv
  <1>4. CASE ~SyncDirty(c) /\ ~PendBlock(c)
    <2>1. PICK l \in ClientLabels \ {"pend", "wait"} : Goto(c, l)
      BY <1>4 DEF ClientStep, Lookup, SyncClean, PendTake, ReadBegin, ReadEnd, ReadFail,
                  SetId, SetStart, Mark, CopyOut, CopyIn, Return, AfterSync, ClientLabels
    <2>2. \A d \in Clients : pc'[d] = IF d = c THEN l ELSE "idle"
      BY <1>1, <2>1, GotoClient
    <2> QED
      BY <2>1, <2>2 DEF TokenInv
  <1> QED
    BY <1>2, <1>3, <1>4

LEMMA FlushToken ==
    ASSUME TypeInv, TokenInv, FlushStep \/ FlushTimeout
    PROVE  TokenInv'
  <1> USE DEF cacheVars, semVars, callVars, history, nvsVars
  <1>1. TypeOK
    BY DEF TypeInv
  <1>2. CASE FlushClear
    BY <1>2 DEF FlushClear, TokenInv
  <1>3. CASE FlushPost
    <2>1. /\ pc[Flusher] = "post" /\ dirty' = dirty
          /\ \A c \in Clients : pc'[c] = pc[c] \/ pc'[c] \in {"idle", "load"}
      BY <1>1, <1>3, ConstAssumption DEF FlushPost, AfterSync, TypeOK, Tasks
    <2> QED
      BY <2>1 DEF TokenInv
  <1>4. CASE ~FlushClear /\ ~FlushPost
    <2>1. /\ UNCHANGED <<dirty, cleanSem>>
          /\ pc' = pc \/ \E l \in FlushLabels \ {"post"} : Goto(Flusher, l)
      BY <1>4 DEF FlushStep, FlushTimeout, FlushCheck, FlushArgs, NvsErase, NvsProgram,
                  NvsVerify, NvsFail, FlushLoop, FlushLabels
    <2> QED
      BY <1>1, <2>1, GotoFlusher DEF TokenInv
  <1> QED
    BY <1>2, <1>3, <1>4

LEMMA BeginToken ==
    ASSUME TypeInv, TokenInv, Sound', NEW c \in Clients, NEW r \in Requests, Begin(c, r)
    PROVE  TokenInv'
  <1>1. PICK l \in {"sync", "lookup"} : Goto(c, l)
    BY DEF Begin
  <1>2. l \in ClientLabels
    BY <1>1 DEF ClientLabels
  <1> QED
    BY <1>1, <1>2, GotoClient DEF TypeInv, TokenInv, Begin, cacheVars, semVars

\* Only a power cycle takes a breach back.
LEMMA BreachStays == Next /\ Sound' => Sound \/ PowerCycle
  BY DEF Next, Begin, ClientStep, Lookup, SyncClean, SyncDirty, PendTake, PendBlock,
         ReadBegin, ReadEnd, ReadFail, SetId, SetStart, Mark, CopyOut, CopyIn,
         FlushStep, FlushTimeout, FlushCheck, FlushArgs, NvsErase, NvsProgram,
         NvsVerify, NvsFail, FlushClear, FlushPost, FlushLoop, Sound, history

LEMMA InitInv == Init => Inv
  <1> SUFFICES ASSUME Init PROVE Inv
    OBVIOUS
  <1>1. TypeInv
    BY InitType
  <1>2. (\A c \in Clients : pc[c] = "idle") /\ pc[Flusher] = "check"
    BY ConstAssumption DEF Init, RamAfterBoot, Tasks
  <1>3. NvsInv
    BY <1>2, ConstAssumption
    DEF Init, RamAfterBoot, NvsInv, LockInv, WriteBackInv, NoUnhandledError, Tasks
  <1>4. SafeInv /\ TokenInv
    BY <1>2, ConstAssumption
    DEF Init, RamAfterBoot, SafeInv, SerialInv, ClientInv, LabelInv, TokenInv,
        CacheHoldsItsSector, OnlyDirtySectorDiffers, FlushInPlace
  <1> QED
    BY <1>1, <1>3, <1>4, InvParts

LEMMA NextInv == Inv /\ [Next]_vars => Inv'
  <1>1. Init' => Inv'
    BY InitInv, PTL
  <1>2. Inv' <=> TypeInv' /\ NvsInv' /\ (Sound' => SafeInv' /\ TokenInv')
    BY InvParts, PTL
  <1> SUFFICES ASSUME Inv, [Next]_vars PROVE Inv'
    OBVIOUS
  <1>3. TypeInv /\ NvsInv /\ (Sound => SafeInv /\ TokenInv)
    BY InvParts
  <1>4. CASE UNCHANGED vars
    BY <1>4 DEF vars, Inv, TypeOK, CallInv, LockInv, WriteBackInv, NoUnhandledError,
        Sound, SerialInv, ClientInv, LabelInv, TokenInv, CacheHoldsItsSector,
        OnlyDirtySectorDiffers, FlushInPlace
  <1>5. CASE PowerCycle
    BY <1>1, <1>3, <1>5, PowerCycleInit
  <1>6. ASSUME NEW c \in Clients, NEW r \in Requests, Begin(c, r)
        PROVE  Inv'
    BY <1>2, <1>3, <1>6, BeginType, BeginQuiet, QuietKeepsNvs, BeginSafe,
       BeginToken, BreachStays, <1>5 DEF Next
  <1>7. ASSUME NEW c \in Clients, ClientStep(c)
        PROVE  Inv'
    BY <1>2, <1>3, <1>7, ClientType, ClientNvs, ClientSafe, ClientToken, BreachStays,
       <1>5 DEF Next
  <1>8. CASE FlushStep \/ FlushTimeout
    BY <1>2, <1>3, <1>8, FlushType, FlushNvs, FlushSafe, FlushToken, BreachStays,
       <1>5 DEF Next
  <1> QED
    BY <1>4, <1>5, <1>6, <1>7, <1>8 DEF Next

\* The inductive invariant holds in every execution.
THEOREM InvariantHolds == Spec => []Inv
  BY InitInv, NextInv, PTL DEF Spec

\* Up to the first breach the cache never serves one sector's contents as
\* another's: flash_cache_get_addr against both clients and the flush thread.
THEOREM CacheIsRight == Spec => []CacheHoldsItsSector
  <1>1. Inv => CacheHoldsItsSector
    BY DEF Inv
  <1> QED
    BY <1>1, InvariantHolds, PTL

\* Up to the first breach a power cut costs at most the sector being written.
THEOREM OneSectorAtRisk == Spec => []OnlyDirtySectorDiffers
  <1>1. Inv => OnlyDirtySectorDiffers
    BY DEF Inv
  <1> QED
    BY <1>1, InvariantHolds, PTL

\* Up to the first breach flash_bdev_flush writes the cache over its own sector.
THEOREM FlushStaysInPlace == Spec => []FlushInPlace
  <1>1. Inv => FlushInPlace
    BY DEF Inv
  <1> QED
    BY <1>1, InvariantHolds, PTL

\* A clean cache means that the flash is what was written.
LEMMA CleanIsDurable ==
    ASSUME Inv, Sound, ~dirty
    PROVE  flash = image
  <1>1. \A s \in Sectors : flash[s] = image[s]
    BY DEF Inv, OnlyDirtySectorDiffers
  <1> QED
    BY <1>1 DEF Inv, TypeOK, Image

\* A SYNC that goes on has found the cache clean, or the token of a flush that
\* ended after it began.
LEMMA DurableStep ==
    ASSUME Inv, Next, NEW c \in Clients,
           pc[c] \in {"sync", "pend", "wait"}, pc'[c] \in {"idle", "load"}, breach' = {}
    PROVE  flash' = image'
  <1> USE DEF cacheVars, semVars, callVars, history, nvsVars
  <1>1. CASE PowerCycle
    BY <1>1 DEF PowerCycle
  <1>2. CASE Sound
    <2>0. TypeOK
      BY DEF Inv
    <2>1. ASSUME NEW d \in Clients, ClientStep(d) PROVE flash' = image'
      <3>1. d = c
        BY <2>1, <1>2 DEF Inv, SerialInv, ClientStep, Lookup, SyncClean, SyncDirty,
             PendTake, PendBlock, ReadBegin, ReadEnd, ReadFail, SetId, SetStart, Mark,
             CopyOut, CopyIn
      <3>2. SyncClean(c) \/ SyncDirty(c) \/ PendTake(c) \/ PendBlock(c)
        BY <2>1, <3>1 DEF ClientStep, Lookup, ReadBegin, ReadEnd, ReadFail, SetId,
                          SetStart, Mark, CopyOut, CopyIn
      <3>3. ~SyncDirty(c) /\ ~PendBlock(c)
        BY <2>0, ConstAssumption DEF SyncDirty, PendBlock, Goto, TypeOK, Tasks
      <3>4. ~dirty /\ UNCHANGED <<flash, image>>
        BY <1>2, <3>2, <3>3 DEF SyncClean, PendTake, Inv, TokenInv, Sound
      <3> QED
        BY <1>2, <3>4, CleanIsDurable
    <2>2. CASE FlushPost
      <3>1. pc[c] = "wait" /\ pc[Flusher] = "post" /\ UNCHANGED <<flash, image>>
        BY <2>0, <2>2, ConstAssumption DEF FlushPost, TypeOK, Tasks
      <3>2. ~dirty
        BY <1>2, <3>1 DEF Inv, TokenInv, Sound
      <3> QED
        BY <1>2, <3>1, <3>2, CleanIsDurable
    <2>3. ASSUME NEW d \in Clients, NEW r \in Requests, Begin(d, r) PROVE FALSE
      BY <1>2, <2>3 DEF Begin
    <2>4. ASSUME (FlushStep /\ ~FlushPost) \/ FlushTimeout PROVE FALSE
      <3>1. (\E l \in FlushLabels : Goto(Flusher, l)) \/ pc' = pc
        BY <2>4 DEF FlushStep, FlushTimeout, FlushCheck, FlushArgs, NvsErase, NvsProgram,
                    NvsVerify, NvsFail, FlushClear, FlushLoop, FlushLabels
      <3>2. pc'[c] = pc[c]
        BY <2>0, <3>1, GotoFlusher
      <3> QED
        BY <3>2
    <2> QED
      BY <1>1, <2>1, <2>2, <2>3, <2>4 DEF Next
  <1> QED
    BY <1>1, <1>2, BreachStays DEF Sound

\* SYNC is durable in every execution in which it begins with no clean token
\* of an earlier flush at hand, up to the other breaches.
THEOREM SyncDurable == Spec => SyncIsDurable
  <1>1. Inv /\ [Next]_vars =>
          [\A c \in Clients :
              /\ pc[c] \in {"sync", "pend", "wait"} /\ pc'[c] \in {"idle", "load"}
              /\ breach' = {}
              => flash' = image']_vars
    BY DurableStep DEF vars
  <1> QED
    BY <1>1, InvariantHolds, PTL DEF Spec, SyncIsDurable

---------------------------------------------------------------------------
(* The cache implements the block device.                                  *)

\* The calls that are outstanding, as the device sees them.
Asked == [d \in Clients |-> Outstanding(d)]

\* A call stays outstanding while its client moves inside it ...
LEMMA AskedStays ==
    ASSUME TypeOK, req' = req, \A d \in Clients : pc'[d] = "idle" <=> pc[d] = "idle"
    PROVE  Asked' = Asked
  BY DEF Asked, Outstanding

\* ... and is over once its client is idle again.
LEMMA AskedEnds ==
    ASSUME TypeOK, NEW c \in Clients, pc'[c] = "idle", pc[c] # "idle",
           \A d \in Clients \ {c} : pc'[d] = pc[d] /\ req'[d] = req[d]
    PROVE  /\ Asked[c] = req[c]
           /\ Asked' = [Asked EXCEPT ![c] = Device!NoCall]
  BY DEF Asked, Outstanding, Device!NoCall

\* A client's step is a step of the device, or invisible to it.
LEMMA ClientDevice ==
    ASSUME Inv, Sound, Sound', NEW c \in Clients, ClientStep(c)
    PROVE  [Device!Next]_(Device!vars)
  <1> USE DEF cacheVars, semVars, callVars, history, nvsVars
  <1>0. TypeOK /\ CallInv /\ pc[c] # "idle"
    BY DEF Inv, ClientStep, Lookup, SyncClean, SyncDirty, PendTake, PendBlock,
           ReadBegin, ReadEnd, ReadFail, SetId, SetStart, Mark, CopyOut, CopyIn
  <1>i. \A l \in ClientLabels \ {"idle"} : Goto(c, l) /\ req' = req => Asked' = Asked
    BY <1>0, GotoClient, AskedStays
  <1>e. Goto(c, "idle") /\ (\A d \in Clients \ {c} : req'[d] = req[d]) =>
          Asked[c] = req[c] /\ Asked' = [Asked EXCEPT ![c] = Device!NoCall]
    <2>1. "idle" \in ClientLabels
      BY DEF ClientLabels
    <2> QED
      BY <1>0, <2>1, GotoClient, AskedEnds
  <1>1. CASE Lookup(c) \/ SyncDirty(c) \/ PendBlock(c) \/ ReadBegin(c) \/ ReadEnd(c)
             \/ SetStart(c)
    <2>1. \/ SyncDirty(c)
          \/ \E l \in ClientLabels \ {"idle"} : Goto(c, l)
      BY <1>1 DEF Lookup, PendBlock, ReadBegin, ReadEnd, SetStart, ClientLabels
    <2>2. SyncDirty(c) => \A d \in Clients : pc'[d] = "idle" <=> pc[d] = "idle"
      BY <1>0, ConstAssumption DEF SyncDirty, TypeOK, Tasks
    <2>3. UNCHANGED <<image, flash, dirty, cacheId, result, req>>
      BY <1>1 DEF Lookup, SyncDirty, PendBlock, ReadBegin, ReadEnd, SetStart
    <2>4. Asked' = Asked
      BY <1>0, <1>i, <2>1, <2>2, <2>3, AskedStays
    <2> QED
      BY <2>3, <2>4 DEF Device!vars, Asked
  <1>2. CASE SyncClean(c) \/ PendTake(c)
    <2>1. ~dirty /\ SyncResult(c) /\ Goto(c, AfterSync(c))
          /\ UNCHANGED <<image, flash, dirty, req>>
      BY <1>2 DEF SyncClean, PendTake, Sound, Inv, TokenInv
    <2>2. CASE req[c].op = "sync"
      <3>1. /\ Asked[c].op = "sync" /\ Asked' = [Asked EXCEPT ![c] = Device!NoCall]
            /\ result' = [result EXCEPT ![c] = "ok"]
        BY <1>e, <2>1, <2>2 DEF AfterSync, SyncResult
      <3>2. Device!Sync(c)
        BY <2>1, <3>1 DEF Device!Sync, Device!Answer, Asked
      <3> QED
        BY <3>2 DEF Device!Next
    <2>3. CASE req[c].op # "sync"
      <3>1. Asked' = Asked /\ result' = result
        BY <1>i, <2>1, <2>3 DEF AfterSync, SyncResult, ClientLabels
      <3> QED
        BY <2>1, <3>1 DEF Device!vars, Asked
    <2> QED
      BY <2>2, <2>3
  <1>3. CASE ReadFail(c)
    BY <1>3 DEF ReadFail, Sound
  <1>4. CASE SetId(c)
    <2>1. ~dirty /\ UNCHANGED <<image, flash, dirty, result, req>> /\ Goto(c, "setstart")
      BY <1>4 DEF SetId, Inv, ClientInv
    <2>2. Asked' = Asked
      BY <1>i, <2>1 DEF ClientLabels
    <2> QED
      BY <2>1, <2>2 DEF Device!vars, Asked
  <1>5. CASE Mark(c)
    <2>1. /\ UNCHANGED <<image, flash, result, cacheId>> /\ cacheId = req[c].sec
          /\ dirty' = (dirty \/ req[c].op = "write")
      BY <1>5 DEF Mark, Inv, ClientInv
    <2>2. cacheId \in Sectors
      BY <1>0, <1>5, <2>1 DEF Mark, TypeOK, CallInv, Requests
    <2>a. Asked' = Asked
      BY <1>i, <1>5 DEF Mark, ClientLabels
    <2>3. CASE dirty' /\ ~dirty
      <3>1. Device!Open(cacheId)
        BY <2>1, <2>3, <2>a DEF Device!Open, Asked
      <3> QED
        BY <2>2, <3>1 DEF Device!Next
    <2>4. CASE dirty' = dirty
      BY <2>1, <2>4, <2>a DEF Device!vars, Asked
    <2> QED
      BY <1>0, <2>1, <2>3, <2>4 DEF TypeOK
  <1>6. CASE CopyOut(c)
    <2>1. /\ pc[c] = "copy" /\ req[c].op = "read" /\ cacheId = req[c].sec
          /\ UNCHANGED <<image, flash, dirty, cacheId>>
          /\ result' = [result EXCEPT ![c] = cacheMem[req[c].off]]
      BY <1>6 DEF CopyOut, Return, Inv, ClientInv
    <2>2. req[c].sec \in Sectors /\ req[c].off \in Offsets
      BY <1>0, <2>1 DEF TypeOK, Requests
    <2>3. cacheMem = image[req[c].sec]
      BY <2>1, <2>2 DEF Inv, SerialInv, CacheHoldsItsSector
    <2>4. Asked[c] = req[c] /\ Asked' = [Asked EXCEPT ![c] = Device!NoCall]
      BY <1>0, <1>e, <1>6 DEF CopyOut, Return, TypeOK
    <2>5. Device!Read(c)
      BY <2>1, <2>3, <2>4 DEF Device!Read, Device!Answer, Asked
    <2> QED
      BY <2>5 DEF Device!Next
  <1>7. CASE CopyIn(c)
    <2>1. /\ pc[c] = "copy" /\ req[c].op = "write" /\ cacheId = req[c].sec /\ dirty
          /\ UNCHANGED <<flash, dirty, cacheId>>
          /\ image' = [image EXCEPT ![req[c].sec][req[c].off] = req[c].val]
          /\ result' = [result EXCEPT ![c] = "ok"]
      BY <1>7 DEF CopyIn, Return, Inv, ClientInv
    <2>2. Asked[c] = req[c] /\ Asked' = [Asked EXCEPT ![c] = Device!NoCall]
      BY <1>0, <1>e, <1>7 DEF CopyIn, Return, TypeOK
    <2>3. Device!Write(c)
      BY <2>1, <2>2 DEF Device!Write, Device!Answer, Asked
    <2> QED
      BY <2>3 DEF Device!Next
  <1> QED
    BY <1>1, <1>2, <1>3, <1>4, <1>5, <1>6, <1>7 DEF ClientStep

\* So is a step of the flush thread.
LEMMA FlushDevice ==
    ASSUME Inv, Sound, Sound', FlushStep \/ FlushTimeout
    PROVE  [Device!Next]_(Device!vars)
  <1> USE DEF cacheVars, semVars, callVars, history, nvsVars
  <1>0. TypeOK /\ CallInv
    BY DEF Inv
  <1>f. \A l \in FlushLabels : Goto(Flusher, l) /\ req' = req => Asked' = Asked
    BY <1>0, GotoFlusher, AskedStays
  <1>1. CASE FlushCheck \/ FlushArgs \/ FlushLoop \/ FlushTimeout \/ NvsFail
             \/ \E o \in Offsets : NvsVerify(o)
    <2>1. UNCHANGED <<image, flash, dirty, cacheId, result, req>>
      BY <1>1 DEF FlushCheck, FlushArgs, FlushLoop, FlushTimeout, NvsFail, NvsVerify
    <2>2. pc' = pc \/ \E l \in FlushLabels : Goto(Flusher, l)
      BY <1>1 DEF FlushCheck, FlushArgs, FlushLoop, FlushTimeout, NvsFail, NvsVerify,
                  FlushLabels
    <2>3. Asked' = Asked
      BY <1>0, <1>f, <2>1, <2>2, AskedStays
    <2> QED
      BY <2>1, <2>3 DEF Device!vars, Asked
  <1>2. CASE NvsErase \/ \E o \in Offsets : NvsProgram(o)
    <2>1. /\ dirty /\ target = cacheId /\ target \in Sectors
          /\ UNCHANGED <<image, result, dirty, cacheId>>
      BY <1>0, <1>2 DEF NvsErase, NvsProgram, Inv, FlushInPlace, CallInv
    <2>2. \E img \in [Offsets -> Contents] : flash' = [flash EXCEPT ![target] = img]
      <3>1. CASE NvsErase
        BY <3>1 DEF NvsErase, Contents
      <3>2. ASSUME NEW o \in Offsets, NvsProgram(o)
            PROVE  \E img \in [Offsets -> Contents] : flash' = [flash EXCEPT ![target] = img]
        <4>1. flash' = [flash EXCEPT ![target] = [flash[target] EXCEPT ![o] = cacheMem[o]]]
          BY <3>2 DEF NvsProgram
        <4>2. [flash[target] EXCEPT ![o] = cacheMem[o]] \in [Offsets -> Contents]
          BY <1>0, <2>1 DEF TypeOK, Image
        <4> QED
          BY <4>1, <4>2
      <3> QED
        BY <1>2, <3>1, <3>2
    <2>3. \E l \in FlushLabels : Goto(Flusher, l) /\ req' = req
      BY <1>2 DEF NvsErase, NvsProgram, FlushLabels
    <2>4. Device!WriteBack(cacheId)
      BY <1>f, <2>1, <2>2, <2>3 DEF Device!WriteBack, Asked
    <2> QED
      BY <2>1, <2>4 DEF Device!Next
  <1>3. CASE FlushClear
    <2>1. /\ dirty /\ dirty' = FALSE /\ flash[cacheId] = cacheMem
          /\ UNCHANGED <<image, result, flash, cacheId>>
      BY <1>3 DEF FlushClear, Inv, LabelInv
    <2>2. cacheId \in Sectors /\ cacheMem = image[cacheId]
      BY <1>0, <2>1 DEF TypeOK, Inv, ClientInv, LabelInv, CacheHoldsItsSector
    <2>3. Goto(Flusher, "post") /\ "post" \in FlushLabels /\ req' = req
      BY <1>3 DEF FlushClear, FlushLabels
    <2>4. Device!Close(cacheId)
      BY <1>f, <2>1, <2>2, <2>3 DEF Device!Close, Asked
    <2> QED
      BY <2>2, <2>4 DEF Device!Next
  <1>4. CASE FlushPost
    <2>1. UNCHANGED <<image, flash, dirty, cacheId, req>>
      BY <1>4 DEF FlushPost
    <2>2. CASE \A c \in Clients : pc[c] # "wait"
      <3>1. result' = result /\ \A c \in Clients : pc'[c] = pc[c]
        BY <1>0, <1>4, <2>2, ConstAssumption DEF FlushPost, TypeOK, Tasks
      <3>2. Asked' = Asked
        BY <1>0, <2>1, <3>1, AskedStays
      <3> QED
        BY <2>1, <3>1, <3>2 DEF Device!vars, Asked
    <2>3. ASSUME NEW c \in Clients, pc[c] = "wait", SyncResult(c),
                 pc' = [pc EXCEPT ![c] = AfterSync(c), ![Flusher] = "loop"]
          PROVE  [Device!Next]_(Device!vars)
      <3>1. AfterSync(c) \in ClientLabels /\ "loop" \in FlushLabels
        BY DEF AfterSync, ClientLabels, FlushLabels
      <3>2. \A d \in Clients : pc'[d] = IF d = c THEN AfterSync(c) ELSE pc[d]
        BY <1>0, <2>3, <3>1, ConstAssumption DEF TypeOK, Tasks
      <3>3. ~dirty
        BY <1>4, <2>3 DEF FlushPost, Inv, TokenInv, Sound
      <3>4. CASE req[c].op = "sync"
        <4>1. /\ Asked[c] = req[c] /\ Asked' = [Asked EXCEPT ![c] = Device!NoCall]
              /\ result' = [result EXCEPT ![c] = "ok"]
          BY <1>0, <2>1, <2>3, <3>2, <3>4, AskedEnds DEF AfterSync, SyncResult
        <4>2. Device!Sync(c)
          BY <2>1, <3>3, <3>4, <4>1 DEF Device!Sync, Device!Answer, Asked
        <4> QED
          BY <4>2 DEF Device!Next
      <3>5. CASE req[c].op # "sync"
        <4>w. AfterSync(c) = "load" /\ pc[c] = "wait"
          BY <2>3, <3>5 DEF AfterSync
        <4>0. \A d \in Clients : pc'[d] = "idle" <=> pc[d] = "idle"
          BY <3>2, <4>w
        <4>1. Asked' = Asked /\ result' = result
          BY <1>0, <2>1, <2>3, <3>5, <4>0, AskedStays DEF SyncResult
        <4> QED
          BY <2>1, <4>1 DEF Device!vars, Asked
      <3> QED
        BY <3>4, <3>5
    <2> QED
      BY <1>4, <2>2, <2>3 DEF FlushPost
  <1> QED
    BY <1>1, <1>2, <1>3, <1>4 DEF FlushStep

\* The start of a call.
LEMMA BeginDevice ==
    ASSUME Inv, NEW c \in Clients, NEW r \in Requests, Begin(c, r)
    PROVE  [Device!Next]_(Device!vars)
  <1>1. PICK l \in {"sync", "lookup"} : Goto(c, l)
    BY DEF Begin
  <1>2. l \in ClientLabels /\ TypeOK /\ pc[c] = "idle"
    BY <1>1 DEF ClientLabels, Inv, Begin
  <1>3. /\ UNCHANGED <<image, flash, dirty, cacheId>>
        /\ req' = [req EXCEPT ![c] = r] /\ result' = [result EXCEPT ![c] = "none"]
    BY DEF Begin, cacheVars, nvsVars
  <1>4. \A d \in Clients : pc'[d] = IF d = c THEN l ELSE pc[d]
    BY <1>1, <1>2, GotoClient
  <1>5. Asked[c] = Device!NoCall /\ Asked' = [Asked EXCEPT ![c] = r]
    BY <1>2, <1>3, <1>4 DEF Asked, Outstanding, Device!NoCall, TypeOK
  <1>6. Device!Call(c, r)
    BY <1>3, <1>5 DEF Device!Call, Asked
  <1>7. r \in Device!Requests
    BY DEF Requests, Device!Requests
  <1> QED
    BY <1>6, <1>7 DEF Device!Next

\* Executions without a breach implement a block device that answers each read
\* with what was last written to the block it asked for, changes by a write the
\* block it names only, and puts one sector at risk at most.
THEOREM ImplementsBlockDevice == SoundSpec => BlockDeviceSpec
  <1>1. Init => Device!Init
    BY ConstAssumption
    DEF Init, RamAfterBoot, Device!Init, Device!NoCall, Image, Outstanding, Tasks
  <1>2. Inv /\ [Next /\ breach' = {}]_vars => [Device!Next]_(Device!vars)
    <2> SUFFICES ASSUME Inv, [Next /\ breach' = {}]_vars
                 PROVE  [Device!Next]_(Device!vars)
      OBVIOUS
    <2>1. CASE UNCHANGED vars
      BY <2>1 DEF vars, Device!vars, Outstanding
    <2>2. CASE PowerCycle
      <3>1. Device!PowerCut
        BY <2>2, ConstAssumption
        DEF PowerCycle, Device!PowerCut, Device!NoCall, Outstanding, Tasks
      <3> QED
        BY <3>1 DEF Device!Next
    <2>3. CASE Next /\ Sound' /\ ~PowerCycle
      <3>1. Sound
        BY <2>3, BreachStays
      <3>2. ASSUME NEW c \in Clients, NEW r \in Requests, Begin(c, r)
            PROVE  [Device!Next]_(Device!vars)
        BY <2>3, <3>2, BeginDevice DEF Sound
      <3> QED
        BY <2>3, <3>1, <3>2, ClientDevice, FlushDevice DEF Next
    <2> QED
      BY <2>1, <2>2, <2>3 DEF Sound
  <1>3. [Next /\ breach' = {}]_vars => [Next]_vars
    OBVIOUS
  <1>4. SoundSpec => []Inv
    BY <1>3, InvariantHolds, PTL DEF SoundSpec, Spec
  <1> QED
    BY <1>1, <1>2, <1>4, PTL DEF SoundSpec, BlockDeviceSpec, Device!Spec
=============================================================================

-------------------------- MODULE UsbStorageProofs --------------------------
(* The loan of the flash disk is safe for any number of objects. *)
EXTENDS UsbStorage, TLAPS

\* The loan protocol starts in, and every step of Python and of the daemon
\* stays in, LoanInv.
LEMMA LoanInit == StorageInit => LoanInv
<1> SUFFICES ASSUME StorageInit
             PROVE  LoanInv
  OBVIOUS
<1>1. 1 \in Objects
  BY MaxObjectsAssumption DEF Objects
<1>2. token \in [Objects -> BOOLEAN] /\ held \in [Objects -> BOOLEAN]
  BY DEF StorageInit
<1>3. StorageTypeOK
  BY <1>1, <1>2 DEF StorageInit, StorageTypeOK, PyPlaces, DaemonPlaces
<1> QED
  BY <1>3
  DEF StorageInit, LoanInv, ClearingExcludesOpening, EnabledWhileInUse

LEMMA LoanStep == LoanInv /\ [StorageNext]_storageVars => LoanInv'
<1> SUFFICES ASSUME LoanInv, [StorageNext]_storageVars
             PROVE  LoanInv'
  OBVIOUS
<1> USE MaxObjectsAssumption
    DEF LoanInv, StorageTypeOK, Objects, PyPlaces, DaemonPlaces,
        ClearingExcludesOpening, EnabledWhileInUse
<1>1. CASE EnableLoad
  BY <1>1 DEF EnableLoad, Load, At, usbVars
<1>2. CASE EnableLock
  BY <1>2 DEF EnableLock, Lock, At
<1>3. CASE EnableSet
  BY <1>3 DEF EnableSet, At
<1>4. CASE EnableUnlock
  BY <1>4 DEF EnableUnlock, Unlock, At
<1>5. CASE DisableLoad
  BY <1>5 DEF DisableLoad, Load, At, usbVars
<1>6. CASE DisablePend
  BY <1>6 DEF DisablePend, At
<1>7. CASE DisableLoadMutex
  BY <1>7 DEF DisableLoadMutex, Load, At, usbVars
<1>8. CASE DisableLock
  BY <1>8 DEF DisableLock, Lock, At
<1>9. CASE DisableCheck
  BY <1>9 DEF DisableCheck, At, usbVars
<1>10. CASE DisableClear
  BY <1>10 DEF DisableClear, At
<1>11. CASE DisableUnlock
  BY <1>11 DEF DisableUnlock, Unlock, At
<1>12. CASE InitSem
  BY <1>12 DEF InitSem, At
<1>13. CASE InitMutex
  BY <1>13 DEF InitMutex, At
<1>14. CASE InitHangs
  BY <1>14 DEF InitHangs, At, usbVars
<1>15. CASE CallOpen \/ CallClose \/ CallBlock \/ FlushDone \/ BlockDone
  BY <1>15 DEF CallOpen, CallClose, CallBlock, FlushDone, BlockDone, usbVars, pyVars
<1>16. CASE OpenRefused
  BY <1>16 DEF OpenRefused, usbVars, pyVars
<1>17. CASE OpenGranted
  BY <1>17 DEF OpenGranted, pyVars
<1>18. CASE OpenHangs
  BY <1>18 DEF OpenHangs, pyVars
<1>19. CASE CloseUsb
  BY <1>19 DEF CloseUsb, pyVars
<1>20. CASE UNCHANGED storageVars
  BY <1>20 DEF storageVars, usbVars, pyVars
<1> QED
  BY <1>1, <1>2, <1>3, <1>4, <1>5, <1>6, <1>7, <1>8, <1>9, <1>10, <1>11,
     <1>12, <1>13, <1>14, <1>15, <1>16, <1>17, <1>18, <1>19, <1>20
  DEF StorageNext, Python, StorageDaemon, OpenUsb

\* LoanInv holds in every state of the loan protocol.
THEOREM LoanInvariant == StorageSpec => []LoanInv
  BY LoanInit, LoanStep, PTL DEF StorageSpec

\* disable_usb never takes the disk from a host that uses it, unless its mutex
\* was replaced between loading and locking: EnabledWhileInUse for any number
\* of storage_init calls.
THEOREM LoanKept == StorageSpec => []EnabledWhileInUse
<1>1. LoanInv => EnabledWhileInUse
  BY DEF LoanInv
<1> QED
  BY LoanInvariant, <1>1, PTL

\* The daemon and storage.c agree on whether the drive is open.
THEOREM DriveAgreed == StorageSpec => []DriveIsInUse
<1>1. LoanInv => DriveIsInUse
  BY DEF LoanInv, DriveIsInUse
<1> QED
  BY LoanInvariant, <1>1, PTL

\* Nothing is opened between disable_usb's test and its clearing.
THEOREM ClearingExclusive == StorageSpec => []ClearingExcludesOpening
<1>1. LoanInv => ClearingExcludesOpening
  BY DEF LoanInv
<1> QED
  BY LoanInvariant, <1>1, PTL
=============================================================================

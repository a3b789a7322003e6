------------------------- MODULE InstallLockProofs -------------------------
(***************************************************************************)
(* Proofs about InstallLock, for any number of processes, none of which is *)
(* killed or slower than the stale limit while it holds the lock.          *)
(***************************************************************************)
EXTENDS InstallLock, TLAPS

\* The lock file names the one process that is past the lock, and is not stale.
Locked ==
    /\ \A p \in Procs : pc[p] \in Holding => lock = p
    /\ lock # NoProc => lock \in Procs /\ pc[lock] \in Holding
    /\ ~stale
    /\ \A p \in Procs : pc[p] \notin {"unlink", "dead"}

\* What the holder saw when it looked again is still so: nobody else writes.
Fresh == \A p \in Procs : pc[p] \in {"download", "open"} => file = "none"

IInv == TypeOK /\ Locked /\ Fresh

\* Before the first process there is no lock.
LEMMA InitIInv == Init => IInv
  BY NoProcIsNew DEF Init, IInv, TypeOK, Locked, Fresh, Pcs, Waiting, Holding

\* Every step preserves the invariant.
LEMMA NextIInv ==
    ASSUME Crashes = FALSE, Patient = TRUE
    PROVE  IInv /\ [Next]_vars => IInv'
<1> SUFFICES ASSUME IInv, [Next]_vars PROVE IInv'
  OBVIOUS
<1> USE NoProcIsNew DEF IInv, TypeOK, Locked, Fresh, Pcs, Waiting, Holding, Goto
<1>1. ASSUME NEW p \in Procs, Begin(p) PROVE IInv'
  BY <1>1 DEF Begin
<1>2. ASSUME NEW p \in Procs, Install(p) PROVE IInv'
  <2>1. CASE Look(p)
    BY <2>1 DEF Look
  <2>2. CASE Create(p)
    BY <2>2 DEF Create
  <2>3. CASE Stat(p)
    BY <2>3 DEF Stat
  <2>4. CASE Unlink(p)
    BY <2>4 DEF Unlink
  <2>5. CASE Wait(p)
    BY <2>5 DEF Wait
  <2>6. CASE Recheck(p)
    BY <2>6 DEF Recheck
  <2>7. CASE Download(p)
    BY <2>7 DEF Download
  <2>8. CASE DownloadFails(p)
    BY <2>8 DEF DownloadFails
  <2>9. CASE Open(p)
    BY <2>9 DEF Open
  <2>10. CASE Copy(p)
    BY <2>10 DEF Copy
  <2>11. CASE CopyFails(p)
    BY <2>11 DEF CopyFails
  <2>12. CASE Release(p)
    BY <2>12 DEF Release
  <2> QED
    BY <1>2, <2>1, <2>2, <2>3, <2>4, <2>5, <2>6, <2>7, <2>8, <2>9, <2>10, <2>11, <2>12 DEF Install, Work
<1>3. ASSUME NEW p \in Procs, DeadlinePasses(p) PROVE IInv'
  BY <1>3 DEF DeadlinePasses
<1>4. ASSUME NEW p \in Procs, Crash(p) PROVE IInv'
  BY <1>4 DEF Crash
<1>5. CASE LockAges
  BY <1>5 DEF LockAges
<1>6. CASE UNCHANGED vars
  BY <1>6 DEF vars
<1> QED
  BY <1>1, <1>2, <1>3, <1>4, <1>5, <1>6 DEF Next

\* While no holder is killed or outlives the stale limit, any number of processes
\* install one after the other.
THEOREM InstallersAreSerialized ==
    ASSUME Crashes = FALSE, Patient = TRUE
    PROVE  Spec => []Serialized
<1>1. Init => IInv
  BY InitIInv
<1>2. IInv /\ [Next]_vars => IInv'
  BY NextIInv
<1>3. IInv => Serialized
  BY DEF IInv, Locked, Serialized
<1> QED
  BY <1>1, <1>2, <1>3, PTL DEF Spec

\* Under the same conditions an installed helper is never written again.
THEOREM InstalledHelperStays ==
    ASSUME Crashes = FALSE, Patient = TRUE
    PROVE  Spec => WholeStays
<1>1. Init => IInv
  BY InitIInv
<1>2. IInv /\ [Next]_vars => IInv'
  BY NextIInv
<1>3. ASSUME IInv, [Next]_vars PROVE [file = "whole" => file' = "whole"]_vars
  <2> SUFFICES ASSUME Next, file = "whole" PROVE file' = "whole"
    BY <1>3
  <2>1. ASSUME NEW p \in Procs, Install(p) PROVE file' = "whole"
    BY <1>3, <2>1 DEF Install, Work, Look, Create, Stat, Unlink, Wait, Recheck, Download, DownloadFails,
       Open, Copy, CopyFails, Release, Goto, IInv, Fresh
  <2> QED
    BY <2>1 DEF Next, Begin, DeadlinePasses, Crash, LockAges
<1> QED
  BY <1>1, <1>2, <1>3, PTL DEF Spec, WholeStays
=============================================================================

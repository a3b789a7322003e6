---------------------------- MODULE InstallLock ----------------------------
(***************************************************************************)
(* First use of the networking helper (minit/cli.py): each minit process   *)
(* that finds no cloudflared in the cache takes an install lock - a file   *)
(* created with O_EXCL - downloads and verifies the helper and copies it   *)
(* into the cache, while the others poll.  A lock older than the stale     *)
(* limit is removed by whoever sees it, a waiter gives up at its deadline. *)
(*                                                                         *)
(* Time is two facts: whether the lock file has passed the stale limit,    *)
(* and whether a process has passed its deadline.                          *)
(***************************************************************************)
CONSTANTS
    Procs,      \* minit processes, each installing at most once
    NoProc,
    Crashes,    \* may a process be killed?
    Patient     \* does an installation end before its lock is stale?

ASSUME NoProcIsNew == NoProc \notin Procs

ASSUME SwitchesAreBoolean == Crashes \in BOOLEAN /\ Patient \in BOOLEAN

VARIABLES
    file,       \* the helper in the cache: "none", "partial" or "whole"
    lock,       \* the process that created the lock file, or NoProc
    stale,      \* has the lock file passed INSTALL_LOCK_STALE_SECONDS?
    late,       \* has the process passed INSTALL_LOCK_TIMEOUT_SECONDS?
    pc

vars == <<file, lock, stale, late, pc>>

Waiting == {"look", "create", "stat", "unlink", "wait"}

Holding == {"recheck", "download", "open", "copy", "release", "abort"}

\* "ready": the path of the helper is returned; "failed": an error is shown.
Pcs == {"idle", "ready", "failed", "dead"} \cup Waiting \cup Holding

Init ==
    /\ file = "none"
    /\ lock = NoProc
    /\ stale = FALSE
    /\ late = [p \in Procs |-> FALSE]
    /\ pc = [p \in Procs |-> "idle"]

Goto(p, from, to) ==
    /\ pc[p] = from
    /\ pc' = [pc EXCEPT ![p] = to]

Begin(p) ==
    /\ Goto(p, "idle", "look")
    /\ UNCHANGED <<file, lock, stale, late>>

\* cached.exists(): a file of that name is taken for the helper.
Look(p) ==
    /\ Goto(p, "look", IF file # "none" THEN "ready" ELSE "create")
    /\ UNCHANGED <<file, lock, stale, late>>

\* Variant: without O_EXCL an existing lock file is opened as well.
CreateShared(p) ==
    /\ Goto(p, "create", "recheck")
    /\ lock' = p
    /\ stale' = FALSE
    /\ UNCHANGED <<file, late>>

\* os.open(O_CREAT | O_EXCL).
Create(p) ==
    /\ pc[p] = "create"
    /\ IF lock = NoProc
       THEN /\ pc' = [pc EXCEPT ![p] = "recheck"]
            /\ lock' = p
            /\ stale' = FALSE
       ELSE /\ pc' = [pc EXCEPT ![p] = "stat"]
            /\ UNCHANGED <<lock, stale>>
    /\ UNCHANGED <<file, late>>

\* _try_remove_stale_install_lock: the age of the lock file there is now ...
Stat(p) ==
    /\ Goto(p, "stat", IF lock # NoProc /\ stale THEN "unlink" ELSE "wait")
    /\ UNCHANGED <<file, lock, stale, late>>

\* ... and the removal of the lock file there is then.
Unlink(p) ==
    /\ Goto(p, "unlink", "wait")
    /\ lock' = NoProc
    /\ stale' = FALSE
    /\ UNCHANGED <<file, late>>

\* Variant: a waiter polls for ever.
WaitForEver(p) ==
    /\ Goto(p, "wait", "look")
    /\ UNCHANGED <<file, lock, stale, late>>

\* Give up after the deadline, otherwise sleep and try again.
Wait(p) ==
    /\ Goto(p, "wait", IF late[p] THEN "failed" ELSE "look")
    /\ UNCHANGED <<file, lock, stale, late>>

\* Variant: the lock is trusted to mean that nothing was installed before.
RecheckNothing(p) ==
    /\ Goto(p, "recheck", "download")
    /\ UNCHANGED <<file, lock, stale, late>>

\* The holder looks again.
Recheck(p) ==
    /\ Goto(p, "recheck", IF file # "none" THEN "release" ELSE "download")
    /\ UNCHANGED <<file, lock, stale, late>>

\* The asset is in a temporary directory and its checksum is right.
Download(p) ==
    /\ Goto(p, "download", "open")
    /\ UNCHANGED <<file, lock, stale, late>>

\* The network fails, or the checksum is wrong.
DownloadFails(p) ==
    /\ Goto(p, "download", "abort")
    /\ UNCHANGED <<file, lock, stale, late>>

\* The copy truncates or creates the file in the cache.
Open(p) ==
    /\ Goto(p, "open", "copy")
    /\ file' = "partial"
    /\ UNCHANGED <<lock, stale, late>>

Copy(p) ==
    /\ Goto(p, "copy", "release")
    /\ file' = "whole"
    /\ UNCHANGED <<lock, stale, late>>

\* No space: what was written stays.
CopyFails(p) ==
    /\ Goto(p, "copy", "abort")
    /\ UNCHANGED <<file, lock, stale, late>>

\* finally: whatever lock file there is goes.
Release(p) ==
    /\ \/ Goto(p, "release", "ready")
       \/ Goto(p, "abort", "failed")
    /\ lock' = NoProc
    /\ stale' = FALSE
    /\ UNCHANGED <<file, late>>

\* The steps a process takes by itself: urlretrieve has no timeout and may never return.
Work(p) ==
    \/ Look(p) \/ Create(p) \/ Stat(p) \/ Unlink(p) \/ Wait(p) \/ Recheck(p)
    \/ Open(p) \/ Copy(p) \/ CopyFails(p) \/ Release(p)

Install(p) == Work(p) \/ Download(p) \/ DownloadFails(p)

\* The lock file gets old; a patient holder is done, or dead, by then.
LockAges ==
    /\ lock # NoProc
    /\ Patient => pc[lock] \notin Holding
    /\ ~stale
    /\ stale' = TRUE
    /\ UNCHANGED <<file, lock, late, pc>>

DeadlinePasses(p) ==
    /\ pc[p] \in Waiting
    /\ ~late[p]
    /\ late' = [late EXCEPT ![p] = TRUE]
    /\ UNCHANGED <<file, lock, stale, pc>>

Crash(p) ==
    /\ Crashes
    /\ pc[p] \in Waiting \cup Holding
    /\ pc' = [pc EXCEPT ![p] = "dead"]
    /\ UNCHANGED <<file, lock, stale, late>>

Next ==
    \/ \E p \in Procs : Begin(p) \/ Install(p) \/ DeadlinePasses(p) \/ Crash(p)
    \/ LockAges

Spec == Init /\ [][Next]_vars

\* Processes run and deadlines pass, but a download need not end; no lock has to get stale
\* within a deadline, which is the shorter one.
FairSpec ==
    /\ Spec
    /\ \A p \in Procs : WF_vars(Work(p)) /\ WF_vars(DeadlinePasses(p))

-----------------------------------------------------------------------------
(* Properties *)

\* Every variable has the shape the code gives it.
TypeOK ==
    /\ file \in {"none", "partial", "whole"}
    /\ lock \in Procs \cup {NoProc}
    /\ stale \in BOOLEAN
    /\ late \in [Procs -> BOOLEAN]
    /\ pc \in [Procs -> Pcs]

\* "the installer is now serialized across local Minit processes"
\* (docs/LOCAL_MANAGER.md 191): no two processes are past the lock at once.
Serialized == \A p, q \in Procs : pc[p] \in Holding /\ pc[q] \in Holding => p = q

\* The helper that a process may already be running is never written again: whoever
\* takes the lock sees what was installed before (cli.py 215).
WholeStays == [][file = "whole" => file' = "whole"]_vars

\* Nobody waits for another for ever: an attempt ends, with the helper, with an error or
\* killed, unless its own download hangs - however long a holder downloads, and though a
\* killed holder's lock stays (cli.py 196, 206).
NobodyWaitsForEver ==
    \A p \in Procs :
        pc[p] \in Waiting \cup Holding ~> pc[p] \in {"ready", "failed", "dead", "download"}
=============================================================================

------------------------------ MODULE Backups ------------------------------
(***************************************************************************)
(* Encrypted backups of .minit/data (minit/backups.py) and the lifecycle   *)
(* around them: minit backup create stops the service, reads the data file *)
(* by file, stores and indexes the backup and starts the service again;    *)
(* minit backup restore unpacks a backup beside the data directory and     *)
(* swaps the two directories by renaming.                                  *)
(*                                                                         *)
(* The service is up or down: LocalRuntime is what stands behind           *)
(* runtime_is_running, stop_local_service and start_local_service.         *)
(* Encryption is left out: a stored backup is its contents, and opens.     *)
(* The contents of a file are one of a few versions.                       *)
(***************************************************************************)
EXTENDS Naturals, FiniteSets

CONSTANTS
    Ops,        \* create and restore commands, each run once; a backup's id
    Files, Versions,
    Absent,     \* the version of a file that does not exist
    NoDir, NoOp,
    Serial,     \* do users wait for one command before they give the next?
    Crashes,    \* may commands be killed?
    Errors      \* may the file system, and stopping or starting the service, raise errors?

ASSUME NullsAreNew ==
    /\ Absent \notin Versions
    /\ NoOp \notin Ops
    /\ NoDir \notin [Files -> Versions \cup {Absent}]

ASSUME SwitchesAreBoolean == Serial \in BOOLEAN /\ Crashes \in BOOLEAN /\ Errors \in BOOLEAN

\* The contents of a directory.
Dir == [Files -> Versions \cup {Absent}]

Empty == [f \in Files |-> Absent]

VARIABLES
    svc,        \* runtime_is_running
    cur,        \* .minit/data, or NoDir
    stored,     \* the backup files, by id
    index,      \* the ids in backups/index.json
    pc,         \* where each command is
    was,        \* was_running
    todo,       \* create: files listed and not yet read
    part,       \* create: the archive so far; restore: the staging directory
    held,       \* create: the index entries it has loaded
    pick,       \* restore: the backup it restores
    old         \* data-before-restore-*: the data a restore has set aside

opVars == <<was, todo, part, held, pick>>
vars   == <<svc, cur, stored, index, pc, was, todo, part, held, pick, old>>

CreatePcs == {"createCheck", "createStop", "list", "read", "verify", "load", "save"}

RestorePcs == {"restoreCheck", "restoreStop", "extract", "aside", "swap", "drop",
               "undo", "cleanup"}

\* "unstopped", "unstarted": the command ended with the error that the service could not
\* be stopped, or that it did not start.
FinalPcs == {"done", "unstopped", "unstarted", "dead"}

OpPcs == {"idle", "finally"} \cup CreatePcs \cup RestorePcs \cup FinalPcs

Active(o) == pc[o] \notin {"idle"} \cup FinalPcs

\* Users who take turns give no command while another one runs.
MyTurn == Serial => \A o \in Ops : ~Active(o)

Init ==
    /\ svc = FALSE
    /\ cur = NoDir
    /\ stored = [o \in Ops |-> NoDir]
    /\ index = {}
    /\ pc = [o \in Ops |-> "idle"]
    /\ was = [o \in Ops |-> FALSE]
    /\ todo = [o \in Ops |-> {}]
    /\ part = [o \in Ops |-> NoDir]
    /\ held = [o \in Ops |-> {}]
    /\ pick = [o \in Ops |-> NoOp]
    /\ old = [o \in Ops |-> NoDir]

Goto(o, from, to) ==
    /\ pc[o] = from
    /\ pc' = [pc EXCEPT ![o] = to]

-----------------------------------------------------------------------------
(* The service and its users *)

\* The environment of an app that starts has a data directory.
MakeData == cur' = IF cur = NoDir THEN Empty ELSE cur

\* deploy, start and restart, or the login entry.
ServiceStarts ==
    /\ ~svc
    /\ MyTurn
    /\ svc' = TRUE
    /\ MakeData
    /\ UNCHANGED <<stored, index, pc, opVars, old>>

\* minit stop, or the app ends.
ServiceStops ==
    /\ svc
    /\ MyTurn
    /\ svc' = FALSE
    /\ UNCHANGED <<cur, stored, index, pc, opVars, old>>

\* The app creates, changes or deletes one of its files.
AppWrites(f) ==
    /\ svc
    /\ cur # NoDir
    /\ \E v \in (Versions \cup {Absent}) \ {cur[f]} : cur' = [cur EXCEPT ![f] = v]
    /\ UNCHANGED <<svc, stored, index, pc, opVars, old>>

\* runtime_is_running, remembered in was_running.
Check(o, from, stop, go) ==
    /\ Goto(o, from, IF svc THEN stop ELSE go)
    /\ was' = [was EXCEPT ![o] = svc]
    /\ UNCHANGED <<svc, cur, stored, index, todo, part, held, pick, old>>

\* stop_local_service.
StopService(o, from, to) ==
    /\ Goto(o, from, to)
    /\ svc' = FALSE
    /\ UNCHANGED <<cur, stored, index, opVars, old>>

\* The end of the command's memory.
Forget(o) ==
    /\ was' = [was EXCEPT ![o] = FALSE]
    /\ todo' = [todo EXCEPT ![o] = {}]
    /\ held' = [held EXCEPT ![o] = {}]
    /\ pick' = [pick EXCEPT ![o] = NoOp]

\* stop_local_service raises, before the service has ended (control.json) or after it has
\* (runtime.json): it is called outside the try block, and nobody starts the service.
StopFails(o) ==
    /\ Errors
    /\ pc[o] \in {"createStop", "restoreStop"}
    /\ pc' = [pc EXCEPT ![o] = "unstopped"]
    /\ svc' \in {svc, FALSE}
    /\ Forget(o)
    /\ UNCHANGED <<cur, stored, index, part, old>>

\* Variant: the service is not started again.
FinishLeavesStopped(o) ==
    /\ Goto(o, "finally", "done")
    /\ part' = [part EXCEPT ![o] = NoDir]
    /\ Forget(o)
    /\ UNCHANGED <<svc, cur, stored, index, old>>

\* finally: start_local_service if the service was running.  It raises if the service
\* is running already, and may raise with the service up (a deadline) or down.
Finish(o) ==
    /\ pc[o] = "finally"
    /\ \/ /\ ~was[o]
          /\ pc' = [pc EXCEPT ![o] = "done"]
          /\ UNCHANGED <<svc, cur>>
       \/ /\ was[o] /\ ~svc
          /\ pc' = [pc EXCEPT ![o] = "done"]
          /\ svc' = TRUE
          /\ MakeData
       \/ /\ was[o] /\ svc
          /\ pc' = [pc EXCEPT ![o] = "unstarted"]
          /\ UNCHANGED <<svc, cur>>
       \/ /\ was[o] /\ ~svc /\ Errors
          /\ pc' = [pc EXCEPT ![o] = "unstarted"]
          /\ svc' \in BOOLEAN
          /\ MakeData
    /\ part' = [part EXCEPT ![o] = NoDir]
    /\ Forget(o)
    /\ UNCHANGED <<stored, index, old>>

-----------------------------------------------------------------------------
(* create_backup *)

CreateBegin(o) ==
    /\ MyTurn
    /\ Goto(o, "idle", "createCheck")
    /\ MakeData
    /\ UNCHANGED <<svc, stored, index, opVars, old>>

\* Variant: the service is left running.
CreateNeverStops(o) == Check(o, "createCheck", "list", "list")

CreateCheck(o) == Check(o, "createCheck", "createStop", "list")

CreateStop(o) == StopService(o, "createStop", "list")

Exists(f) == cur # NoDir /\ cur[f] # Absent

\* _write_backup_stream: the names are listed first ...
CreateList(o) ==
    /\ Goto(o, "list", "read")
    /\ todo' = [todo EXCEPT ![o] = {f \in Files : Exists(f)}]
    /\ part' = [part EXCEPT ![o] = Empty]
    /\ UNCHANGED <<svc, cur, stored, index, was, held, pick, old>>

\* ... then each file is read where it is.
CreateRead(o) ==
    /\ pc[o] = "read"
    /\ \E f \in todo[o] :
        /\ Exists(f)
        /\ part' = [part EXCEPT ![o][f] = cur[f]]
        /\ todo' = [todo EXCEPT ![o] = @ \ {f}]
    /\ UNCHANGED <<svc, cur, stored, index, pc, was, held, pick, old>>

\* A listed file is gone: the temporary file is removed.
CreateReadFails(o) ==
    /\ Goto(o, "read", "finally")
    /\ \E f \in todo[o] : ~Exists(f)
    /\ UNCHANGED <<svc, cur, stored, index, opVars, old>>

\* The complete temporary file is renamed to the backup's name.
CreatePublish(o) ==
    /\ Goto(o, "read", "verify")
    /\ todo[o] = {}
    /\ stored' = [stored EXCEPT ![o] = part[o]]
    /\ UNCHANGED <<svc, cur, index, opVars, old>>

\* verify_backup reads the stored file back.
CreateVerify(o) ==
    /\ Goto(o, "verify", "load")
    /\ UNCHANGED <<svc, cur, stored, index, opVars, old>>

CreateLoad(o) ==
    /\ Goto(o, "load", "save")
    /\ held' = [held EXCEPT ![o] = index]
    /\ UNCHANGED <<svc, cur, stored, index, was, todo, part, pick, old>>

\* The index becomes what was loaded and the new entry.
CreateSave(o) ==
    /\ Goto(o, "save", "finally")
    /\ index' = held[o] \cup {o}
    /\ UNCHANGED <<svc, cur, stored, opVars, old>>

\* Variant: a backup that failed is indexed all the same.
CreateErrorIndexes(o) ==
    /\ Errors
    /\ pc[o] \in {"list", "read", "verify", "load", "save"}
    /\ pc' = [pc EXCEPT ![o] = "load"]
    /\ UNCHANGED <<svc, cur, stored, index, opVars, old>>

\* The file system raises: no space, no permission.
CreateError(o) ==
    /\ Errors
    /\ pc[o] \in {"list", "read", "verify", "load", "save"}
    /\ pc' = [pc EXCEPT ![o] = "finally"]
    /\ UNCHANGED <<svc, cur, stored, index, opVars, old>>

Create(o) ==
    \/ CreateCheck(o) \/ CreateStop(o) \/ CreateList(o) \/ CreateRead(o)
    \/ CreateReadFails(o) \/ CreatePublish(o) \/ CreateVerify(o) \/ CreateLoad(o)
    \/ CreateSave(o) \/ CreateError(o)

-----------------------------------------------------------------------------
(* restore_backup *)

\* The backup exists and is verified before anything else is done.
RestoreBegin(o) ==
    /\ MyTurn
    /\ Goto(o, "idle", "restoreCheck")
    /\ \E b \in Ops : stored[b] # NoDir /\ pick' = [pick EXCEPT ![o] = b]
    /\ UNCHANGED <<svc, cur, stored, index, was, todo, part, held, old>>

\* Variant: nothing is extracted when there was nothing to stop.
RestoreSkipsExtract(o) == Check(o, "restoreCheck", "restoreStop", "aside")

RestoreCheck(o) == Check(o, "restoreCheck", "restoreStop", "extract")

RestoreStop(o) == StopService(o, "restoreStop", "extract")

\* _extract_verified_backup, into a staging directory that nobody else looks into.
RestoreExtract(o) ==
    /\ Goto(o, "extract", "aside")
    /\ part' = [part EXCEPT ![o] = stored[pick[o]]]
    /\ UNCHANGED <<svc, cur, stored, index, was, todo, held, pick, old>>

\* current.replace(old).
RestoreAside(o) ==
    /\ Goto(o, "aside", "swap")
    /\ old' = [old EXCEPT ![o] = cur]
    /\ cur' = NoDir
    /\ UNCHANGED <<svc, stored, index, opVars>>

\* staging.replace(current): onto nothing, or onto an empty directory.
RestoreSwap(o) ==
    /\ Goto(o, "swap", "drop")
    /\ cur \in {NoDir, Empty}
    /\ cur' = part[o]
    /\ part' = [part EXCEPT ![o] = NoDir]
    /\ UNCHANGED <<svc, stored, index, was, todo, held, pick, old>>

\* Variant: what was set aside is removed although the swap failed.
RestoreSwapFailureDrops(o) ==
    /\ Goto(o, "swap", "drop")
    /\ cur # NoDir \/ Errors
    /\ UNCHANGED <<svc, cur, stored, index, opVars, old>>

\* It raises: the directory has come back (Windows: even an empty one), or any error.
RestoreSwapFails(o) ==
    /\ Goto(o, "swap", "undo")
    /\ cur # NoDir \/ Errors
    /\ UNCHANGED <<svc, cur, stored, index, opVars, old>>

\* except: the data goes back, unless a data directory has come into being.
RestoreUndo(o) ==
    /\ Goto(o, "undo", "cleanup")
    /\ IF old[o] # NoDir /\ cur = NoDir
       THEN cur' = old[o] /\ old' = [old EXCEPT ![o] = NoDir]
       ELSE UNCHANGED <<cur, old>>
    /\ UNCHANGED <<svc, stored, index, opVars>>

RestoreDrop(o) ==
    /\ Goto(o, "drop", "cleanup")
    /\ old' = [old EXCEPT ![o] = NoDir]
    /\ UNCHANGED <<svc, cur, stored, index, opVars>>

\* finally: the staging directory is removed.
RestoreCleanup(o) ==
    /\ Goto(o, "cleanup", "finally")
    /\ part' = [part EXCEPT ![o] = NoDir]
    /\ UNCHANGED <<svc, cur, stored, index, was, todo, held, pick, old>>

RestoreError(o) ==
    /\ Errors
    /\ pc[o] \in {"extract", "aside"}
    /\ pc' = [pc EXCEPT ![o] = "cleanup"]
    /\ UNCHANGED <<svc, cur, stored, index, opVars, old>>

Restore(o) ==
    \/ RestoreCheck(o) \/ RestoreStop(o) \/ RestoreExtract(o) \/ RestoreAside(o)
    \/ RestoreSwap(o) \/ RestoreSwapFails(o) \/ RestoreUndo(o) \/ RestoreDrop(o)
    \/ RestoreCleanup(o) \/ RestoreError(o)

-----------------------------------------------------------------------------

\* The command is killed: its directories stay on disk, nobody starts the service.
Crash(o) ==
    /\ Crashes
    /\ Active(o)
    /\ pc' = [pc EXCEPT ![o] = "dead"]
    /\ part' = [part EXCEPT ![o] = NoDir]
    /\ Forget(o)
    /\ UNCHANGED <<svc, cur, stored, index, old>>

Next ==
    \/ ServiceStarts \/ ServiceStops
    \/ \E f \in Files : AppWrites(f)
    \/ \E o \in Ops : \/ CreateBegin(o) \/ Create(o)
                      \/ RestoreBegin(o) \/ Restore(o)
                      \/ StopFails(o) \/ Finish(o) \/ Crash(o)

Spec == Init /\ [][Next]_vars

\* The operating system runs a command that can take a step.
FairSpec == Spec /\ \A o \in Ops : WF_vars(Create(o) \/ Restore(o) \/ StopFails(o) \/ Finish(o))

-----------------------------------------------------------------------------
(* Properties *)

\* Every variable has the shape the code gives it; a restore has a backup in hand, and
\* an archive or a staging directory where it uses one.
TypeOK ==
    /\ svc \in BOOLEAN
    /\ cur \in Dir \cup {NoDir}
    /\ stored \in [Ops -> Dir \cup {NoDir}]
    /\ index \subseteq Ops
    /\ pc \in [Ops -> OpPcs]
    /\ was \in [Ops -> BOOLEAN]
    /\ todo \in [Ops -> SUBSET Files]
    /\ part \in [Ops -> Dir \cup {NoDir}]
    /\ held \in [Ops -> SUBSET Ops]
    /\ pick \in [Ops -> Ops \cup {NoOp}]
    /\ old \in [Ops -> Dir \cup {NoDir}]
    /\ \A o \in Ops : pc[o] \in RestorePcs => pick[o] \in Ops
    /\ \A o \in Ops : pc[o] \in {"read", "aside", "swap"} => part[o] # NoDir

\* minit backup list shows only backups that can be restored: an entry is written
\* after its file is complete in place, and no later index brings back another
\* (backups.py 400-411), whatever creates, fails and is killed at the same time.
IndexedIsStored == \A o \in index : stored[o] # NoDir

\* The data that a restore has set aside leaves that place only to go back, or when
\* the restored data has taken its own place (backups.py 480-489): no failure and no
\* other command makes a restore delete the only copy.
SetAsideIsNeverLost ==
    [][\A o \in Ops : old[o] # NoDir /\ old'[o] = NoDir
         => cur' = old[o] \/ part[o] = NoDir]_vars

\* "stops the managed service, ... then restarts the service"
\* (docs/BACKUP_AND_RECOVERY.md 139): what a command has stopped comes up again, or the
\* command reports that it could not start it, whatever fails after the stop
\* (backups.py 413, 488).  A stop that raises is the command's error, and leaves the
\* service as it is.
ServiceComesBack ==
    \A o \in Ops : was[o] /\ ~svc ~> svc \/ pc[o] = "unstarted"

\* "atomically replace .minit/data directory" (docs/BACKUP_AND_RECOVERY.md 161): the
\* service never comes up without a data directory while its data lies set aside.
NeverStartsBesideItsData ==
    [][~svc /\ svc' /\ cur = NoDir => \A o \in Ops : old[o] \in {NoDir, Empty}]_vars
=============================================================================

----------------------------- MODULE Snapshots -----------------------------
(***************************************************************************)
(* Snapshots of the source of a project, and the rollback to one of them   *)
(* (minit/snapshots.py).  A rollback first takes a safety snapshot, stops  *)
(* the service, writes file after file, and starts the service again.      *)
(* The user edits files meanwhile, at another terminal.                    *)
(*                                                                         *)
(* The contents of a file are the edit that made it.  An archive is a      *)
(* function of the files in it; its checksums always hold.                 *)
(***************************************************************************)
EXTENDS Terminals

CONSTANT LastFile

Files == 1..LastFile    \* in the order of their names

ASSUME FilesAreNatural == LastFile \in Nat

VARIABLES
    src,            \* the source files of each project
    archives,       \* its snapshots: id and files
    listed,         \* index.json: the ids
    before,         \* the source that the last rollback found, once it writes
    sm              \* what the commands remember

snapshotVars == <<src, archives, listed, before, sm>>
snapshotFiles == <<src, archives, listed, before>>

NoFiles == [f \in {} |-> None]

\* todo: files still to be read or written; zip: what is packed; pick: what is restored.
NoWork == [todo |-> {}, zip |-> NoFiles, pick |-> NoFiles, index |-> {}, was |-> FALSE]

\* The text of the only file there is at first.
Original == <<None, 0>>

\* What a file holds when its writing has begun and not ended.
Torn == <<None, 1>>

SnapshotsInit ==
    /\ src = [p \in Projects |-> [f \in Files |-> IF f = 1 THEN Original ELSE None]]
    /\ archives = [p \in Projects |-> {}]
    /\ listed = [p \in Projects |-> {}]
    /\ before = [p \in Projects |-> None]
    /\ sm = [t \in Terminals |-> NoWork]

Work(t) == sm[t]

Keep(t, work) == sm' = [sm EXCEPT ![t] = work]

Least(S) == CHOOSE x \in S : \A y \in S : x <= y

Present(p) == {f \in Files : src[p][f] # None}

\* The function g, with v at x.
With(g, x, v) == [y \in DOMAIN g \cup {x} |-> IF y = x THEN v ELSE g[y]]

-----------------------------------------------------------------------------
(* The agendas; ensure is AppKeys', stop and start are Projects' *)

TakeSnapshot == <<"ensure", "list", "pack", "store", "readIndex", "saveIndex">>

\* Variant: the safety snapshot is taken when the files have been written.
RollbackThenSave ==
    <<"ensure", "find", "wasRunning", "halt", "unpack", "revive", "report">> \o TakeSnapshot

Rollback ==
    <<"ensure", "find">> \o TakeSnapshot
        \o <<"wasRunning", "halt", "unpack", "revive", "report">>

Edit == <<"edit">>

-----------------------------------------------------------------------------
(* create_snapshot *)

\* _iter_source_files: an error if there is none.
List(t) ==
    /\ At(t, "list")
    /\ IF Present(In(t)) = {} THEN Quit(t, "list") ELSE Do(t, "list", <<>>)
    /\ Keep(t, [Work(t) EXCEPT !.todo = Present(In(t)), !.zip = NoFiles])
    /\ UNCHANGED snapshotFiles

\* One file is read into the archive; an error if it is gone.
Pack(t) ==
    LET p == In(t)
        f == Least(Work(t).todo)
    IN
    /\ At(t, "pack") /\ Work(t).todo # {}
    /\ IF src[p][f] = None
       THEN Quit(t, "pack") /\ UNCHANGED sm
       ELSE /\ Do(t, "pack", <<"pack">>)
            /\ Keep(t, [Work(t) EXCEPT !.todo = @ \ {f}, !.zip = With(@, f, src[p][f])])
    /\ UNCHANGED snapshotFiles

Packed(t) ==
    /\ Work(t).todo = {}
    /\ Do(t, "pack", <<>>)
    /\ UNCHANGED snapshotVars

\* Variant: the archive stays under its temporary name.
StoreNothing(t) ==
    /\ Do(t, "store", <<>>)
    /\ UNCHANGED snapshotVars

\* temp_path.replace(archive_path).
Store(t) ==
    /\ Do(t, "store", <<>>)
    /\ archives' = [archives EXCEPT ![In(t)] = @ \cup {[id |-> Fresh(t), files |-> Work(t).zip]}]
    /\ UNCHANGED <<src, listed, before, sm>>

ReadIndex(t) ==
    /\ Do(t, "readIndex", <<>>)
    /\ Keep(t, [Work(t) EXCEPT !.index = listed[In(t)]])
    /\ UNCHANGED snapshotFiles

SaveIndex(t) ==
    /\ Do(t, "saveIndex", <<>>)
    /\ listed' = [listed EXCEPT ![In(t)] = Work(t).index \cup {Fresh(t)}]
    /\ UNCHANGED <<src, archives, before, sm>>

-----------------------------------------------------------------------------
(* restore_snapshot *)

\* The user names a snapshot; it is there, or not.
Find(t) ==
    /\ At(t, "find")
    /\ \/ \E a \in archives[In(t)] :
            /\ Do(t, "find", <<>>)
            /\ Keep(t, [Work(t) EXCEPT !.pick = a.files])
       \/ Quit(t, "find") /\ UNCHANGED sm
    /\ UNCHANGED snapshotFiles

\* running is runtime_is_running.
WasRunning(t, running) ==
    /\ Do(t, "wasRunning", <<>>)
    /\ Keep(t, [Work(t) EXCEPT !.was = running, !.todo = DOMAIN Work(t).pick])
    /\ before' = [before EXCEPT ![In(t)] = src[In(t)]]
    /\ UNCHANGED <<src, archives, listed>>

Halt(t) ==
    /\ Do(t, "halt", IF Work(t).was THEN <<"stop">> ELSE <<>>)
    /\ UNCHANGED snapshotVars

\* Variant: a file that is there is not written.
UnpackMissing(t) ==
    LET f == Least(Work(t).todo) IN
    /\ Work(t).todo # {}
    /\ Do(t, "unpack", <<"unpack">>)
    /\ src' = [src EXCEPT ![In(t)][f] = IF @ = None THEN Work(t).pick[f] ELSE @]
    /\ Keep(t, [Work(t) EXCEPT !.todo = @ \ {f}])
    /\ UNCHANGED <<archives, listed, before>>

\* write_bytes first truncates the file, or makes it: an interruption leaves it torn.
Truncate(t) ==
    LET f == Least(Work(t).todo) IN
    /\ Work(t).todo # {} /\ src[In(t)][f] # Torn
    /\ Do(t, "unpack", <<"unpack">>)
    /\ src' = [src EXCEPT ![In(t)][f] = Torn]
    /\ UNCHANGED <<archives, listed, before, sm>>

\* Then it writes it, file by file: what is not in the archive stays.
Unpack(t) ==
    LET f == Least(Work(t).todo) IN
    /\ Work(t).todo # {} /\ src[In(t)][f] = Torn
    /\ Do(t, "unpack", <<"unpack">>)
    /\ src' = [src EXCEPT ![In(t)][f] = Work(t).pick[f]]
    /\ Keep(t, [Work(t) EXCEPT !.todo = @ \ {f}])
    /\ UNCHANGED <<archives, listed, before>>

Unpacked(t) ==
    /\ Work(t).todo = {}
    /\ Do(t, "unpack", <<>>)
    /\ UNCHANGED snapshotVars

\* An exception, before the first file (an archive of another identity) or midway: the
\* service is started as it is, and the files stay as they are.
UnpackFails(t) ==
    /\ Fails(t, "unpack", IF Work(t).was THEN <<"stop", "start">> ELSE <<>>)
    /\ UNCHANGED snapshotVars

\* restart_local_service; an error ends the rollback with another message.
Revive(t) ==
    /\ Do(t, "revive", IF Work(t).was THEN <<"stop", "start">> ELSE <<>>)
    /\ UNCHANGED snapshotVars

Report(t) ==
    /\ Do(t, "report", <<>>)
    /\ UNCHANGED snapshotVars

-----------------------------------------------------------------------------

\* The user writes a file, or removes it.
EditFile(t) ==
    /\ Do(t, "edit", <<>>)
    /\ \E f \in Files, text \in {Fresh(t), None} :
        src' = [src EXCEPT ![In(t)][f] = text]
    /\ UNCHANGED <<archives, listed, before, sm>>

SnapshotsStep(t) ==
    \/ List(t) \/ Pack(t) \/ Packed(t) \/ Store(t) \/ ReadIndex(t) \/ SaveIndex(t)
    \/ Find(t) \/ Halt(t) \/ Truncate(t) \/ Unpack(t) \/ Unpacked(t) \/ UnpackFails(t)
    \/ Revive(t) \/ Report(t) \/ EditFile(t)

SnapshotsBegin(t) ==
    /\ Keep(t, NoWork)
    /\ UNCHANGED snapshotFiles

-----------------------------------------------------------------------------
(* Properties *)

SnapshotsTypeOK ==
    \A p \in Projects :
        /\ DOMAIN src[p] = Files
        /\ \A a \in archives[p] : DOMAIN a = {"id", "files"} /\ DOMAIN a.files \subseteq Files
        /\ \A t \in Terminals : Work(t).todo \subseteq Files

\* What `snapshot list` shows can be rolled back to, with commands at several terminals
\* and interruptions too; and no two snapshots have one id (snapshots.py 146-164).
ListedIsStored ==
    \A p \in Projects :
        /\ listed[p] \subseteq {a.id : a \in archives[p]}
        /\ \A a, b \in archives[p] : a.id = b.id => a = b

\* "Safely restore": from the first file that a rollback writes, whether it ends, fails
\* midway or is interrupted, a listed snapshot has the source it found
\* (snapshots.py 201-235).
RollbackCanBeUndone ==
    ~overlapped =>
        \A p \in Projects : before[p] # None =>
            \E a \in archives[p] :
                /\ a.id \in listed[p]
                /\ a.files = [f \in {g \in Files : before[p][g] # None} |-> before[p][f]]

\* A rollback that reports success has put every file of its snapshot back.
RollbackRestores ==
    \A t \in Terminals : At(t, "report") /\ ~overlapped =>
        \A f \in DOMAIN Work(t).pick : src[In(t)][f] = Work(t).pick[f]
=============================================================================

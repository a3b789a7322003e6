----------------------------- MODULE Workspace -----------------------------
(***************************************************************************)
(* The commands of AppKeys, Projects and Snapshots together, on one        *)
(* computer: each step changes the files of one of them.                   *)
(***************************************************************************)
EXTENDS AppKeys, Projects, Snapshots

vars == <<terminalVars, keyVars, projectVars, snapshotVars>>

Init == TerminalsInit /\ KeysInit /\ ProjectsInit /\ SnapshotsInit

\* The steps of each command (main.py, commands.py, cli.py).
Program == [
    init |-> <<"ensure">>,
    publish |-> Publish,
    secureInit |-> UseKey,
    setSecret |-> SetSecret,
    getSecret |-> GetSecret,
    deleteSecret |-> DeleteSecret,
    createRecovery |-> CreateRecovery,
    useRecovery |-> UseRecovery,
    move |-> Move,
    deploy |-> Deploy,
    stop |-> Stop,
    restart |-> Restart,
    installEntry |-> InstallEntry,
    removeEntry |-> RemoveEntry,
    snapshot |-> TakeSnapshot,
    rollback |-> Rollback,
    edit |-> Edit ]

ASSUME CommandsAreKnown == \A c \in Commands :
    /\ c.op \in DOMAIN Program
    /\ c.op = "deploy" => c.arg \in Ports \cup {0}

Begin(t) ==
    /\ script[t] # <<>>
    /\ Type(t, Program[Head(script[t]).op])
    /\ KeysBegin(t) /\ ProjectsBegin(t) /\ SnapshotsBegin(t)

Step(t) ==
    \/ KeysStep(t) /\ UNCHANGED <<projectVars, snapshotVars>>
    \/ ProjectsStep(t) /\ UNCHANGED <<keyVars, snapshotVars>>
    \/ SnapshotsStep(t) /\ UNCHANGED <<keyVars, projectVars>>
    \/ At(t, "wasRunning") /\ WasRunning(t, svc[In(t)] # None) /\ UNCHANGED <<keyVars, projectVars>>
    \/ MoveAway(t) /\ ProjectsMove /\ UNCHANGED snapshotVars

Next ==
    \E t \in Terminals :
        \/ Begin(t)
        \/ Step(t)
        \/ Interrupt(t) /\ UNCHANGED <<keyVars, projectVars, snapshotVars>>

Spec == Init /\ [][Next]_vars

-----------------------------------------------------------------------------
(* Properties *)

\* Every variable has the shape the code gives it.
TypeOK == TerminalsTypeOK /\ KeysTypeOK /\ ProjectsTypeOK /\ SnapshotsTypeOK

\* Each of these files is read, extended and written back.  As long as no two commands
\* overlap and none is interrupted, nothing is lost between: every snapshot is listed,
\* every running service is registered - unless the project has come from another
\* device, where its registration stays - and every publication is counted and ended
\* (snapshots.py 162-164, registry.py 55-77, state.py 81-112).
NothingIsLost ==
    Calm => \A p \in Projects :
        /\ {a.id : a \in archives[p]} = listed[p]
        /\ svc[p] # None => registry[p] # None \/ moved
        /\ manifest[p] # None => manifest[p].runs = runs[p] /\ manifest[p].ends = runs[p]
=============================================================================

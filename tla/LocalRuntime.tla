---------------------------- MODULE LocalRuntime ----------------------------
(***************************************************************************)
(* The local lifecycle of one Minit project: the commands that deploy,     *)
(* stop and restart it (minit/main.py, minit/runtime.py), the detached     *)
(* supervisor processes (minit/supervisor.py), the login entry that        *)
(* starts a supervisor without a command (minit/autostart.py), and the app *)
(* processes they run.                                                     *)
(*                                                                         *)
(* The processes share two files, .minit/runtime.json (rec) and            *)
(* .minit/control.json (control), each replaced or removed atomically, and *)
(* the one localhost port of the service spec.  Every read, write, spawn,  *)
(* kill and probe is a step of its own.                                    *)
(*                                                                         *)
(* A process identity (pid, create time) is a process generation: a member *)
(* of Sups or Apps, which lives at most once.  started_at, written once by *)
(* each supervisor, is identified with the supervisor's generation.        *)
(***************************************************************************)
EXTENDS Naturals, FiniteSets

CONSTANTS
    Clis,       \* command processes, each running one command after another
    Sups,       \* supervisor generations; the bound on supervisors launched
    Apps,       \* app process generations; the bound on apps spawned
    NoSup, NoApp, NoRecord,
    Stranger,   \* any process but the apps themselves that listens on the port
    Commands,   \* the commands users run: "deploy", "stop", "restart"
    Policy,     \* restart_policy of the service spec
    Crashes,    \* may processes be killed and the machine rebooted?
    Autostart,  \* is the login entry installed?
    SaveErrors, \* may a supervisor's save of runtime.json raise?
    Patient     \* do supervisors boot and answer within the deadlines?

\* "restarting" counts as "starting": no code tells them apart, only the display.
Statuses == {"starting", "running", "degraded", "stopped", "failed"}

Record == [sup : Sups, app : Apps \cup {NoApp}, status : Statuses]

ASSUME NullsAreDistinct ==
    /\ NoSup \notin Sups
    /\ NoApp \notin Apps
    /\ Stranger \notin Apps \cup {NoApp}
    /\ NoRecord \notin Record

ASSUME CommandsAreKnown == Commands \subseteq {"deploy", "stop", "restart"}

ASSUME PolicyIsKnown == Policy \in {"always", "on-failure", "never"}

ASSUME SwitchesAreBoolean ==
    /\ Crashes \in BOOLEAN
    /\ Autostart \in BOOLEAN
    /\ SaveErrors \in BOOLEAN
    /\ Patient \in BOOLEAN

VARIABLES
    rec,        \* runtime.json, or NoRecord
    control,    \* does control.json hold a stop request?
    spc,        \* where each supervisor is in supervise()
    stopFlag,   \* supervise(): stop_requested, set by SIGTERM
    handle,     \* supervise(): app_process
    state,      \* supervise(): state["app_pid"] and state["status"]
    ast,        \* each app process: not spawned, up, or gone
    owner,      \* the supervisor that spawned the app
    port,       \* who listens on the configured port, or NoApp
    cpc,        \* where each command is
    loaded,     \* the supervisor in the runtime state the command holds
    victim,     \* stop_local_service: app_pid, from the state it loaded
    target,     \* the supervisor the command launched, or is stopping
    again,      \* does the command start the service after stopping it?
    unit        \* the supervisor run by the login entry

fileVars == <<rec, control>>
supVars  == <<spc, stopFlag, handle, state>>
appVars  == <<ast, owner, port>>
cliVars  == <<cpc, loaded, victim, target, again>>
vars     == <<rec, control, spc, stopFlag, handle, state, ast, owner, port,
              cpc, loaded, victim, target, again, unit>>

SupPcs == {"unborn", "clear", "base", "handlers", "spawn", "record", "loop", "poll",
           "decide", "probe", "save", "failing", "term", "cleanup", "final", "exit", "dead"}

StartPcs == {"deployCheck", "deployPort", "startCheck", "startPrev", "startClear",
             "startPopen", "startWait"}

StopPcs == {"stopLoad", "stopAlive", "stopOrphan", "stopMarkOrphan", "stopWrite",
            "stopWait", "stopForceApp", "stopTermSup", "stopKillSup", "stopClear",
            "stopReload", "stopMark"}

CliPcs == {"idle", "started"} \cup StartPcs \cup StopPcs

AppStates == {"unborn", "up", "gone"}

\* The memory of supervise() before it has spawned an app.
Blank == [app |-> NoApp, status |-> "starting"]

Init ==
    /\ rec = NoRecord
    /\ control = FALSE
    /\ spc = [s \in Sups |-> "unborn"]
    /\ stopFlag = [s \in Sups |-> FALSE]
    /\ handle = [s \in Sups |-> NoApp]
    /\ state = [s \in Sups |-> Blank]
    /\ ast = [a \in Apps |-> "unborn"]
    /\ owner = [a \in Apps |-> NoSup]
    /\ port = NoApp
    /\ cpc = [c \in Clis |-> "idle"]
    /\ loaded = [c \in Clis |-> NoSup]
    /\ victim = [c \in Clis |-> NoApp]
    /\ target = [c \in Clis |-> NoSup]
    /\ again = [c \in Clis |-> FALSE]
    /\ unit = NoSup

-----------------------------------------------------------------------------
(* Processes *)

\* pid_is_alive on a supervisor generation.
Alive(s) == spc[s] \notin {"unborn", "dead"}

\* The supervisor named by runtime.json, if there is one.
RecordedSup == IF rec = NoRecord THEN NoSup ELSE rec.sup

\* Variant: a record never counts as running.
NeverRunning == FALSE

\* runtime_is_running: the recorded supervisor generation is alive.
IsRunning == rec # NoRecord /\ Alive(rec.sup)

\* The end of a supervisor process: its memory is gone, its app is not.
SupDies(s) ==
    /\ spc' = [spc EXCEPT ![s] = "dead"]
    /\ stopFlag' = [stopFlag EXCEPT ![s] = FALSE]
    /\ handle' = [handle EXCEPT ![s] = NoApp]
    /\ state' = [state EXCEPT ![s] = Blank]

\* What the death of app a does: it leaves the port.  Its exit code is chosen
\* where its one parent reads it.
AppDies(a) ==
    /\ ast' = [ast EXCEPT ![a] = "gone"]
    /\ port' = IF port = a THEN NoApp ELSE port
    /\ UNCHANGED owner

\* Variant: the signal is never sent.
TerminateNothing(a) == UNCHANGED appVars

\* Terminate one app generation, if it is up: SIGTERM, then SIGKILL.  An app that
\* answers SIGTERM before the SIGKILL is an AppExit taken first.  What becomes of its
\* children - a supervisor signals the whole process group, a forced stop the recorded
\* process only - is StrangerListens: the app is the one process that Minit records.
Terminate(a) ==
    IF a # NoApp /\ ast[a] = "up" THEN AppDies(a) ELSE UNCHANGED appVars

\* The app binds the configured port, which only one process can hold.
Listen(a) ==
    /\ ast[a] = "up"
    /\ port = NoApp
    /\ port' = a
    /\ UNCHANGED <<ast, owner, fileVars, supVars, cliVars, unit>>

\* The app exits by itself, or crashes, at any time.
AppExit(a) ==
    /\ ast[a] = "up"
    /\ AppDies(a)
    /\ UNCHANGED <<fileVars, supVars, cliVars, unit>>

\* So may a program that Minit knows nothing of: another server of this machine, or a
\* child that outlives its app.
StrangerListens ==
    /\ port = NoApp
    /\ port' = Stranger
    /\ UNCHANGED <<ast, owner, fileVars, supVars, cliVars, unit>>

StrangerLeaves ==
    /\ port = Stranger
    /\ port' = NoApp
    /\ UNCHANGED <<ast, owner, fileVars, supVars, cliVars, unit>>

-----------------------------------------------------------------------------
(* supervisor.py: supervise() *)

\* save_runtime_state(state): the record becomes the supervisor's own view.
\* If the write raises, the record is left as it was.
Save(s, next, onError) ==
    \/ /\ rec' = [sup |-> s, app |-> state'[s].app, status |-> state'[s].status]
       /\ spc' = [spc EXCEPT ![s] = next]
    \/ /\ SaveErrors
       /\ spc' = [spc EXCEPT ![s] = onError]
       /\ UNCHANGED rec

SupGoto(s, from, to) ==
    /\ spc[s] = from
    /\ spc' = [spc EXCEPT ![s] = to]

\* A stop request left behind by an earlier command is discarded.
SupClear(s) ==
    /\ SupGoto(s, "clear", "base")
    /\ control' = FALSE
    /\ UNCHANGED <<rec, stopFlag, handle, state, appVars, cliVars, unit>>

\* The base record: no app yet.  It is saved outside the try block.
SupBase(s) ==
    /\ spc[s] = "base"
    /\ UNCHANGED state
    /\ Save(s, "handlers", "dead")
    /\ UNCHANGED <<control, stopFlag, handle, appVars, cliVars, unit>>

\* The record already names it when it installs its handlers of SIGTERM and SIGINT.
SupHandlers(s) ==
    /\ SupGoto(s, "handlers", "spawn")
    /\ UNCHANGED <<fileVars, stopFlag, handle, state, appVars, cliVars, unit>>

\* start_app: Popen returns a new process; state names it, app_process does not yet.
SupSpawn(s) ==
    /\ SupGoto(s, "spawn", "record")
    /\ \E a \in Apps :
        /\ ast[a] = "unborn"
        /\ ast' = [ast EXCEPT ![a] = "up"]
        /\ owner' = [owner EXCEPT ![a] = s]
        /\ state' = [state EXCEPT ![s] = [app |-> a, status |-> "starting"]]
    /\ UNCHANGED <<fileVars, stopFlag, handle, port, cliVars, unit>>

\* start_app: Popen raises (no such command, no process left).
SupSpawnFails(s) ==
    /\ SupGoto(s, "spawn", "failing")
    /\ UNCHANGED <<fileVars, stopFlag, handle, state, appVars, cliVars, unit>>

\* start_app saves the new identity and returns it to supervise().
SupRecord(s) ==
    /\ spc[s] = "record"
    /\ UNCHANGED state
    /\ Save(s, "loop", "failing")
    /\ handle' = IF spc'[s] = "loop" THEN [handle EXCEPT ![s] = state[s].app] ELSE handle
    /\ UNCHANGED <<control, stopFlag, appVars, cliVars, unit>>

\* Variant: the request in control.json is not looked at.
SupReadFlagOnly(s) ==
    /\ SupGoto(s, "loop", IF stopFlag[s] THEN "term" ELSE "poll")
    /\ UNCHANGED <<fileVars, stopFlag, handle, state, appVars, cliVars, unit>>

\* The head of the loop: leave it on SIGTERM or on a stop request.
SupReadControl(s) ==
    /\ SupGoto(s, "loop", IF stopFlag[s] \/ control THEN "term" ELSE "poll")
    /\ UNCHANGED <<fileVars, stopFlag, handle, state, appVars, cliVars, unit>>

\* Variant: the app is never polled.
SupPollBlind(s) ==
    /\ SupGoto(s, "poll", "probe")
    /\ UNCHANGED <<fileVars, stopFlag, handle, state, appVars, cliVars, unit>>

\* app_process.poll(): the app is still there.
SupPollUp(s) ==
    /\ SupGoto(s, "poll", "probe")
    /\ ast[handle[s]] = "up"
    /\ UNCHANGED <<fileVars, stopFlag, handle, state, appVars, cliVars, unit>>

\* Variant: an app that does not answer is replaced while it is still up.
SupPollImpatient(s) ==
    /\ spc[s] = "poll"
    /\ state' = [state EXCEPT ![s].app = NoApp]
    /\ Save(s, "decide", "failing")
    /\ UNCHANGED <<control, stopFlag, handle, appVars, cliVars, unit>>

\* app_process.poll(): the app has exited; the record forgets it.
SupPollExited(s) ==
    /\ spc[s] = "poll"
    /\ ast[handle[s]] # "up"
    /\ state' = [state EXCEPT ![s].app = NoApp]
    /\ Save(s, "decide", "failing")
    /\ UNCHANGED <<control, stopFlag, handle, appVars, cliVars, unit>>

ShouldRestart(exitCode) == Policy = "always" \/ (Policy = "on-failure" /\ exitCode # 0)

ExitCodes == {0, 1}

\* The restart policy asks for a new app: save, sleep, spawn.
SupRestart(s) ==
    /\ spc[s] = "decide"
    /\ \E exitCode \in ExitCodes : ShouldRestart(exitCode)
    /\ state' = [state EXCEPT ![s].status = "starting"]
    /\ Save(s, "spawn", "failing")
    /\ UNCHANGED <<control, stopFlag, handle, appVars, cliVars, unit>>

\* The restart policy does not: leave the loop.
SupGiveUp(s) ==
    /\ SupGoto(s, "decide", "term")
    /\ \E exitCode \in ExitCodes : ~ShouldRestart(exitCode)
    /\ state' = [state EXCEPT ![s].status = "stopped"]
    /\ UNCHANGED <<fileVars, stopFlag, handle, appVars, cliVars, unit>>

\* _port_open: any listener on the port counts, a stranger too.  The grace period may be
\* over or not.
SupProbe(s) ==
    /\ SupGoto(s, "probe", "save")
    /\ \E status \in IF port # NoApp THEN {"running"} ELSE {"starting", "degraded"} :
        state' = [state EXCEPT ![s].status = status]
    /\ UNCHANGED <<fileVars, stopFlag, handle, appVars, cliVars, unit>>

SupSaveHealth(s) ==
    /\ spc[s] = "save"
    /\ UNCHANGED state
    /\ Save(s, "loop", "failing")
    /\ UNCHANGED <<control, stopFlag, handle, appVars, cliVars, unit>>

\* The except clause records the failure; if even that save raises, finally still runs.
SupFail(s) ==
    /\ spc[s] = "failing"
    /\ state' = [state EXCEPT ![s].status = "failed"]
    /\ Save(s, "term", "term")
    /\ UNCHANGED <<control, stopFlag, handle, appVars, cliVars, unit>>

\* finally: _terminate_process_tree(app_process).
SupTerminate(s) ==
    /\ SupGoto(s, "term", "cleanup")
    /\ Terminate(handle[s])
    /\ UNCHANGED <<fileVars, stopFlag, handle, state, cliVars, unit>>

SupCleanup(s) ==
    /\ SupGoto(s, "cleanup", "final")
    /\ control' = FALSE
    /\ UNCHANGED <<rec, stopFlag, handle, state, appVars, cliVars, unit>>

\* Variant: the last record still names the app.
SupFinalKeepsApp(s) ==
    /\ spc[s] = "final"
    /\ state' = [state EXCEPT ![s].status = IF @ = "failed" THEN "failed" ELSE "stopped"]
    /\ Save(s, "exit", "exit")
    /\ UNCHANGED <<control, stopFlag, handle, appVars, cliVars, unit>>

\* finally: the last record, "failed" if it failed and "stopped" otherwise.
SupFinal(s) ==
    /\ spc[s] = "final"
    /\ state' = [state EXCEPT ![s] =
            [app |-> NoApp, status |-> IF @.status = "failed" THEN "failed" ELSE "stopped"]]
    /\ Save(s, "exit", "exit")
    /\ UNCHANGED <<control, stopFlag, handle, appVars, cliVars, unit>>

SupExit(s) ==
    /\ spc[s] = "exit"
    /\ SupDies(s)
    /\ UNCHANGED <<fileVars, appVars, cliVars, unit>>

Supervise(s) ==
    \/ SupClear(s) \/ SupBase(s) \/ SupHandlers(s) \/ SupSpawn(s) \/ SupSpawnFails(s)
    \/ SupRecord(s) \/ SupReadControl(s) \/ SupPollUp(s) \/ SupPollExited(s)
    \/ SupRestart(s) \/ SupGiveUp(s) \/ SupProbe(s) \/ SupSaveHealth(s) \/ SupFail(s)
    \/ SupTerminate(s) \/ SupCleanup(s) \/ SupFinal(s) \/ SupExit(s)

-----------------------------------------------------------------------------
(* main.py deploy, runtime.py start_local_service *)

CliGoto(c, from, to) ==
    /\ cpc[c] = from
    /\ cpc' = [cpc EXCEPT ![c] = to]

\* Whether it succeeds or fails, a finished command leaves nothing in memory.
Return(c) ==
    /\ cpc' = [cpc EXCEPT ![c] = "idle"]
    /\ loaded' = [loaded EXCEPT ![c] = NoSup]
    /\ victim' = [victim EXCEPT ![c] = NoApp]
    /\ target' = [target EXCEPT ![c] = NoSup]
    /\ again' = [again EXCEPT ![c] = FALSE]

\* minit deploy with a detected plan looks first whether the project is already
\* supervised; with an explicit command it goes straight to the port.
BeginDeploy(c) ==
    /\ "deploy" \in Commands
    /\ \E to \in {"deployCheck", "deployPort"} : CliGoto(c, "idle", to)
    /\ UNCHANGED <<fileVars, supVars, appVars, loaded, victim, target, again, unit>>

\* "Already running": nothing to do.
DeployCheck(c) ==
    /\ cpc[c] = "deployCheck"
    /\ IF IsRunning
       THEN Return(c)
       ELSE CliGoto(c, "deployCheck", "deployPort") /\ UNCHANGED <<loaded, victim, target, again>>
    /\ UNCHANGED <<fileVars, supVars, appVars, unit>>

\* Refuse a port that somebody listens on; otherwise write the spec and start.
DeployPort(c) ==
    /\ cpc[c] = "deployPort"
    /\ IF port # NoApp
       THEN Return(c)
       ELSE CliGoto(c, "deployPort", "startCheck") /\ UNCHANGED <<loaded, victim, target, again>>
    /\ UNCHANGED <<fileVars, supVars, appVars, unit>>

StartCheck(c) ==
    /\ cpc[c] = "startCheck"
    /\ IF IsRunning
       THEN Return(c)
       ELSE CliGoto(c, "startCheck", "startPrev") /\ UNCHANGED <<loaded, victim, target, again>>
    /\ UNCHANGED <<fileVars, supVars, appVars, unit>>

\* previous_started_at, from a second read of the record.
StartPrev(c) ==
    /\ CliGoto(c, "startPrev", "startClear")
    /\ loaded' = [loaded EXCEPT ![c] = RecordedSup]
    /\ UNCHANGED <<fileVars, supVars, appVars, victim, target, again, unit>>

StartClear(c) ==
    /\ CliGoto(c, "startClear", "startPopen")
    /\ control' = FALSE
    /\ UNCHANGED <<rec, supVars, appVars, loaded, victim, target, again, unit>>

StartPopen(c) ==
    /\ CliGoto(c, "startPopen", "startWait")
    /\ \E s \in Sups :
        /\ spc[s] = "unborn"
        /\ spc' = [spc EXCEPT ![s] = "clear"]
        /\ target' = [target EXCEPT ![c] = s]
    /\ UNCHANGED <<fileVars, stopFlag, handle, state, appVars, loaded, victim, again, unit>>

StartPopenFails(c) ==
    /\ cpc[c] = "startPopen"
    /\ Return(c)
    /\ UNCHANGED <<fileVars, supVars, appVars, unit>>

\* _is_fresh_runtime_generation: the record is not the one seen before Popen.
Fresh(c) == rec # NoRecord /\ rec.sup # loaded[c]

\* The wait loop sees a fresh record that is running or degraded: success.
StartSucceeds(c) ==
    /\ CliGoto(c, "startWait", "started")
    /\ Fresh(c)
    /\ rec.status \in {"running", "degraded"}
    /\ UNCHANGED <<fileVars, supVars, appVars, loaded, victim, target, again, unit>>

\* It sees a fresh record that failed or stopped, or its process is gone and no
\* fresh record names a live supervisor: error.
StartFails(c) ==
    /\ cpc[c] = "startWait"
    /\ \/ Fresh(c) /\ rec.status \in {"failed", "stopped"}
       \/ /\ ~(Fresh(c) /\ rec.status \in {"running", "degraded"})
          /\ ~Alive(target[c])
          /\ ~(Fresh(c) /\ Alive(rec.sup))
    /\ Return(c)
    /\ UNCHANGED <<fileVars, supVars, appVars, unit>>

\* Variant: the wait loop has no deadline.
StartNeverTimesOut(c) == FALSE

\* The deadline: error, and the supervisor is left as it is.  A patient system
\* has its supervisor's base record saved before then.
StartTimesOut(c) ==
    /\ cpc[c] = "startWait"
    /\ Patient => spc[target[c]] \notin {"clear", "base"}
    /\ Return(c)
    /\ UNCHANGED <<fileVars, supVars, appVars, unit>>

Started(c) ==
    /\ cpc[c] = "started"
    /\ Return(c)
    /\ UNCHANGED <<fileVars, supVars, appVars, unit>>

Start(c) ==
    \/ DeployCheck(c) \/ DeployPort(c) \/ StartCheck(c) \/ StartPrev(c)
    \/ StartClear(c) \/ StartPopen(c) \/ StartPopenFails(c)
    \/ StartSucceeds(c) \/ StartFails(c) \/ StartTimesOut(c) \/ Started(c)

-----------------------------------------------------------------------------
(* runtime.py: stop_local_service, restart_local_service *)

BeginStop(c) ==
    /\ CliGoto(c, "idle", "stopLoad")
    /\ \E command \in Commands \ {"deploy"} :
        again' = [again EXCEPT ![c] = command = "restart"]
    /\ UNCHANGED <<fileVars, supVars, appVars, loaded, victim, target, unit>>

\* The end of stop_local_service: minit restart goes on to start_local_service.
StopReturns(c) ==
    IF again[c]
    THEN /\ cpc' = [cpc EXCEPT ![c] = "startCheck"]
         /\ loaded' = [loaded EXCEPT ![c] = NoSup]
         /\ victim' = [victim EXCEPT ![c] = NoApp]
         /\ target' = [target EXCEPT ![c] = NoSup]
         /\ again' = [again EXCEPT ![c] = FALSE]
    ELSE Return(c)

\* The identities to stop are those of the record now.
StopLoad(c) ==
    /\ cpc[c] = "stopLoad"
    /\ IF rec = NoRecord
       THEN StopReturns(c)
       ELSE /\ CliGoto(c, "stopLoad", "stopAlive")
            /\ loaded' = [loaded EXCEPT ![c] = rec.sup]
            /\ victim' = [victim EXCEPT ![c] = rec.app]
            /\ target' = [target EXCEPT ![c] = rec.sup]
            /\ UNCHANGED again
    /\ UNCHANGED <<fileVars, supVars, appVars, unit>>

StopAlive(c) ==
    /\ CliGoto(c, "stopAlive", IF Alive(target[c]) THEN "stopWrite" ELSE "stopOrphan")
    /\ UNCHANGED <<fileVars, supVars, appVars, loaded, victim, target, again, unit>>

\* The supervisor is dead: terminate the app generation it recorded.
StopOrphan(c) ==
    /\ CliGoto(c, "stopOrphan", "stopMarkOrphan")
    /\ Terminate(victim[c])
    /\ UNCHANGED <<fileVars, supVars, loaded, victim, target, again, unit>>

\* Variants: the app of the current record is kept; the supervisor is dropped.
StoppedKeepsApp(s) == [sup |-> s, app |-> rec.app, status |-> "stopped"]

StoppedDropsSup(s) == [sup |-> NoSup, app |-> NoApp, status |-> "stopped"]

\* Write back the record that was loaded, marked stopped.
Stopped(s) == [sup |-> s, app |-> NoApp, status |-> "stopped"]

StopMarkOrphan(c) ==
    /\ cpc[c] = "stopMarkOrphan"
    /\ rec' = Stopped(loaded[c])
    /\ StopReturns(c)
    /\ UNCHANGED <<control, supVars, appVars, unit>>

\* Variant: the app to terminate is read again after the supervisor was checked.
StopWriteReloads(c) ==
    /\ CliGoto(c, "stopWrite", "stopWait")
    /\ control' = TRUE
    /\ victim' = [victim EXCEPT ![c] = rec.app]
    /\ UNCHANGED <<rec, supVars, appVars, loaded, target, again, unit>>

StopWrite(c) ==
    /\ CliGoto(c, "stopWrite", "stopWait")
    /\ control' = TRUE
    /\ UNCHANGED <<rec, supVars, appVars, loaded, victim, target, again, unit>>

\* Variant: the wait does not ask whether the supervisor is dead.
StopSeesNothing(c) ==
    /\ CliGoto(c, "stopWait", "stopClear")
    /\ UNCHANGED <<fileVars, supVars, appVars, loaded, victim, target, again, unit>>

\* The supervisor went away by itself.
StopSeesDeath(c) ==
    /\ CliGoto(c, "stopWait", "stopClear")
    /\ ~Alive(target[c])
    /\ UNCHANGED <<fileVars, supVars, appVars, loaded, victim, target, again, unit>>

\* The deadline, with the supervisor still there.  A patient system answers in
\* time every request it can see.
StopTimesOut(c) ==
    /\ CliGoto(c, "stopWait", "stopForceApp")
    /\ Alive(target[c])
    /\ Patient => ~control /\ spc[target[c]] \notin {"term", "cleanup", "final", "exit"}
    /\ UNCHANGED <<fileVars, supVars, appVars, loaded, victim, target, again, unit>>

\* Terminate the app generation recorded when the command began ...
StopForceApp(c) ==
    /\ CliGoto(c, "stopForceApp", "stopTermSup")
    /\ Terminate(victim[c])
    /\ UNCHANGED <<fileVars, supVars, loaded, victim, target, again, unit>>

\* ... then SIGTERM the supervisor, which ends one that has no handler yet ...
StopTermSup(c) ==
    /\ CliGoto(c, "stopTermSup", "stopKillSup")
    /\ IF spc[target[c]] \in {"clear", "base", "handlers"}
       THEN SupDies(target[c])
       ELSE /\ stopFlag' = [stopFlag EXCEPT ![target[c]] = Alive(target[c]) \/ @]
            /\ UNCHANGED <<spc, handle, state>>
    /\ UNCHANGED <<fileVars, appVars, loaded, victim, target, again, unit>>

\* Variant: SIGTERM has to be enough.
StopSkipsKill(c) ==
    /\ CliGoto(c, "stopKillSup", "stopClear")
    /\ UNCHANGED <<fileVars, supVars, appVars, loaded, victim, target, again, unit>>

\* ... and SIGKILL it if it has not ended.
StopKillSup(c) ==
    /\ CliGoto(c, "stopKillSup", "stopClear")
    /\ SupDies(target[c])
    /\ UNCHANGED <<fileVars, appVars, loaded, victim, target, again, unit>>

StopClear(c) ==
    /\ CliGoto(c, "stopClear", "stopReload")
    /\ control' = FALSE
    /\ UNCHANGED <<rec, supVars, appVars, loaded, victim, target, again, unit>>

StopReload(c) ==
    /\ CliGoto(c, "stopReload", "stopMark")
    /\ loaded' = [loaded EXCEPT ![c] = IF rec = NoRecord THEN @ ELSE rec.sup]
    /\ UNCHANGED <<fileVars, supVars, appVars, victim, target, again, unit>>

StopMark(c) ==
    /\ cpc[c] = "stopMark"
    /\ rec' = Stopped(loaded[c])
    /\ StopReturns(c)
    /\ UNCHANGED <<control, supVars, appVars, unit>>

Stop(c) ==
    \/ StopLoad(c) \/ StopAlive(c) \/ StopOrphan(c) \/ StopMarkOrphan(c)
    \/ StopWrite(c) \/ StopSeesDeath(c) \/ StopTimesOut(c) \/ StopForceApp(c)
    \/ StopTermSup(c) \/ StopKillSup(c) \/ StopClear(c) \/ StopReload(c) \/ StopMark(c)

-----------------------------------------------------------------------------
(* autostart.py, and what the machine may do *)

\* The login entry runs minit.supervisor itself: nobody looks whether the
\* project is running, but the service manager runs one instance at a time.
\* It launches at login and again after a failed exit.
LoginLaunch(s) ==
    /\ Autostart
    /\ unit # NoSup => ~Alive(unit)
    /\ spc[s] = "unborn"
    /\ spc' = [spc EXCEPT ![s] = "clear"]
    /\ unit' = s
    /\ UNCHANGED <<fileVars, stopFlag, handle, state, appVars, cliVars>>

\* A supervisor is killed (kill -9, out of memory); its app has its own session.
SupCrash(s) ==
    /\ Crashes
    /\ Alive(s)
    /\ SupDies(s)
    /\ UNCHANGED <<fileVars, appVars, cliVars, unit>>

\* A command is interrupted.
CliCrash(c) ==
    /\ Crashes
    /\ cpc[c] # "idle"
    /\ Return(c)
    /\ UNCHANGED <<fileVars, supVars, appVars, unit>>

\* The machine restarts: every process ends, the files stay.
Reboot ==
    /\ Crashes
    /\ spc' = [s \in Sups |-> IF spc[s] = "unborn" THEN "unborn" ELSE "dead"]
    /\ ast' = [a \in Apps |-> IF ast[a] = "up" THEN "gone" ELSE ast[a]]
    /\ port' = NoApp
    /\ cpc' = [c \in Clis |-> "idle"]
    /\ loaded' = [c \in Clis |-> NoSup]
    /\ victim' = [c \in Clis |-> NoApp]
    /\ target' = [c \in Clis |-> NoSup]
    /\ again' = [c \in Clis |-> FALSE]
    /\ stopFlag' = [s \in Sups |-> FALSE]
    /\ handle' = [s \in Sups |-> NoApp]
    /\ state' = [s \in Sups |-> Blank]
    /\ UNCHANGED <<fileVars, owner, unit>>

-----------------------------------------------------------------------------

Next ==
    \/ \E c \in Clis : BeginDeploy(c) \/ BeginStop(c) \/ Start(c) \/ Stop(c) \/ CliCrash(c)
    \/ \E s \in Sups : Supervise(s) \/ LoginLaunch(s) \/ SupCrash(s)
    \/ \E a \in Apps : Listen(a) \/ AppExit(a)
    \/ StrangerListens \/ StrangerLeaves
    \/ Reboot

Spec == Init /\ [][Next]_vars

\* The operating system runs every process that can take a step.  Nobody has to
\* begin a command, and an app owes nothing.
Fairness ==
    /\ \A c \in Clis : WF_vars(Start(c) \/ Stop(c))
    /\ \A s \in Sups : WF_vars(Supervise(s))

FairSpec == Spec /\ Fairness

-----------------------------------------------------------------------------
(* Properties that hold whatever is interleaved, killed or restarted *)

\* Every variable has the shape the code gives it.
TypeOK ==
    /\ rec \in Record \cup {NoRecord}
    /\ control \in BOOLEAN
    /\ spc \in [Sups -> SupPcs]
    /\ stopFlag \in [Sups -> BOOLEAN]
    /\ handle \in [Sups -> Apps \cup {NoApp}]
    /\ state \in [Sups -> [app : Apps \cup {NoApp}, status : Statuses]]
    /\ ast \in [Apps -> AppStates]
    /\ owner \in [Apps -> Sups \cup {NoSup}]
    /\ port \in Apps \cup {NoApp, Stranger}
    /\ cpc \in [Clis -> CliPcs]
    /\ loaded \in [Clis -> Sups \cup {NoSup}]
    /\ victim \in [Clis -> Apps \cup {NoApp}]
    /\ target \in [Clis -> Sups \cup {NoSup}]
    /\ again \in [Clis -> BOOLEAN]
    /\ unit \in Sups \cup {NoSup}

\* runtime.json never pairs one supervisor's identity with another one's app,
\* although supervisors and commands overwrite each other's records: each of them
\* writes back a whole record (supervisor.py save_runtime_state, runtime.py 289, 310).
RecordPairsOwnApp ==
    rec # NoRecord /\ rec.app # NoApp => owner[rec.app] = rec.sup

\* "Kill only the exact recorded app generation" (runtime.py 282): the app a stop
\* is about to terminate is one that its own target supervisor spawned, however
\* the record changed since the stop loaded it.
StopKillsOnlyItsOwn ==
    \A c \in Clis :
        cpc[c] \in {"stopOrphan", "stopForceApp"} /\ victim[c] # NoApp
            => owner[victim[c]] = target[c]

\* A supervisor never runs two apps at once: it spawns only after it has seen the
\* previous app exit (supervisor.py 159-181), even when a save fails on the way.
OneAppPerSupervisor ==
    \A a, b \in Apps :
        ast[a] = "up" /\ ast[b] = "up" /\ owner[a] = owner[b] => a = b

\* When stop_local_service reports "stopped", the supervisor generation that it
\* set out to stop is dead, whichever way it took (runtime.py 280-310).
StopEndsItsTarget ==
    \A c \in Clis :
        cpc[c] \in {"stopMarkOrphan", "stopClear", "stopReload", "stopMark"}
            => ~Alive(target[c])

\* "safe and boring" (main.py 129): deploying again never leads to two supervisors.
OneSupervisor ==
    \A s, t \in Sups : Alive(s) /\ Alive(t) => s = t

-----------------------------------------------------------------------------
(* Properties of one user at a time on a machine that keeps its deadlines *)

\* After the finally clause of supervise() has terminated the app, nothing that
\* the supervisor ever spawned is up (supervisor.py 209-219).
SupervisorLeavesNoApp ==
    \A s \in Sups : spc[s] \in {"cleanup", "final", "exit"} =>
        \A a \in Apps : owner[a] = s => ast[a] # "up"

\* "A supervisor can die unexpectedly while leaving its child behind" (runtime.py
\* 281): the app named by the record that a stop loaded is down when the stop reports
\* "stopped".
StopEndsRecordedApp ==
    \A c \in Clis :
        cpc[c] \in {"stopMarkOrphan", "stopReload", "stopMark"} /\ victim[c] # NoApp
            => ast[victim[c]] # "up"

\* Once the recorded supervisor is gone the record is final: no app, and a final
\* status, so that minit ls never shows a dead service as running.
RecordIsFinal ==
    rec # NoRecord /\ ~Alive(rec.sup) =>
        rec.app = NoApp /\ rec.status \in {"stopped", "failed"}

\* Every stop comes to an end, by the supervisor answering the request: under
\* Patient the deadline does not help (runtime.py 292-297).
StopTerminates ==
    \A c \in Clis : cpc[c] = "stopLoad" ~> cpc[c] \notin StopPcs

\* Every deploy or start comes to an end.
StartTerminates ==
    \A c \in Clis : cpc[c] = "startCheck" ~> cpc[c] \in {"started", "idle"}

\* The restart policy is carried out: an app that exits is replaced, or its
\* supervisor winds down; it is never left unsupervised (supervisor.py 159-182).
ExitIsNoticed ==
    \A s \in Sups :
        spc[s] = "loop" /\ ast[handle[s]] # "up"
            ~> spc[s] = "record" \/ spc[s] = "dead"
=============================================================================

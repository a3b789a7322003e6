----------------------------- MODULE CloudAgent -----------------------------
(***************************************************************************)
(* The cloud agent of a project (minit/cloud_agent.py) - a background      *)
(* process that reports the status of the app and, when asked to, makes    *)
(* and uploads backups - the commands that start and stop it, and the      *)
(* uploads a user makes by hand (minit/cloud_client.py), in front of       *)
(* CloudService.                                                           *)
(*                                                                         *)
(* One user gives one command at a time.  An agent knows another one only  *)
(* by the PID in the state file.  The state file is named by the agent     *)
(* whose record it holds: what the record says of its syncs and backups is *)
(* what that agent saved last.  Time is a count of the loop's rounds.      *)
(* The app's service is what backups make of it: the commands that start   *)
(* and stop it are LocalRuntime's.                                         *)
(***************************************************************************)
EXTENDS CloudService

CONSTANTS
    Agents, NoAgent,
    User,
    NoId,
    Commands,       \* bound on the commands the user gives
    Interval,       \* status_interval, in rounds of the loop
    MaxBackoff,     \* MAX_BACKOFF_SECONDS, in rounds of the loop
    MaxFailures     \* bound of the model: failures in a row are not counted further

ASSUME ClientsAreAgentsAndUser ==
    Clients = Agents \cup {User} /\ User \notin Agents /\ NoAgent \notin Agents

ASSUME AgentsAreFinite == IsFiniteSet(Agents)

ASSUME NoIdIsNew == NoId \notin Ids

ASSUME TimesAreNatural ==
    {Commands, Interval, MaxBackoff} \subseteq Nat /\ Interval > 0

ASSUME BackoffsAreToldApart == MaxFailures \in Nat /\ MaxFailures >= 6

VARIABLES
    svc,            \* the app's service: "up", "held" (stopped for a backup) or "off"
    created,        \* the ids in the project's backup index
    file,           \* the agent of cloud-agent-state.json, or NoAgent
    running,        \* its status: "running" or "stopped"
    apc,            \* where each agent is
    stop,           \* stop_requested
    failures,       \* consecutive_status_failures
    wait,           \* rounds until next_status
    was,            \* create_backup's was_running, of a killed agent too
    job,            \* the backup an agent is making or uploading
    good,           \* last_backup_id, when last_backup_ok
    upc,            \* where the user's command is
    target,         \* the agent it starts or stops
    final,          \* the agent whose record a stop is about to mark
    slow,           \* agents whose start command has timed out
    given           \* commands given

agentVars == <<svc, created, file, running, apc, stop, failures, wait, was, job, good>>
userVars  == <<upc, target, final, slow, given>>
vars      == <<serviceVars, agentVars, userVars>>

Apcs == {"unborn", "boot", "top", "syncing", "due", "copy", "restart", "send",
         "uploading", "exit", "dead"}

Upcs == {"idle", "starting", "stopping", "stopReload", "stopMark", "sync", "upload"}

Alive(a) == apc[a] \notin {"unborn", "dead"}

Init ==
    /\ ServiceInit
    /\ svc \in {"up", "off"}
    /\ created = {}
    /\ file = NoAgent
    /\ running = FALSE
    /\ apc = [a \in Agents |-> "unborn"]
    /\ stop = [a \in Agents |-> FALSE]
    /\ failures = [a \in Agents |-> 0]
    /\ wait = [a \in Agents |-> 0]
    /\ was = [a \in Agents |-> FALSE]
    /\ job = [a \in Agents |-> NoId]
    /\ good = [a \in Agents |-> NoId]
    /\ upc = "idle"
    /\ target = NoAgent
    /\ final = NoAgent
    /\ slow = {}
    /\ given = 0

Goto(a, from, to) ==
    /\ apc[a] = from
    /\ apc' = [apc EXCEPT ![a] = to]

\* The end of a process's memory.
Forget(a) ==
    /\ stop' = [stop EXCEPT ![a] = FALSE]
    /\ failures' = [failures EXCEPT ![a] = 0]
    /\ wait' = [wait EXCEPT ![a] = 0]
    /\ job' = [job EXCEPT ![a] = NoId]

\* _save_state.
Save(a, status) == file' = a /\ running' = status

-----------------------------------------------------------------------------
(* run_agent *)

\* The first record; the first status is due at once.
Boot(a) ==
    /\ Goto(a, "boot", "top")
    /\ Save(a, TRUE)
    /\ UNCHANGED <<serviceVars, svc, created, stop, failures, wait, was, job, good, userVars>>

\* while not stop_requested ... finally: the record says "stopped" ...
End(a) ==
    /\ stop[a]
    /\ Goto(a, "top", "exit")
    /\ Save(a, FALSE)
    /\ UNCHANGED <<serviceVars, svc, created, stop, failures, wait, was, job, good, userVars>>

\* ... also when a save or the log raises in the loop ...
EndByError(a) ==
    /\ Fault
    /\ Goto(a, "due", "exit")
    /\ Save(a, FALSE)
    /\ UNCHANGED <<up, objects, rows, latest, reqs, svc, created, stop, failures, wait, was, job,
                   good, userVars>>

\* ... while the process is still there, to write its log and exit.
Exit(a) ==
    /\ Goto(a, "exit", "dead")
    /\ Forget(a)
    /\ UNCHANGED <<serviceVars, svc, created, file, running, was, good, userVars>>

NotDue(a) ==
    /\ ~stop[a] /\ wait[a] > 0
    /\ Goto(a, "top", "due")
    /\ UNCHANGED <<serviceVars, svc, created, file, running, stop, failures, wait, was, job,
                   good, userVars>>

Sync(a) ==
    /\ ~stop[a] /\ wait[a] = 0
    /\ Goto(a, "top", "syncing")
    /\ SendStatus(a)
    /\ UNCHANGED <<svc, created, file, running, stop, failures, wait, was, job, good, userVars>>

Lesser(m, n) == IF m < n THEN m ELSE n

\* 2 ** min(n - 1, 5).
Factor(n) == <<1, 2, 4, 8, 16, 32>>[Lesser(n, 6)]

\* Variant: a wait doubles without a limit.
BackoffUnbounded(n) == Interval * Factor(n)

\* The wait after the n-th failure in a row.
Backoff(n) == Lesser(Interval * Factor(n), MaxBackoff)

Synced(a) ==
    /\ Goto(a, "syncing", "due")
    /\ \E q \in reqs : Receive(a, q) /\ q.stage = "ok"
    /\ failures' = [failures EXCEPT ![a] = 0]
    /\ wait' = [wait EXCEPT ![a] = Interval]
    /\ Save(a, TRUE)
    /\ UNCHANGED <<svc, created, stop, was, job, good, userVars>>

\* Any exception: the answer is an error, there is none, or it does not come.
Unanswered(c) ==
    \/ \E q \in reqs : Receive(c, q) /\ q.stage # "ok"
    \/ GiveUp(c)
    \/ Broken(c)

SyncFails(a) ==
    /\ Goto(a, "syncing", "due")
    /\ Unanswered(a)
    /\ failures' = [failures EXCEPT ![a] = Lesser(@ + 1, MaxFailures)]
    /\ wait' = [wait EXCEPT ![a] = Backoff(failures'[a])]
    /\ Save(a, TRUE)
    /\ UNCHANGED <<svc, created, stop, was, job, good, userVars>>

\* No backup is due, or none is wanted: time.sleep.
Sleep(a) ==
    /\ Goto(a, "due", "top")
    /\ wait' = [wait EXCEPT ![a] = IF @ > 0 THEN @ - 1 ELSE 0]
    /\ UNCHANGED <<serviceVars, svc, created, file, running, stop, failures, was, job, good,
                   userVars>>

\* create_backup gives the backup an id and stops the service (Backups has its steps).
BackupBegin(a) ==
    /\ Goto(a, "due", "copy")
    /\ \E b \in Ids : (\A o \in Agents : job[o] # b) /\ b \notin created
                      /\ job' = [job EXCEPT ![a] = b]
    /\ was' = [was EXCEPT ![a] = svc = "up"]
    /\ svc' = IF svc = "up" THEN "held" ELSE svc
    /\ UNCHANGED <<serviceVars, created, file, running, stop, failures, wait, good, userVars>>

\* The backup counts as failed: the next one is another one.
RecordFailure(a) ==
    /\ good' = [good EXCEPT ![a] = NoId]
    /\ job' = [job EXCEPT ![a] = NoId]
    /\ wait' = [wait EXCEPT ![a] = IF @ > 0 THEN @ - 1 ELSE 0]
    /\ Save(a, TRUE)

\* stop_local_service raises, with the service ended or not: it is called outside the try
\* block, so that nobody starts the service, and the agent goes on.
BackupStopFails(a) ==
    /\ Goto(a, "due", "top")
    /\ Fault
    /\ svc = "up"
    /\ svc' \in {"up", "off"}
    /\ RecordFailure(a)
    /\ UNCHANGED <<up, objects, rows, latest, reqs, created, stop, failures, was, userVars>>

\* Variant: the service is started again after the upload.
CopyThenSend(a) ==
    /\ Goto(a, "copy", "send")
    /\ created' = created \cup {job[a]}
    /\ UNCHANGED <<serviceVars, svc, file, running, stop, failures, wait, was, job, good, userVars>>

\* The backup is written, verified and indexed ...
Copy(a) ==
    /\ Goto(a, "copy", "restart")
    /\ created' = created \cup {job[a]}
    /\ UNCHANGED <<serviceVars, svc, file, running, stop, failures, wait, was, job, good, userVars>>

\* ... or it fails.
CopyFails(a) ==
    /\ Goto(a, "copy", "restart")
    /\ Fault
    /\ UNCHANGED <<up, objects, rows, latest, reqs, svc, created, file, running, stop, failures,
                   wait, was, job, good, userVars>>

\* finally: start_local_service, if the service was running.
Restart(a) ==
    /\ apc[a] = "restart"
    /\ was' = [was EXCEPT ![a] = FALSE]
    /\ svc' \in IF was[a] THEN {"up", "off"} ELSE {svc}
    /\ IF job[a] \in created /\ (was[a] => svc' = "up")
       THEN /\ apc' = [apc EXCEPT ![a] = "send"]
            /\ UNCHANGED <<file, running, wait, job, good>>
       ELSE /\ apc' = [apc EXCEPT ![a] = "top"]
            /\ RecordFailure(a)
    /\ UNCHANGED <<serviceVars, created, stop, failures, userVars>>

\* upload_backup, after verify_backup.
Upload(a) ==
    /\ Goto(a, "send", "uploading")
    /\ SendBackup(a, job[a])
    /\ UNCHANGED <<svc, created, file, running, stop, failures, wait, was, job, good, userVars>>

Uploaded(a) ==
    /\ Goto(a, "uploading", "top")
    /\ \E q \in reqs : Receive(a, q) /\ q.stage = "ok"
    /\ good' = [good EXCEPT ![a] = job[a]]
    /\ job' = [job EXCEPT ![a] = NoId]
    /\ wait' = [wait EXCEPT ![a] = IF @ > 0 THEN @ - 1 ELSE 0]
    /\ Save(a, TRUE)
    /\ UNCHANGED <<svc, created, stop, failures, was, userVars>>

\* Variant: whatever the answer to an upload, the backup counts as stored.
UploadFailsUnnoticed(a) ==
    /\ Goto(a, "uploading", "top")
    /\ Unanswered(a)
    /\ good' = [good EXCEPT ![a] = job[a]]
    /\ job' = [job EXCEPT ![a] = NoId]
    /\ wait' = [wait EXCEPT ![a] = IF @ > 0 THEN @ - 1 ELSE 0]
    /\ Save(a, TRUE)
    /\ UNCHANGED <<svc, created, stop, failures, was, userVars>>

UploadFails(a) ==
    /\ Goto(a, "uploading", "top")
    /\ Unanswered(a)
    /\ RecordFailure(a)
    /\ UNCHANGED <<svc, created, stop, failures, was, userVars>>

Run(a) ==
    \/ Boot(a) \/ End(a) \/ EndByError(a) \/ Exit(a)
    \/ NotDue(a) \/ Sync(a) \/ Synced(a) \/ SyncFails(a) \/ Sleep(a)
    \/ BackupBegin(a) \/ BackupStopFails(a) \/ Copy(a) \/ CopyFails(a) \/ Restart(a)
    \/ Upload(a) \/ Uploaded(a) \/ UploadFails(a)

\* An agent is killed, or an error ends it that even its last save meets.
Die(a) ==
    /\ Alive(a)
    /\ Fault
    /\ apc' = [apc EXCEPT ![a] = "dead"]
    /\ Forget(a)
    /\ Abandon(a)
    /\ UNCHANGED <<svc, created, file, running, was, good, userVars>>

-----------------------------------------------------------------------------
(* minit cloud agent start, agent stop, sync and backup *)

Command(to) ==
    /\ upc = "idle"
    /\ upc' = to
    /\ given < Commands
    /\ given' = given + 1

Continue(from, to) ==
    /\ upc = from
    /\ upc' = to
    /\ UNCHANGED <<slow, given>>

\* agent_is_running.
Recorded == file # NoAgent /\ Alive(file)

\* Variant: a second agent is started without a look at the first.
StartAnyway ==
    /\ Command("starting")
    /\ \E a \in Agents :
        /\ apc[a] = "unborn"
        /\ apc' = [apc EXCEPT ![a] = "boot"]
        /\ target' = a
    /\ UNCHANGED <<serviceVars, svc, created, file, running, stop, failures, wait, was, job, good,
                   final, slow>>

\* start_agent: refused while the recorded agent runs, otherwise Popen.
Start ==
    /\ ~Recorded
    /\ Command("starting")
    /\ \E a \in Agents :
        /\ apc[a] = "unborn"
        /\ apc' = [apc EXCEPT ![a] = "boot"]
        /\ target' = a
    /\ UNCHANGED <<serviceVars, svc, created, file, running, stop, failures, wait, was, job, good,
                   final, slow>>

\* It sees the record of its agent, or that its agent has exited.
StartEnds ==
    /\ Continue("starting", "idle")
    /\ (file = target /\ running) \/ apc[target] = "dead"
    /\ target' = NoAgent
    /\ UNCHANGED <<serviceVars, agentVars, final>>

\* It sees neither for 5 seconds: it leaves its agent behind, and shows an error.
StartTimesOut ==
    /\ upc = "starting"
    /\ Fault
    /\ upc' = "idle"
    /\ target' = NoAgent
    /\ slow' = slow \cup {target}
    /\ UNCHANGED <<up, objects, rows, latest, reqs, agentVars, final, given>>

\* stop_agent: SIGTERM to the recorded agent, if it is alive.
Stop ==
    /\ file # NoAgent
    /\ Command(IF Alive(file) THEN "stopping" ELSE "stopMark")
    /\ target' = file
    /\ final' = IF Alive(file) THEN NoAgent ELSE file
    /\ stop' = IF Alive(file) THEN [stop EXCEPT ![file] = TRUE] ELSE stop
    /\ UNCHANGED <<serviceVars, svc, created, file, running, apc, failures, wait, was, job, good,
                   slow>>

StopSees ==
    /\ Continue("stopping", "stopReload")
    /\ ~Alive(target)
    /\ UNCHANGED <<serviceVars, agentVars, target, final>>

\* Variant: after 10 seconds a stop takes the agent for stopped.
StopGivesUp ==
    /\ Continue("stopping", "stopReload")
    /\ Alive(target)
    /\ UNCHANGED <<serviceVars, agentVars, target, final>>

\* SIGKILL after 10 seconds, wherever the agent is.
StopKills ==
    /\ Continue("stopping", "stopReload")
    /\ Alive(target)
    /\ apc' = [apc EXCEPT ![target] = "dead"]
    /\ Forget(target)
    /\ Abandon(target)
    /\ UNCHANGED <<faults, svc, created, file, running, was, good, target, final>>

\* The record is read again ...
StopReload ==
    /\ Continue("stopReload", "stopMark")
    /\ final' = file
    /\ UNCHANGED <<serviceVars, agentVars, target>>

\* ... and written back as "stopped".
StopMark ==
    /\ Continue("stopMark", "idle")
    /\ Save(final, FALSE)
    /\ target' = NoAgent
    /\ final' = NoAgent
    /\ UNCHANGED <<serviceVars, svc, created, apc, stop, failures, wait, was, job, good>>

UserSends ==
    /\ \/ Command("sync") /\ SendStatus(User)
       \/ Command("upload") /\ \E b \in created : SendBackup(User, b)
    /\ UNCHANGED <<agentVars, target, final, slow>>

UserHears ==
    /\ Continue("sync", "idle") \/ Continue("upload", "idle")
    /\ (\E q \in reqs : Receive(User, q)) \/ GiveUp(User) \/ Broken(User)
    /\ UNCHANGED <<agentVars, target, final>>

Obey == StartEnds \/ StopSees \/ StopKills \/ StopReload \/ StopMark \/ UserHears

Next ==
    \/ Server /\ UNCHANGED <<agentVars, userVars>>
    \/ \E a \in Agents : Run(a) \/ Die(a)
    \/ Start \/ Stop \/ UserSends \/ StartTimesOut \/ Obey

Spec == Init /\ [][Next]_vars

\* The operating systems run an agent, a command and a handler that can take a step.
FairSpec ==
    /\ Spec
    /\ \A a \in Agents : WF_vars(Run(a))
    /\ WF_vars(Obey)
    /\ WF_vars(Serve /\ UNCHANGED <<agentVars, userVars>>)

-----------------------------------------------------------------------------
(* Properties *)

\* "bounded exponential backoff" (docs/LOCAL_MANAGER.md 172): no wait is longer than the
\* interval or the largest backoff.
Waits == 0..(IF Interval < MaxBackoff THEN MaxBackoff ELSE Interval)

\* Every variable has the shape the code gives it: the wait for the next sync is bounded
\* however many have failed, a backup being made has an id, a command that waits for an
\* agent has one.
TypeOK ==
    /\ ServiceTypeOK
    /\ svc \in {"up", "held", "off"}
    /\ created \subseteq Ids
    /\ file \in Agents \cup {NoAgent}
    /\ running \in BOOLEAN
    /\ apc \in [Agents -> Apcs]
    /\ stop \in [Agents -> BOOLEAN]
    /\ failures \in [Agents -> Nat]
    /\ wait \in [Agents -> Waits]
    /\ was \in [Agents -> BOOLEAN]
    /\ job \in [Agents -> Ids \cup {NoId}]
    /\ good \in [Agents -> Ids \cup {NoId}]
    /\ upc \in Upcs
    /\ target \in Agents \cup {NoAgent}
    /\ final \in Agents \cup {NoAgent}
    /\ slow \subseteq Agents
    /\ given \in Nat
    /\ \A a \in Agents :
        apc[a] \in {"copy", "restart", "send", "uploading"} => job[a] \in Ids
    /\ upc \in {"starting", "stopping", "stopReload"} => target \in Agents

\* A backup that an agent's record calls uploaded (last_backup_ok, last_backup_id) is
\* kept and listed by the service from then on: over crashes of either, lost answers,
\* refusals, and uploads of the same backup by hand (cloud_agent.py 192-207).
BackupOkIsListed ==
    \A a \in Agents : good[a] # NoId => good[a] \in rows \cap objects

\* Two agents of one project upload and sync side by side only after a start that gave
\* up on its agent (cloud_agent.py 225-259): each further agent was left behind so.
AgentsAreAccountedFor ==
    Cardinality({a \in Agents : Alive(a)}) <= Cardinality(slow) + 1

\* What the state file calls stopped has left its loop for good, and a stop ends the
\* agent it found; it leaves none at all, and no record of a running one, unless a start
\* gave up on its agent before (cloud_agent.py 211-215, 262-292).
StoppedMeansStopped ==
    /\ upc \in {"stopReload", "stopMark"} => ~Alive(target)
    /\ slow = {} =>
        /\ file # NoAgent /\ ~running => apc[file] \in {"exit", "dead"}
        /\ upc = "stopMark" => \A a \in Agents : ~Alive(a)

\* "Cloud failures do not stop the local app supervisor" (commands.py 235): the app that an
\* agent has stopped waits for the copy of its data and never for the cloud.  It waits for
\* ever with an agent that is killed while it copies.  (An app whose stop or start raised
\* is off, and no agent holds it: backups.py 387, 415.)
AppDoesNotWaitForCloud ==
    svc = "held" => \E a \in Agents : was[a] /\ apc[a] \in {"copy", "restart", "dead"}

\* "privacy-safe status sync", "retry uses bounded exponential backoff": once the
\* service can be reached and one agent stays, the newest status is there again and
\* again, whatever crashed, was lost or came late before (cloud_agent.py 171-190).
StatusArrives ==
    \A a \in Agents :
        <>[](up /\ \A o \in Agents : Alive(o) <=> o = a) => []<>(latest = "new")
=============================================================================

# Minit in TLA+

Minit runs one web application from the user's own computer: `minit deploy`
starts it under a detached supervisor, `minit stop` and `minit restart` manage
it, backups and snapshots protect it, and a small cloud service may keep
encrypted backups and a status. Everything is a short-lived command or a
background process; they share files under `.minit/`, `~/.minit/` and a port,
and there is no lock between them but the one of the helper installation. That
is where the difficulty lies, and what this directory is about.

It holds TLA+ modules for the parts that matter most, TLC configurations that
check them on small instances, and proofs that TLAPS checks for all instances.
`PROJECT.json` lists runs, mutants, the source lines of every definition,
findings, hazards and theorems.

    tlc -workers 2 -config OneUser.cfg LocalRuntimeMC     # any run: see PROJECT.json
    tlapm LocalRuntimeProofs.tla                          # any proof module

## The system

| Component | State | Operations | Interacts through |
|---|---|---|---|
| Local runtime, commands (`runtime.py`, `main.py`) | none of its own | deploy, stop, restart, status | `runtime.json`, `control.json`, signals, process identities |
| Supervisor (`supervisor.py`) | its record, `stop_requested`, `app_process` | boot, spawn, poll, restart, probe, save, wind down | the same files, the app's port |
| Autostart entry (`autostart.py`) | a systemd unit, LaunchAgent or task; a flag in `service.json` | install, remove; launches a supervisor at login and after a failure | starts supervisors beside the commands |
| Service specification (`service.py`) | `service.json` | configure, load, validate | read by supervisor and commands |
| Private files (`private_fs.py`) | - | atomic replacement of a file | used for every shared file |
| Backups (`backups.py`) | `.mnb` files, `index.json`, `.minit/data` | create, verify, restore, list | stops and starts the service; the app writes the data |
| Snapshots (`snapshots.py`) | zip files, an index, the project's source | create, restore (after a safety snapshot) | stops and restarts the service |
| Helper and sharing (`cli.py`) | cached `cloudflared`, its install lock, publish history | install once, open a tunnel, record | a lock file between all minit processes of a user |
| Registry and ports (`registry.py`, `ports.py`) | a list of projects | register, list, resolve; choose a port | one file for all projects of a user |
| Manifest (`state.py`) | identity, history | ensure, record start and stop | read-modify-write |
| Keys (`key_store.py`, `app_keys.py`, `recovery.py`, `secrets.py`, `device.py`) | device key, wrapped app key, envelopes | get or create, wrap, recover | the operating system's key store |
| Cloud agent and client (`cloud_agent.py`, `cloud_client.py`) | agent state, schedule, backoff | start, stop, sync, back up and upload | HTTP to the cloud service; `create_backup` |
| Cloud service (`cloud_service/app.py`) | backup objects, a table of them, latest statuses | upload, list, download, status | HTTP |
| Detection, hints, monitoring | none | pure decisions, measurements | - |

Hard behaviour, and the properties that make each component correct:

- *Lifecycle.* Commands, supervisors and the login entry interleave at every
  file access; a state read before a ten-second wait is used after it; any of
  them may be killed. Right means: nothing is terminated but what was meant,
  identities on file stay consistent, one supervisor and one app at a time,
  every command ends, every exit of the app is acted on.
- *Backups and snapshots.* They stop the service, do many steps, and start it
  again; each step may fail or be the last. Right means: a backup is the data of
  one moment, a restore changes the data at once or not at all, no failure
  deletes the only copy, the service comes back.
- *Helper installation.* A lock file with a stale limit. Right means: installers
  take turns, an installed helper is not written again, nobody waits for ever.
- *Registry, manifest, index.* Concurrent read-modify-write. Right means: no
  entry is lost.
- *Keys.* Two processes create the same key. Right means: what was encrypted can
  be decrypted, on this device or, by the recovery key, on another.
- *Cloud.* Lost answers, duplicate uploads, a crash between storing an object
  and listing it. Right means: listed if and only if stored, and retries succeed.

## Modules

| Module | What it is |
|---|---|
| `LocalRuntime` | the lifecycle of one project, step by step |
| `OneService` | what the lifecycle promises one user: at most one service, at most one app in it |
| `LocalRuntimeMC` | symmetry, and the refinement of `OneService` |
| `LocalRuntimeProofs` | proofs about `LocalRuntime`, and that for one user it implements `OneService` |
| `Backups` | create and restore of data backups, with the service around them |
| `AtomicData` | what they promise: backup and restore as single steps |
| `BackupsMC` | symmetry, and the refinement of `AtomicData` |
| `BackupsProofs` | proofs about `Backups`, and that for users who take turns it implements `AtomicData` |
| `InstallLock` | the installation of the networking helper |
| `InstallLockProofs` | proofs about `InstallLock` |
| `CloudService` | the cloud service and the requests on their way to and from it |
| `CloudAgent` | a project's cloud agent, its start and stop, and uploads by hand, in front of `CloudService` |
| `CloudProofs` | proofs about both |
| `Terminals` | commands typed at several terminals, each a list of steps that touch one file |
| `AppKeys` | the steps on identity, publish history, root key, app key, secrets and recovery key |
| `Projects` | the steps on ports, the service specification, the registry and the login entry |
| `Snapshots` | the steps on the source of a project and its snapshots |
| `Workspace` | the commands made of these steps, together |
| `WorkspaceMC` | what is typed |
| `WorkspaceProofs` | proofs about `Workspace` under any interleaving: the snapshot index, shown recovery keys |
| `WorkspaceTypes` | outlines of agendas, and the types of `Workspace` |
| `WorkspaceKeys` | proofs that secrets open and recovery keys recover |
| `WorkspaceTurns` | proofs about commands that take turns: rollbacks, ports, login entries, nothing lost |

### LocalRuntime

| Variable | In the code |
|---|---|
| `rec` | `.minit/runtime.json`: supervisor identity, app identity, status |
| `control` | `.minit/control.json` holds `"action": "stop"` |
| `spc`, `stopFlag`, `handle`, `state` | a supervisor: its place in `supervise()`, `stop_requested`, `app_process`, and `app_pid` and `status` of its `state` dictionary |
| `ast`, `owner`, `port` | the app processes, who spawned them, who listens on the port |
| `cpc`, `loaded`, `victim`, `target`, `again` | a command: its place in `deploy`, `start_local_service` or `stop_local_service`; the record it loaded (supervisor and app), the supervisor it waits for, and whether it is a restart |
| `unit` | the supervisor that the service manager runs |

Every read, write, spawn, kill and probe is an action of its own; the actions
`Sup...` follow `supervise()` line by line, `Deploy...`/`Start...` follow
`deploy` and `start_local_service`, `Stop...` follow `stop_local_service`.
Abstractions:

- A process identity (pid and create time) is a process generation, an element
  of `Sups` or `Apps` that lives at most once; `pid_is_alive` compares create
  times, so this is what the code sees as long as a create time could be read.
  `started_at` is identified with the supervisor's generation.
- The memory of a process that ended is reset: nobody can see it.
- `"restarting"` counts as `"starting"`: only displays tell them apart.
- The exit code of an app is chosen where its parent reads it.
- Saving is atomic, as `private_fs.py` makes it; with `SaveErrors` it may raise
  and leave the record as it was.
- Terminating an app is one step: an app that answers SIGTERM is one that exited
  before it. An app is the one process that Minit records. Its children, which
  the supervisor's wind-down signals as a group and a forced stop does not, are
  part of the stranger below.
- The port is held by one process: an app, or a `Stranger`, which stands for any
  program Minit has not recorded, a server of somebody else or a child that
  outlived its app. It takes a free port and leaves it at any time. So the probe,
  which only asks the port, may call an app healthy that never listened.
- SIGTERM sets the flag of a supervisor that has installed its handlers, and ends
  one that has not: the record names it one step before (supervisor.py 109, 119).
- Time is left out. A deadline may expire at any moment, except under `Patient`,
  which is the assumption that a supervisor saves its first record within the 25
  seconds of `start_local_service` and answers a stop request it can still see
  within the 10 seconds of `stop_local_service` (its loop has a period of two
  seconds, a wind-down takes at most five).

### Backups

`svc` is `runtime_is_running`; `cur` is `.minit/data`; `stored` and `index` are
the backup files and `backups/index.json`. A command has its place `pc`, its
`was_running`, the files it has still to read (`todo`), its archive or staging
directory (`part`), the index it loaded (`held`), the backup it restores
(`pick`) and the directory it has set aside (`old`). An archive is the contents
it holds; encryption, headers and tar members are left out, so a stored backup
always verifies. Listing the files and reading each of them are separate steps,
and so are the two renames of a restore and the undo of a failed one. Renaming
onto an empty directory may work (POSIX) or fail (Windows). `Errors` lets any
step inside `try` raise; the undo itself is not made to fail again. Stopping and
starting the service are single steps: `LocalRuntime` is what is behind them. The
stop is outside `try` (backups.py 387-388, 475-476): when it raises, the service
up or ended already, nobody starts it (`StopFails`).

### InstallLock

`file` is the helper in the cache (absent, partly written, whole), `lock` the
creator of the lock file. Time is two facts: `stale`, that the lock file is
older than 300 s, and `late[p]`, that a process has waited for 120 s. The two
`cached.exists()` before the lock (cli.py 199, 234) are one step. `Patient`:
no living holder takes longer than the stale limit.

### CloudService and CloudAgent

| Variable | In the code |
|---|---|
| `up` | does the server process run? |
| `objects`, `rows` | the backup files in place and the table `backup_objects` |
| `latest` | the row of `latest_status`: the newest status built, an older one, or an older one that was written after a newer one was built |
| `reqs` | the requests between the client that sent them and the end of their handler; `alive`: somebody still waits for the answer |
| `svc`, `created` | the app's service (`"held"`: stopped for a backup), and the project's backups |
| `file`, `running` | `cloud-agent-state.json`: whose record, and its status |
| `apc`, `stop`, `failures`, `wait`, `was`, `job`, `good` | an agent: its place in `run_agent`, `stop_requested`, its failures, the time to its next status, and `create_backup`'s `was_running`, the backup it works on, and the one its record calls uploaded |
| `upc`, `target`, `final`, `slow`, `given` | the user's command: its place in `start_agent`, `stop_agent` or an upload, the agent it waits for, the record it is about to mark; the agents whose start gave up on them; the commands so far |

The server handles uploads on one event loop: an upload gives way to another one
only while it waits for data, so there is no step between storing the file and
inserting its row but a crash or an error. A client that times out does not stop
its handler: the request goes on with `alive` off. Backups are their ids, since
the server sees only ciphertext. Time is a count of the rounds of the agent's
loop: `wait` counts down to the next status, and after a failure it is the
bounded backoff; failures are counted up to `MaxFailures`, from where on it
stays the same. `create_backup` is begun, copies, and restarts the service;
`Backups` has its steps. Its stop of the service may raise here too, and the
agent goes on (`BackupStopFails`). The end of an agent is two steps: the record
says `"stopped"` first, and the process writes its log and exits afterwards. An
agent is a process generation, although the code compares PIDs alone here: a PID
that is used again is left out.

### Terminals, AppKeys, Projects, Snapshots, Workspace

`Terminals` is a way to write down many short commands. A command in the
making is its `agenda`, a list of steps; every step reads or writes one file, or
asks the operating system once. A step may put more steps in front, end the
command (an exception), or fail for a reason from outside; a user may interrupt
a command anywhere. `Workspace` gives the agenda of each command (`Program`) and
joins the steps of the three modules, each of which changes its own files:

- `AppKeys`: `manifest` (`app.json`: identity and publish history, of which only
  the two counts matter), `root` (the operating system's key store), `appKey`,
  `secrets`, `recovery` (three envelopes under `.minit/`), `km` (what a command
  remembers between its steps); `printed` are the recovery keys shown, `retired`
  the root keys of devices left behind, `runs` the publications there were. An
  envelope is a record of its contents, the key and the context it opens with;
  to open it with another one is an exception.
- `Projects`: `spec` (`service.json`), `registry`, `unit` (the login entry),
  `svc` (the port of the running service) and `pm` (memories). `requested` notes
  for which projects a port was given. The three platforms of the entry are one.
  Starting and stopping the service are steps: `LocalRuntime` is behind them.
- `Snapshots`: `src` (source files; the contents of a file are the edit that made
  it), `archives`, `listed` (the index), `sm` (memories), and in `before` the
  source that the last rollback found. That an archive is the one the index
  means is checked before anything is written; a check that fails is one of the
  reasons in `UnpackFails`. A file is truncated, then written: in between it is
  `Torn`, and stays so if the rollback is interrupted or fails there.

## Runs

| Run | Instance | Shows |
|---|---|---|
| `one_user` | 1 command process, 2 supervisors, 2 apps, `on-failure`, all three commands, fair; 69 000 states | The lifecycle implements `OneService`; supervisors wind down clean; the last record is final; stops, starts and restarts end; every exit of the app is acted on. |
| `contention` | 2 command processes that deploy and stop, 2 supervisors, 2 apps; 5.6 M states | Stops end their target, terminate nothing else, and the record never mixes two supervisors. |
| `crashes` | 2 command processes that stop, the login entry that launches, kills, reboots, failing saves, deadlines that expire at any moment, `always`; 3.3 M states | The same, and that no supervisor ever runs two apps. |
| `orphan_after_crash` | as `one_user`, with kills | Violated: see findings. |
| `two_deploys` | 2 overlapping deploys | Violated: see findings. |
| `backups_in_turn` | 2 commands, 2 files with 2 versions, errors at any step, fair; 62 000 states | Backup and restore implement `AtomicData`; what a command has stopped comes back. |
| `backups_together` | 3 commands together, kills and errors; 1.2 M states | The index is sound, no step deletes the only copy of the data. |
| `restore_crash` | 2 commands in turn, kills | Violated: see findings. |
| `two_installers` | 2 processes, kills, downloads that fail or hang, failing copies, fair; 1 000 states | Installers take turns, an installed helper is not written again, nobody waits for ever. |
| `stale_lock` | the same with 3 processes | Violated: see findings. |
| `cloud` | 2 agents and a user by hand, 3 commands, 1 backup id, 1 crash, kill, timeout, refusal or error, fair; 205 000 states | The service's answers and lists are true, only a fault leaves a stored backup unlisted, what an agent calls uploaded stays so, agents are accounted for, what is recorded as stopped has left its loop, the app never waits for the cloud, the newest status arrives again and again. |
| `workspace` | all lists of 4 commands of one kind at one terminal, all pairs at two, also after one more; 2 projects, 2 ports, 2 files, 1 interruption or failure; 686 000 states | Secrets open, shown recovery keys recover, no envelope is kept under a key nobody saw, ports differ, the login entry is there, listed snapshots are stored, a rollback can be undone and is complete, nothing is lost between commands. |

*Bounds.* `Sups`, `Apps` and `Ops` bound how many processes are ever launched,
not a queue in the code; when they are used up, launching fails as a failing
`Popen` does. Two supervisors are what a stop and a start, or two racing starts,
need; a stale identity is one of two. Two apps give one restart under one
supervisor or one app under each of two. Two command processes are enough for
every pair of steps to interleave. `contention` and `crashes` share the faults
between them so that each stays small; that the same properties hold with all of
them at once is what the proofs show. Two files are what it takes for a backup to
mix two moments; three commands are what it takes for a restore to meet another
restore of an existing backup, and there one file is enough. With two processes
the install lock survives even a killed holder, since one waiter is left;
`stale_lock` shows that this is not so for two waiters.

In `cloud`, two agents are a running one and one that is started anew or that a
start left behind; three commands are a start, a stop and a second start, or an
upload by hand between; the backup is made by one agent and may meet itself when
it is uploaded by hand, or by a request that was given up. `Interval` is one
round and `MaxBackoff` three, so that the backoff begins at the interval, doubles, and is
capped. One fault is enough for each step to be the one
that fails; that the safety properties hold with any number of them is proved.
In `workspace`, four commands are the longest history the
properties speak of (make a key, print it, move, recover; deploy twice, stop,
deploy), and two overlapping commands are what a race takes. Two ports make a
second project meet the first one's; two files make a snapshot and a rollback
several steps. Commands of different kinds share `app.json` and the running
service, and these mixtures are in the lists; so is a move between commands on a
service, since its registration stays behind.

*Symmetry* of processes, files' versions and commands is used in runs without
liveness.

*Deadlock* is checked except where the system ends: in `InstallLock` every process
attempts once, in `cloud` and `workspace` the commands are used up.

*Fairness.* Weak fairness of each process: the operating system runs a process
that can take a step, and every loop of the code sleeps and goes on. Users owe
nothing (no fairness for beginning a command), nor do apps (for listening or
exiting). In `InstallLock` deadlines pass; that a lock gets stale is not
assumed, since 300 s is more than anybody waits, and nor is the end of a download,
which the code starts without a timeout (cli.py 154): `NobodyWaitsForEver` is about
those who wait, and about a holder outside its download. `StopTerminates` and
`StartTerminates` hold by different means: under `Patient` a stop ends because
the supervisor answers, a start ends by its deadline at the latest, because an
app may never open its port. In `CloudAgent` the agents' loops, the waiting
command and the server's handlers are fair, each by itself: they only sleep and
await. The server's restart, the network and the user are not; `StatusArrives`
therefore speaks of the time when the server can be reached and one agent is left.

*Mutants.* `PROJECT.json` names for each property of a passing run a plausible
bug (the operators marked `Variant:` in the modules) that the run then finds.

## Findings

- `orphan_after_crash`: `stop_local_service` terminates the recorded app when
  it finds the supervisor dead at first (runtime.py 280-290), but not when the
  supervisor is killed while it waits (292-310): it reports success, and the
  record forgets an app that is still up.
- `two_deploys`: deploy is described as idempotent (main.py 129-132), but the
  check and the launch are not atomic, and the record names the supervisor only
  after it has booted; two deploys within that time launch two supervisors.
- `restore_crash`: "atomically replace `.minit/data`" (BACKUP_AND_RECOVERY.md
  161) is two renames. Killed in between, the next start gives the app an empty
  directory, and its data lies where no command looks.
- `stale_lock`: "the installer is now serialized" (LOCAL_MANAGER.md 191) is not
  so after a crash: a waiter may remove the lock that another waiter has just
  taken in place of the stale one.

Other consequences of the code that the models reach and that no property
excludes are in the hazards of `PROJECT.json`: with more than one user a backup
can be of a state that never was; two backups can lose an index entry; a partly
copied helper counts as installed; after a save that raised in `start_app` the
`finally` clause terminates the wrong process; behind a stranger on its port a
crashing app is reported healthy; a stop that raises after the service has ended
leaves it down, and the backup or restore around it does not start it again. Of
the workspace: `deploy --port` of a running service writes the new port to
`service.json` and then refuses; `recovery create` that is interrupted before it
shows its key is refused from then on; deploying again clears the autostart flag
while the entry stays installed; a deploy that times out leaves a service that
no registry entry reserves a port for; of two deploys at once one may be lost
from the registry, or both choose one port; commands that overlap while an
identity or a key is still to be made can lose a key; the ports of projects that
moved to another computer are reserved on neither. Of the cloud: a crash between
storing a backup and its row leaves it refused as a duplicate and in no list;
`agent stop` kills, after ten seconds, an agent that is copying the data of a
stopped app (cloud_agent.py 281-286): the app stays down, and the command prints
"The local app supervisor was not touched" (commands.py 289).

## Proofs

All theorems hold for every set of processes, files and versions, every policy
and every setting of the switches, except where an assumption is named. The
modules assume only that null values are not ordinary ones, that switches are
Booleans, and what is said of `Workspace` below.

`LocalRuntimeProofs`. Three layers of one inductive invariant, which hold under every fault:

- `Typing`: `TypeOK /\ Born`. `Born` says that every supervisor identity on file
  or in a command's memory is that of a process that was launched, and that the
  target of a stop past its checks is dead. It is needed because *alive* is not
  stable under launching, but *dead* is: a generation never returns. From it,
  `StopIsFinal` (`StopEndsItsTarget`).
- `Ownership`: with `Owned`, whoever remembers an app next to a supervisor (the
  supervisor, the record, a stop) remembers one that this supervisor spawned.
  The record alone is not inductive: it is written from memory. From it,
  `RecordIsConsistent` and `StopKillsOwnAppOnly`.
- `Runnings`: with `Running`, what a supervisor runs at each place of
  `supervise()`. From it, `NeverTwoApps`, and, if saves do not raise,
  `WindsDownClean` (`SupervisorLeavesNoApp`). Without that assumption the last
  one is false: `app_process` is assigned after the save in `start_app`.

`LocalRuntimeProofs`, second part, under `OneUser`: one command process, no kills, no login
entry, saves that do not raise, and kept deadlines (`Patient`). The invariant
`Single` ties the record to the one live supervisor. From the save of its base
record on, the record names it; until then the command that launched it waits
and still sees the record from before. A command launches only when nobody is
alive, for it has checked the record. A stop's request stays on file until it is
answered, because nobody else starts anything, so with kept deadlines no
stop is forced and no app outlives its supervisor. From it, `RecordsEndFinal`
(`RecordIsFinal`) and `OneUserHasOneService` (`ImplementsOneService`): every step is one of
`OneService` or a stutter. The assumptions are needed: `orphan_after_crash` and
`two_deploys` show what happens without them.

`BackupsProofs`. `Types` (`TypeOK`). Then an invariant that says that every entry
of the index, or about to be saved in it, has a stored backup, and that a restore
that deletes what it set aside has no staging directory left. From it,
`IndexIsSound` and `DataIsKept`.

`BackupsProofs`, second part, for users who take turns and commands that fail
anywhere but are not killed (`InTurn`). `TurnInv`: at most one command runs; the service is
stopped while files are copied, so nobody changes the data; what is copied so far
equals what is there, and what is staged equals the stored backup; data is set
aside only while directories are swapped. So the publication of an archive is an
atomic backup, the second rename an atomic restore, and every other
step, the undo of a failed restore included, leaves the abstract data alone:
`BackupsAreAtomic` (`ImplementsAtomicData`).

`InstallLockProofs`. Provided that no holder is killed or outlives the stale
limit: the lock names the one process past it and is never stale, so
`InstallersAreSerialized` and `InstalledHelperStays`.

`CloudProofs`, for every finite set of agents, any number of commands, requests
and faults: `CloudTypes`, `ServiceIsTruthful` (`AnswersAreTrue`),
`StoredMeansListed` (`StoredIsListed`), `RecordIsTrue` (`BackupOkIsListed`),
`OneAgentPerStart` (`AgentsAreAccountedFor`, by counting: while neither the
recorded agent nor the one being started is alive, every agent that is was left
behind by its start), `StopIsTrue` (`StoppedMeansStopped`: what is recorded as
stopped may still have to exit) and `CloudDoesNotHoldTheApp`
(`AppDoesNotWaitForCloud`: whoever stopped the app is copying, about to start
it, or was killed there). A request in the stage of inserting its row has its
file in place, and an answer never outlives what it says, since nothing removes
files or rows.

`WorkspaceProofs`, for any number of terminals, projects, commands and
interruptions. An agenda is *in order*: a snapshot is stored once and before it
is listed, and a recovery key is shown right after its envelope is
written. Every step keeps that (steps are only added in front, and none of
these four is among them), the ids
of archives are those of commands already begun, and an index about to be saved
names only stored archives. Most steps change none of this but their own agenda,
which one lemma deals with. From it, `ListedSnapshotsAreStored` (`ListedIsStored`) and
`RecoveryKeysAreHeld` (`RecoveryIsHeld`).

The other proofs about `Workspace` have to know what a command does between its
steps: that `saveRegistry` comes after `readRegistry`, that a key is wrapped
before something is encrypted with it, and that the next command finds things as
the last one should have left them. This they say with *outlines* (first part of
`WorkspaceTypes`), as one annotates a program. A table names facts; of each fact
it says which steps need it, which give it, and which lose it. An outline of a
list of steps says what is known between them: it begins with what is known now,
has what each step needs, gains no more than a step gives, and ends with what
the command has to leave behind. The lemmas say how outlines are made (of one
step, of lists joined together, of steps that touch nothing) and what becomes of
them when the first step is done, also when it puts more steps in front. An
invariant then reads: every agenda has an outline from the facts that hold now.
That a step keeps it is one lemma per step or group of steps: what the step gives
holds after it, and what it does not lose still holds. That a command begins with
an outline is a lemma about its list of steps alone.

- `WorkspaceTypes`: the facts are that a memory has been read. `WorkspaceIsTyped`
  (`TypeOK`), under every interleaving and interruption.
- `WorkspaceKeys`: the facts are what the memory of identity, root key and app
  key has to do with the files. Nothing loses them while no command makes an
  identity or a key that another one uses (`~raced`), although commands overlap
  otherwise and stop anywhere. `AllSecretsOpen` (`SecretsOpen`),
  `RecoveryKeysRecover` (`PrintedKeysRecover`).
- `WorkspaceTurns`: as long as commands take turns one of them runs at a time
  (`Single`), and every project in which none runs is as the last one left it.
  There are three tables. *Saves*: the list of snapshots names what is stored
  (unless a command was interrupted between the two), a safety snapshot holds the
  source before the first file is written, what is unpacked stays. It holds with
  interruptions too: `RollbacksCanBeUndone` (`RollbackCanBeUndone`),
  `RollbacksRestore` (`RollbackRestores`). *Counts*: a publication is counted,
  and ended. *Serves*: a project with a specification is registered, or the
  command on the way to its registration has a port that no other project has and
  that nobody listens on, so its service does start; a specification that says
  there is a login entry is right. Ports differ in the specifications, and the
  registry has the ports of the specifications. These two hold until the first
  interruption, which each of the properties excludes. `PortsStayDifferent`
  (`PortsDiffer`), `AutostartStaysInstalled` (`AutostartIsInstalled`) and, of all
  three, `NothingGetsLost` (`NothingIsLost`).

Assumed of the constants are only that what is typed is a list of known commands
(`ScriptsAreCommands`, `CommandsAreKnown`), that numbers are natural
(`FaultsAreNatural`, `PortsAreNatural`, `FilesAreNatural`), and that `None` is
none of the values (`NoneIsNoTag`, `NoneIsNoEnvelope`, `NoneIsNoPort`).

Every safety property and every refinement that a passing run checks is proved.
Only model-checked: what needs fairness (`StopTerminates`, `StartTerminates`,
`ExitIsNoticed`, `NobodyWaitsForEver`, `StatusArrives` and `ServiceComesBack`), which
is beyond this prover.

## Not modelled, and the plan

Not modelled, and why:

- `private_fs.py`: the replacement of a file is one step everywhere. Its reader
  sees the old or the new file, by the operating system's promise.
- Recognition of frameworks and of ports in a source text (`detection.py`),
  management hints, validation of commands and arguments: pure functions of text
  whose rules are the code itself; only where the port of a deployment comes
  from is modelled.
- Monitoring, log files, metrics, wording, HTML and packaging: no state that
  anything depends on.
- The cipher, tar and zip formats: a library's; an envelope or an archive opens
  as what went in, or raises.
- `device.py` and the token of the cloud service: one value, made once.
- The tunnel process itself and the probes of its address: an external program.
- Identity by PID alone: where a create time could not be read, and for cloud
  agents always, a PID that is used again may be taken for the process.

What would come next: an abstract store that `Workspace` implements for users who
take turns, each command one step of it; a module for the steps of
`private_fs.py` that implements the atomic file of the others; the pure
decisions of detection as operators against a reference definition.

-------------------------- MODULE LocalRuntimeProofs --------------------------
(*************************************************************************)
(* Proofs about LocalRuntime, for every set of commands, supervisors     *)
(* and apps, every restart policy, and with or without crashes, a login  *)
(* entry, failing saves and kept deadlines.                              *)
(*                                                                       *)
(* With one user at a time, no kills, no login entry, saves that do not  *)
(* raise and kept deadlines, LocalRuntime implements OneService, and     *)
(* its last record is final. The argument is that the record names the   *)
(* one supervisor that is alive from the save of its base record on,     *)
(* and that until then the command that launched it waits for it.        *)
(*************************************************************************)
EXTENDS LocalRuntimeMC, TLAPS

\* The places of stop_local_service after it has loaded a record ...
Stopping == StopPcs \ {"stopLoad"}

\* ... and those it reaches only when the supervisor of that record is dead.
Ended == {"stopOrphan", "stopMarkOrphan", "stopClear", "stopReload", "stopMark"}

\* Every supervisor identity that a file or a command holds is that of a process
\* that has been launched: a dead one never comes back.
Born ==
    /\ rec # NoRecord => spc[rec.sup] # "unborn"
    /\ \A c \in Clis : cpc[c] \in Stopping =>
        /\ target[c] \in Sups /\ spc[target[c]] # "unborn"
        /\ loaded[c] \in Sups /\ spc[loaded[c]] # "unborn"
    /\ \A c \in Clis : cpc[c] \in Ended => spc[target[c]] = "dead"

\* Before the first command there is no identity to be wrong about.
LEMMA InitInv == Init => TypeOK /\ Born
<1> SUFFICES ASSUME Init PROVE TypeOK /\ Born
  OBVIOUS
<1>1. TypeOK
  BY DEF Init, TypeOK, Blank, SupPcs, CliPcs, StartPcs, StopPcs, AppStates, Statuses
<1>2. Born
  BY DEF Init, Born, Stopping, Ended, StopPcs
<1> QED
  BY <1>1, <1>2

\* What a save leaves in runtime.json is a record, written or not.
LEMMA SaveType ==
    ASSUME TypeOK, NEW s \in Sups, NEW next \in SupPcs, NEW onError \in SupPcs,
           state'[s] \in [app : Apps \cup {NoApp}, status : Statuses],
           Save(s, next, onError)
    PROVE  /\ rec' \in Record \cup {NoRecord}
           /\ spc' \in [Sups -> SupPcs]
<1>1. [sup |-> s, app |-> state'[s].app, status |-> state'[s].status] \in Record
  BY DEF Record
<1> QED
  BY <1>1 DEF Save, TypeOK

\* A supervisor's step keeps the types.
LEMMA SuperviseType ==
    ASSUME TypeOK, NEW s \in Sups, Supervise(s)
    PROVE  TypeOK'
<1> USE DEF TypeOK, SupPcs, Statuses, Record, fileVars, supVars, appVars, cliVars
<1>1. CASE SupClear(s)
  BY <1>1 DEF SupClear, SupGoto
<1>2. CASE SupBase(s)
  <2>1. state' \in [Sups -> [app : Apps \cup {NoApp}, status : Statuses]]
    BY <1>2 DEF SupBase
  <2>2. Save(s, "handlers", "dead")
    BY <1>2 DEF SupBase
  <2>3. rec' \in Record \cup {NoRecord} /\ spc' \in [Sups -> SupPcs]
    BY <2>1, <2>2, SaveType
  <2> QED
    BY <1>2, <2>1, <2>3 DEF SupBase
<1>3. CASE SupSpawn(s)
  BY <1>3 DEF SupSpawn, SupGoto, AppStates
<1>4. CASE SupSpawnFails(s)
  BY <1>4 DEF SupSpawnFails, SupGoto
<1>5. CASE SupRecord(s)
  <2>1. state' \in [Sups -> [app : Apps \cup {NoApp}, status : Statuses]]
    BY <1>5 DEF SupRecord
  <2>2. Save(s, "loop", "failing")
    BY <1>5 DEF SupRecord
  <2>3. rec' \in Record \cup {NoRecord} /\ spc' \in [Sups -> SupPcs]
    BY <2>1, <2>2, SaveType
  <2> QED
    BY <1>5, <2>1, <2>3 DEF SupRecord
<1>6. CASE SupReadControl(s)
  BY <1>6 DEF SupReadControl, SupGoto
<1>7. CASE SupPollUp(s)
  BY <1>7 DEF SupPollUp, SupGoto
<1>8. CASE SupPollExited(s)
  <2>1. state' \in [Sups -> [app : Apps \cup {NoApp}, status : Statuses]]
    BY <1>8 DEF SupPollExited
  <2>2. Save(s, "decide", "failing")
    BY <1>8 DEF SupPollExited
  <2>3. rec' \in Record \cup {NoRecord} /\ spc' \in [Sups -> SupPcs]
    BY <2>1, <2>2, SaveType
  <2> QED
    BY <1>8, <2>1, <2>3 DEF SupPollExited
<1>9. CASE SupRestart(s)
  <2>1. state' \in [Sups -> [app : Apps \cup {NoApp}, status : Statuses]]
    BY <1>9 DEF SupRestart
  <2>2. Save(s, "spawn", "failing")
    BY <1>9 DEF SupRestart
  <2>3. rec' \in Record \cup {NoRecord} /\ spc' \in [Sups -> SupPcs]
    BY <2>1, <2>2, SaveType
  <2> QED
    BY <1>9, <2>1, <2>3 DEF SupRestart
<1>10. CASE SupGiveUp(s)
  BY <1>10 DEF SupGiveUp, SupGoto
<1>11. CASE SupProbe(s)
  <2>1. PICK status \in Statuses : state' = [state EXCEPT ![s].status = status]
    BY <1>11 DEF SupProbe
  <2>2. state' \in [Sups -> [app : Apps \cup {NoApp}, status : Statuses]]
    BY <2>1
  <2> QED
    BY <1>11, <2>2 DEF SupProbe, SupGoto
<1>12. CASE SupSaveHealth(s)
  <2>1. state' \in [Sups -> [app : Apps \cup {NoApp}, status : Statuses]]
    BY <1>12 DEF SupSaveHealth
  <2>2. Save(s, "loop", "failing")
    BY <1>12 DEF SupSaveHealth
  <2>3. rec' \in Record \cup {NoRecord} /\ spc' \in [Sups -> SupPcs]
    BY <2>1, <2>2, SaveType
  <2> QED
    BY <1>12, <2>1, <2>3 DEF SupSaveHealth
<1>13. CASE SupFail(s)
  <2>1. state' \in [Sups -> [app : Apps \cup {NoApp}, status : Statuses]]
    BY <1>13 DEF SupFail
  <2>2. Save(s, "term", "term")
    BY <1>13 DEF SupFail
  <2>3. rec' \in Record \cup {NoRecord} /\ spc' \in [Sups -> SupPcs]
    BY <2>1, <2>2, SaveType
  <2> QED
    BY <1>13, <2>1, <2>3 DEF SupFail
<1>14. CASE SupTerminate(s)
  BY <1>14 DEF SupTerminate, SupGoto, Terminate, AppDies, AppStates
<1>15. CASE SupCleanup(s)
  BY <1>15 DEF SupCleanup, SupGoto
<1>16. CASE SupFinal(s)
  <2>1. state' \in [Sups -> [app : Apps \cup {NoApp}, status : Statuses]]
    BY <1>16 DEF SupFinal
  <2>2. Save(s, "exit", "exit")
    BY <1>16 DEF SupFinal
  <2>3. rec' \in Record \cup {NoRecord} /\ spc' \in [Sups -> SupPcs]
    BY <2>1, <2>2, SaveType
  <2> QED
    BY <1>16, <2>1, <2>3 DEF SupFinal
<1>17. CASE SupExit(s)
  BY <1>17 DEF SupExit, SupDies, Blank
<1>18. CASE SupHandlers(s)
  BY <1>18 DEF SupHandlers, SupGoto
<1> QED
  BY <1>1, <1>2, <1>3, <1>4, <1>5, <1>6, <1>7, <1>8, <1>9, <1>10, <1>11, <1>12,
     <1>13, <1>14, <1>15, <1>16, <1>17, <1>18 DEF Supervise

\* A step of a starting command keeps the types.
LEMMA StartType ==
    ASSUME TypeOK, NEW c \in Clis, Start(c)
    PROVE  TypeOK'
<1> USE DEF TypeOK, CliPcs, StartPcs, Record, fileVars, supVars, appVars, cliVars
<1>1. CASE DeployCheck(c)
  BY <1>1 DEF DeployCheck, CliGoto, Return
<1>2. CASE DeployPort(c)
  BY <1>2 DEF DeployPort, CliGoto, Return
<1>3. CASE StartCheck(c)
  BY <1>3 DEF StartCheck, CliGoto, Return
<1>4. CASE StartPrev(c)
  BY <1>4 DEF StartPrev, CliGoto, RecordedSup
<1>5. CASE StartClear(c)
  BY <1>5 DEF StartClear, CliGoto
<1>6. CASE StartPopen(c)
  BY <1>6 DEF StartPopen, CliGoto, SupPcs
<1>7. CASE StartPopenFails(c)
  BY <1>7 DEF StartPopenFails, Return
<1>8. CASE StartSucceeds(c)
  BY <1>8 DEF StartSucceeds, CliGoto
<1>9. CASE StartFails(c)
  BY <1>9 DEF StartFails, Return
<1>10. CASE StartTimesOut(c)
  BY <1>10 DEF StartTimesOut, Return
<1>11. CASE Started(c)
  BY <1>11 DEF Started, Return
<1> QED
  BY <1>1, <1>2, <1>3, <1>4, <1>5, <1>6, <1>7, <1>8, <1>9, <1>10, <1>11 DEF Start

\* How stop_local_service returns: the command forgets what it held, and goes on
\* only to start the service.
LEMMA StopReturnsLemma ==
    ASSUME TypeOK, NEW c \in Clis, StopReturns(c)
    PROVE  /\ cpc' \in [Clis -> CliPcs]
           /\ loaded' \in [Clis -> Sups \cup {NoSup}]
           /\ victim' \in [Clis -> Apps \cup {NoApp}]
           /\ target' \in [Clis -> Sups \cup {NoSup}]
           /\ again' \in [Clis -> BOOLEAN]
           /\ cpc'[c] \in {"idle", "startCheck"}
           /\ \A d \in Clis \ {c} :
                cpc'[d] = cpc[d] /\ target'[d] = target[d] /\ loaded'[d] = loaded[d]
<1>1. /\ loaded' = [loaded EXCEPT ![c] = NoSup]
      /\ victim' = [victim EXCEPT ![c] = NoApp]
      /\ target' = [target EXCEPT ![c] = NoSup]
      /\ again' = [again EXCEPT ![c] = FALSE]
  BY DEF StopReturns, Return
<1>2. PICK place \in {"idle", "startCheck"} : cpc' = [cpc EXCEPT ![c] = place]
  BY DEF StopReturns, Return
<1>3. {"idle", "startCheck"} \subseteq CliPcs
  BY DEF CliPcs, StartPcs
<1>4. cpc' \in [Clis -> CliPcs] /\ cpc'[c] \in {"idle", "startCheck"}
  BY <1>2, <1>3 DEF TypeOK
<1> QED
  BY <1>1, <1>2, <1>4 DEF TypeOK

\* A step of a stopping command keeps the types: what it writes back is a record,
\* because it has loaded one.
LEMMA StopType ==
    ASSUME TypeOK, Born, NEW c \in Clis, Stop(c)
    PROVE  TypeOK'
<1> USE DEF TypeOK, CliPcs, StartPcs, StopPcs, fileVars, supVars, appVars, cliVars
<1>1. CASE StopLoad(c)
  <2>1. CASE rec = NoRecord
    BY <1>1, <2>1, StopReturnsLemma DEF StopLoad
  <2>2. CASE rec # NoRecord
    BY <1>1, <2>2 DEF StopLoad, CliGoto, Record
  <2> QED
    BY <2>1, <2>2
<1>2. CASE StopAlive(c)
  BY <1>2 DEF StopAlive, CliGoto
<1>3. CASE StopOrphan(c)
  BY <1>3 DEF StopOrphan, CliGoto, Terminate, AppDies, AppStates
<1>4. CASE StopMarkOrphan(c)
  <2>1. rec' \in Record
    BY <1>4 DEF StopMarkOrphan, Stopped, Born, Stopping, Record, Statuses
  <2> QED
    BY <1>4, <2>1, StopReturnsLemma DEF StopMarkOrphan
<1>5. CASE StopWrite(c)
  BY <1>5 DEF StopWrite, CliGoto
<1>6. CASE StopSeesDeath(c)
  BY <1>6 DEF StopSeesDeath, CliGoto
<1>7. CASE StopTimesOut(c)
  BY <1>7 DEF StopTimesOut, CliGoto
<1>8. CASE StopForceApp(c)
  BY <1>8 DEF StopForceApp, CliGoto, Terminate, AppDies, AppStates
<1>9. CASE StopTermSup(c)
  <2>1. CASE SupDies(target[c]) /\ cpc' = [cpc EXCEPT ![c] = "stopKillSup"]
             /\ UNCHANGED <<fileVars, appVars, loaded, victim, target, again, unit>>
    BY <2>1 DEF SupDies, Blank, SupPcs, Statuses
  <2>2. CASE /\ stopFlag' = [stopFlag EXCEPT ![target[c]] = Alive(target[c]) \/ @]
             /\ cpc' = [cpc EXCEPT ![c] = "stopKillSup"]
             /\ UNCHANGED <<fileVars, spc, handle, state, appVars, loaded, victim, target, again,
                            unit>>
    BY <2>2 DEF Alive
  <2> QED
    BY <1>9, <2>1, <2>2 DEF StopTermSup, CliGoto
<1>10. CASE StopKillSup(c)
  BY <1>10 DEF StopKillSup, CliGoto, SupDies, Blank, SupPcs, Statuses
<1>11. CASE StopClear(c)
  BY <1>11 DEF StopClear, CliGoto
<1>12. CASE StopReload(c)
  BY <1>12 DEF StopReload, CliGoto, Record
<1>13. CASE StopMark(c)
  <2>1. rec' \in Record
    BY <1>13 DEF StopMark, Stopped, Born, Stopping, Record, Statuses
  <2> QED
    BY <1>13, <2>1, StopReturnsLemma DEF StopMark
<1> QED
  BY <1>1, <1>2, <1>3, <1>4, <1>5, <1>6, <1>7, <1>8, <1>9, <1>10, <1>11, <1>12, <1>13 DEF Stop

\* Every step keeps the types.
LEMMA NextType ==
    ASSUME TypeOK, Born, [Next]_vars
    PROVE  TypeOK'
<1> USE DEF TypeOK, fileVars, supVars, appVars, cliVars
<1>1. ASSUME NEW c \in Clis, BeginDeploy(c) PROVE TypeOK'
  BY <1>1 DEF BeginDeploy, CliGoto, CliPcs, StartPcs
<1>2. ASSUME NEW c \in Clis, BeginStop(c) PROVE TypeOK'
  BY <1>2 DEF BeginStop, CliGoto, CliPcs, StopPcs
<1>3. ASSUME NEW c \in Clis, Start(c) PROVE TypeOK'
  BY <1>3, StartType
<1>4. ASSUME NEW c \in Clis, Stop(c) PROVE TypeOK'
  BY <1>4, StopType
<1>5. ASSUME NEW c \in Clis, CliCrash(c) PROVE TypeOK'
  BY <1>5 DEF CliCrash, Return, CliPcs
<1>6. ASSUME NEW s \in Sups, Supervise(s) PROVE TypeOK'
  BY <1>6, SuperviseType
<1>7. ASSUME NEW s \in Sups, LoginLaunch(s) PROVE TypeOK'
  BY <1>7 DEF LoginLaunch, SupPcs
<1>8. ASSUME NEW s \in Sups, SupCrash(s) PROVE TypeOK'
  BY <1>8 DEF SupCrash, SupDies, Blank, SupPcs, Statuses
<1>9. ASSUME NEW a \in Apps, Listen(a) PROVE TypeOK'
  BY <1>9 DEF Listen
<1>10. ASSUME NEW a \in Apps, AppExit(a) PROVE TypeOK'
  BY <1>10 DEF AppExit, AppDies, AppStates
<1>11. CASE Reboot
  BY <1>11 DEF Reboot, Blank, SupPcs, CliPcs, AppStates, Statuses
<1>12. CASE UNCHANGED vars
  BY <1>12 DEF vars
<1>13. CASE StrangerListens \/ StrangerLeaves
  BY <1>13 DEF StrangerListens, StrangerLeaves
<1> QED
  BY <1>1, <1>2, <1>3, <1>4, <1>5, <1>6, <1>7, <1>8, <1>9, <1>10, <1>11, <1>12, <1>13 DEF Next

\* A supervisor's step writes at most its own identity to runtime.json, and moves
\* only its own program counter, which it neither resets nor revives.
LEMMA SuperviseFrame ==
    ASSUME TypeOK, NEW s \in Sups, Supervise(s)
    PROVE  /\ UNCHANGED cliVars
           /\ spc[s] \notin {"unborn", "dead"}
           /\ spc'[s] # "unborn"
           /\ \A t \in Sups \ {s} : spc'[t] = spc[t]
           /\ rec' # rec => rec' # NoRecord /\ rec'.sup = s
<1> USE DEF TypeOK, Supervise, SupGoto, SupPcs, fileVars, supVars, cliVars, vars
<1>1. UNCHANGED cliVars
  BY DEF SupClear, SupBase, SupHandlers, SupSpawn, SupSpawnFails, SupRecord, SupReadControl, SupPollUp, SupPollExited, SupRestart, SupGiveUp, SupProbe, SupSaveHealth, SupFail, SupTerminate, SupCleanup, SupFinal, SupExit
<1>2. ASSUME NEW next \in {"handlers", "spawn", "loop", "decide", "term", "exit"},
             NEW onError \in {"dead", "failing", "term", "exit"},
             spc[s] \notin {"unborn", "dead"},
             state' \in [Sups -> [app : Apps \cup {NoApp}, status : Statuses]],
             Save(s, next, onError)
      PROVE  /\ spc[s] \notin {"unborn", "dead"}
             /\ spc'[s] # "unborn"
             /\ \A t \in Sups \ {s} : spc'[t] = spc[t]
             /\ rec' # rec => rec' # NoRecord /\ rec'.sup = s
  <2>1. [sup |-> s, app |-> state'[s].app, status |-> state'[s].status] \in Record
    BY <1>2 DEF Record
  <2> QED
    BY <1>2, <2>1, NullsAreDistinct DEF Save
<1>3. state' \in [Sups -> [app : Apps \cup {NoApp}, status : Statuses]]
  BY SuperviseType
<1>4. CASE \/ SupBase(s) \/ SupRecord(s) \/ SupPollExited(s) \/ SupRestart(s)
           \/ SupSaveHealth(s) \/ SupFail(s) \/ SupFinal(s)
  BY <1>1, <1>2, <1>3, <1>4
     DEF SupBase, SupRecord, SupPollExited, SupRestart, SupSaveHealth, SupFail, SupFinal
<1>5. CASE \/ SupClear(s) \/ SupHandlers(s) \/ SupSpawn(s) \/ SupSpawnFails(s)
           \/ SupReadControl(s) \/ SupPollUp(s) \/ SupGiveUp(s) \/ SupProbe(s) \/ SupTerminate(s)
           \/ SupCleanup(s) \/ SupExit(s)
  BY <1>1, <1>5
     DEF SupClear, SupHandlers, SupSpawn, SupSpawnFails, SupReadControl, SupPollUp, SupGiveUp,
         SupProbe, SupTerminate, SupCleanup, SupExit, SupDies
<1> QED
  BY <1>4, <1>5

\* A step that keeps what commands know, moves no supervisor back, and records at
\* most a supervisor that has been launched, preserves Born.
LEMMA BornFrame ==
    ASSUME TypeOK, Born, UNCHANGED cliVars,
           \A s \in Sups : spc[s] # "unborn" => spc'[s] # "unborn",
           \A s \in Sups : spc[s] = "dead" => spc'[s] = "dead",
           rec' # rec /\ rec' # NoRecord => spc'[rec'.sup] # "unborn"
    PROVE  Born'
<1>1. rec' # NoRecord => spc'[rec'.sup] # "unborn"
  <2>1. CASE rec' = rec
    BY <2>1, NullsAreDistinct DEF Born, TypeOK, Record
  <2> QED
    BY <2>1
<1>2. \A c \in Clis : cpc'[c] \in Stopping =>
        /\ target'[c] \in Sups /\ spc'[target'[c]] # "unborn"
        /\ loaded'[c] \in Sups /\ spc'[loaded'[c]] # "unborn"
  BY DEF Born, cliVars
<1>3. \A c \in Clis : cpc'[c] \in Ended => spc'[target'[c]] = "dead"
  BY DEF Born, cliVars, Ended, Stopping, StopPcs
<1> QED
  BY <1>1, <1>2, <1>3 DEF Born

\* A step of a starting command preserves Born: it leaves the record alone, and no
\* starting command is in Stopping.
LEMMA StartBorn ==
    ASSUME TypeOK, Born, NEW c \in Clis, Start(c)
    PROVE  Born'
<1> USE DEF TypeOK, Born, Stopping, Ended, StopPcs, fileVars, supVars, cliVars
<1>1. CASE DeployCheck(c)
  BY <1>1 DEF DeployCheck, CliGoto, Return
<1>2. CASE DeployPort(c)
  BY <1>2 DEF DeployPort, CliGoto, Return
<1>3. CASE StartCheck(c)
  BY <1>3 DEF StartCheck, CliGoto, Return
<1>4. CASE StartPrev(c)
  BY <1>4 DEF StartPrev, CliGoto
<1>5. CASE StartClear(c)
  BY <1>5 DEF StartClear, CliGoto
<1>6. CASE StartPopen(c)
  BY <1>6 DEF StartPopen, CliGoto
<1>7. CASE StartPopenFails(c)
  BY <1>7 DEF StartPopenFails, Return
<1>8. CASE StartSucceeds(c)
  BY <1>8 DEF StartSucceeds, CliGoto
<1>9. CASE StartFails(c)
  BY <1>9 DEF StartFails, Return
<1>10. CASE StartTimesOut(c)
  BY <1>10 DEF StartTimesOut, Return
<1>11. CASE Started(c)
  BY <1>11 DEF Started, Return
<1> QED
  BY <1>1, <1>2, <1>3, <1>4, <1>5, <1>6, <1>7, <1>8, <1>9, <1>10, <1>11 DEF Start

\* A step of a stopping command preserves Born: it goes on to Ended only by one of
\* the two checks that its target is dead, or by killing it.
LEMMA StopBorn ==
    ASSUME TypeOK, Born, NEW c \in Clis, Stop(c)
    PROVE  Born'
<1> USE NullsAreDistinct
    DEF TypeOK, Born, Stopping, Ended, StopPcs, fileVars, supVars, cliVars
<1>1. CASE StopLoad(c)
  <2>1. CASE rec = NoRecord
    <3>1. StopReturns(c) /\ rec' = rec /\ spc' = spc
      BY <1>1, <2>1 DEF StopLoad
    <3>2. cpc'[c] \notin Stopping
      BY <3>1, StopReturnsLemma
    <3>3. \A d \in Clis \ {c} :
            cpc'[d] = cpc[d] /\ target'[d] = target[d] /\ loaded'[d] = loaded[d]
      BY <3>1, StopReturnsLemma
    <3> QED
      BY <3>1, <3>2, <3>3
  <2>2. CASE rec # NoRecord
    BY <1>1, <2>2 DEF StopLoad, CliGoto, Record
  <2> QED
    BY <2>1, <2>2
<1>2. CASE StopAlive(c)
  BY <1>2 DEF StopAlive, CliGoto, Alive
<1>3. CASE StopOrphan(c)
  BY <1>3 DEF StopOrphan, CliGoto
<1>4. CASE StopMarkOrphan(c)
  <2>1. rec'.sup = loaded[c] /\ spc' = spc /\ cpc'[c] \notin Stopping
    BY <1>4 DEF StopMarkOrphan, StopReturns, Return, Stopped
  <2>2. \A d \in Clis \ {c} :
          cpc'[d] = cpc[d] /\ target'[d] = target[d] /\ loaded'[d] = loaded[d]
    BY <1>4 DEF StopMarkOrphan, StopReturns, Return
  <2>3. spc[loaded[c]] # "unborn"
    BY <1>4 DEF StopMarkOrphan
  <2>4. rec' # NoRecord => spc'[rec'.sup] # "unborn"
    BY <2>1, <2>3
  <2> QED
    BY <2>1, <2>2, <2>4
<1>5. CASE StopWrite(c)
  BY <1>5 DEF StopWrite, CliGoto
<1>6. CASE StopSeesDeath(c)
  BY <1>6 DEF StopSeesDeath, CliGoto, Alive
<1>7. CASE StopTimesOut(c)
  BY <1>7 DEF StopTimesOut, CliGoto
<1>8. CASE StopForceApp(c)
  BY <1>8 DEF StopForceApp, CliGoto
<1>9. CASE StopTermSup(c)
  BY <1>9 DEF StopTermSup, CliGoto, SupDies, Record
<1>10. CASE StopKillSup(c)
  BY <1>10 DEF StopKillSup, CliGoto, SupDies, Record
<1>11. CASE StopClear(c)
  BY <1>11 DEF StopClear, CliGoto
<1>12. CASE StopReload(c)
  BY <1>12 DEF StopReload, CliGoto, Record
<1>13. CASE StopMark(c)
  <2>1. rec'.sup = loaded[c] /\ spc' = spc /\ cpc'[c] \notin Stopping
    BY <1>13 DEF StopMark, StopReturns, Return, Stopped
  <2>2. \A d \in Clis \ {c} :
          cpc'[d] = cpc[d] /\ target'[d] = target[d] /\ loaded'[d] = loaded[d]
    BY <1>13 DEF StopMark, StopReturns, Return
  <2>3. spc[loaded[c]] # "unborn"
    BY <1>13 DEF StopMark
  <2>4. rec' # NoRecord => spc'[rec'.sup] # "unborn"
    BY <2>1, <2>3
  <2> QED
    BY <2>1, <2>2, <2>4
<1> QED
  BY <1>1, <1>2, <1>3, <1>4, <1>5, <1>6, <1>7, <1>8, <1>9, <1>10, <1>11, <1>12, <1>13 DEF Stop

\* Every step preserves Born.
LEMMA NextBorn ==
    ASSUME TypeOK, Born, [Next]_vars
    PROVE  Born'
<1>1. ASSUME NEW c \in Clis, BeginDeploy(c) PROVE Born'
  BY <1>1 DEF BeginDeploy, CliGoto, TypeOK, Born, Stopping, Ended, StopPcs, fileVars, supVars
<1>2. ASSUME NEW c \in Clis, BeginStop(c) PROVE Born'
  BY <1>2 DEF BeginStop, CliGoto, TypeOK, Born, Stopping, Ended, StopPcs, fileVars, supVars
<1>3. ASSUME NEW c \in Clis, Start(c) PROVE Born'
  BY <1>3, StartBorn
<1>4. ASSUME NEW c \in Clis, Stop(c) PROVE Born'
  BY <1>4, StopBorn
<1>5. ASSUME NEW c \in Clis, CliCrash(c) PROVE Born'
  BY <1>5 DEF CliCrash, Return, TypeOK, Born, Stopping, Ended, StopPcs, fileVars, supVars
<1>6. ASSUME NEW s \in Sups, Supervise(s) PROVE Born'
  BY <1>6, SuperviseFrame, BornFrame
<1>7. ASSUME NEW s \in Sups, LoginLaunch(s) PROVE Born'
  BY <1>7, BornFrame DEF LoginLaunch, TypeOK, fileVars
<1>8. ASSUME NEW s \in Sups, SupCrash(s) PROVE Born'
  BY <1>8, BornFrame DEF SupCrash, SupDies, TypeOK, fileVars
<1>9. ASSUME NEW a \in Apps, Listen(a) PROVE Born'
  BY <1>9, BornFrame DEF Listen, fileVars, supVars
<1>10. ASSUME NEW a \in Apps, AppExit(a) PROVE Born'
  BY <1>10, BornFrame DEF AppExit, fileVars, supVars
<1>11. CASE Reboot
  <2>1. rec' # NoRecord => spc'[rec'.sup] # "unborn"
    BY <1>11, NullsAreDistinct DEF Reboot, Born, TypeOK, Record, fileVars
  <2> QED
    BY <1>11, <2>1 DEF Reboot, Born, Stopping, Ended, StopPcs
<1>12. CASE UNCHANGED vars
  BY <1>12, BornFrame DEF vars, cliVars
<1>13. CASE StrangerListens \/ StrangerLeaves
  BY <1>13, BornFrame DEF StrangerListens, StrangerLeaves, fileVars, supVars
<1> QED
  BY <1>1, <1>2, <1>3, <1>4, <1>5, <1>6, <1>7, <1>8, <1>9, <1>10, <1>11, <1>12, <1>13 DEF Next

\* Every reachable state has the shape the code gives it, and every identity on file
\* or in a command's memory is that of a process that was launched.
THEOREM Typing == Spec => [](TypeOK /\ Born)
<1>1. Init => TypeOK /\ Born
  BY InitInv
<1>2. TypeOK /\ Born /\ [Next]_vars => (TypeOK /\ Born)'
  BY NextType, NextBorn
<1> QED
  BY <1>1, <1>2, PTL DEF Spec

\* When stop_local_service reports "stopped", the supervisor it set out to stop is
\* dead, whatever else was running, crashing or rebooting meanwhile.
THEOREM StopIsFinal == Spec => []StopEndsItsTarget
<1>1. TypeOK /\ Born => StopEndsItsTarget
  BY DEF Born, StopEndsItsTarget, Ended, Alive
<1> QED
  BY <1>1, Typing, PTL

-----------------------------------------------------------------------------
(* Who owns which app *)

\* Whoever remembers an app next to a supervisor - the supervisor's own state, the
\* record, a stopping command - remembers one that this supervisor spawned.
Owned ==
    /\ \A a \in Apps : ast[a] = "unborn" <=> owner[a] = NoSup
    /\ \A s \in Sups : state[s].app # NoApp => owner[state[s].app] = s
    /\ RecordPairsOwnApp
    /\ \A c \in Clis : cpc[c] \in Stopping /\ victim[c] # NoApp
                         => owner[victim[c]] = target[c]

\* Before the first command nobody owns or remembers an app.
LEMMA InitOwned == Init => Owned
  BY DEF Init, Owned, Blank, RecordPairsOwnApp, Stopping, StopPcs

\* A step that spawns no app, after which the remembering supervisors and commands
\* have forgotten or kept theirs, and the record was kept or has lost its app,
\* preserves Owned.
LEMMA OwnedFrame ==
    ASSUME TypeOK, Born, Owned,
           UNCHANGED owner,
           \A a \in Apps : ast'[a] = "unborn" <=> ast[a] = "unborn",
           \A s \in Sups : state'[s].app \in {NoApp, state[s].app},
           \/ rec' = rec
           \/ rec' # NoRecord => rec'.app = NoApp,
           \A c \in Clis : cpc'[c] \in Stopping /\ victim'[c] # NoApp =>
               /\ cpc[c] \in Stopping
               /\ victim'[c] = victim[c] /\ target'[c] = target[c]
    PROVE  Owned'
<1>1. \A a \in Apps : ast'[a] = "unborn" <=> owner'[a] = NoSup
  BY DEF Owned
<1>2. \A s \in Sups : state'[s].app # NoApp => owner'[state'[s].app] = s
  BY NullsAreDistinct DEF Owned, TypeOK
<1>3. RecordPairsOwnApp'
  BY NullsAreDistinct DEF Owned, TypeOK, RecordPairsOwnApp, Record
<1>4. \A c \in Clis : cpc'[c] \in Stopping /\ victim'[c] # NoApp
                        => owner'[victim'[c]] = target'[c]
  BY NullsAreDistinct DEF Owned, TypeOK, Born
<1> QED
  BY <1>1, <1>2, <1>3, <1>4 DEF Owned

\* A supervisor's step: a new app is its own, and what it records is its own state.
LEMMA SuperviseOwned ==
    ASSUME TypeOK, Born, Owned, NEW s \in Sups, Supervise(s)
    PROVE  Owned'
<1> USE NullsAreDistinct DEF fileVars, supVars, appVars, cliVars
<1>1. CASE SupSpawn(s)
  <2> PICK a \in Apps :
        /\ ast[a] = "unborn"
        /\ ast' = [ast EXCEPT ![a] = "up"]
        /\ owner' = [owner EXCEPT ![a] = s]
        /\ state' = [state EXCEPT ![s] = [app |-> a, status |-> "starting"]]
    BY <1>1 DEF SupSpawn
  <2>1. \A b \in Apps : owner[b] # NoSup => owner'[b] = owner[b]
    BY DEF Owned, TypeOK
  <2>2. UNCHANGED <<rec, cpc, victim, target>>
    BY <1>1 DEF SupSpawn
  <2>3. \A b \in Apps : ast'[b] = "unborn" <=> owner'[b] = NoSup
    BY DEF Owned, TypeOK
  <2>4. \A t \in Sups : state'[t].app # NoApp => owner'[state'[t].app] = t
    <3> TAKE t \in Sups
    <3>1. CASE t = s
      BY <3>1 DEF TypeOK
    <3>2. CASE t # s
      BY <3>2, <2>1 DEF TypeOK, Owned
    <3> QED
      BY <3>1, <3>2
  <2>5. RecordPairsOwnApp'
    BY <2>1, <2>2 DEF Owned, RecordPairsOwnApp, TypeOK, Record
  <2>6. \A c \in Clis : cpc'[c] \in Stopping /\ victim'[c] # NoApp
                          => owner'[victim'[c]] = target'[c]
    BY <2>1, <2>2 DEF Owned, TypeOK, Born
  <2> QED
    BY <2>3, <2>4, <2>5, <2>6 DEF Owned
<1>2. ASSUME NEW next, NEW onError, Save(s, next, onError),
             UNCHANGED <<ast, owner, cpc, victim, target>>,
             state' \in [Sups -> [app : Apps \cup {NoApp}, status : Statuses]],
             \A t \in Sups : state'[t].app \in {NoApp, state[t].app}
      PROVE  Owned'
  <2>1. \A t \in Sups : state'[t].app # NoApp => owner'[state'[t].app] = t
    BY <1>2 DEF Owned, TypeOK
  <2>2. RecordPairsOwnApp'
    <3>1. CASE rec' = rec
      BY <1>2, <3>1 DEF Owned, RecordPairsOwnApp
    <3>2. CASE rec' = [sup |-> s, app |-> state'[s].app, status |-> state'[s].status]
      BY <3>2, <2>1 DEF RecordPairsOwnApp
    <3> QED
      BY <1>2, <3>1, <3>2 DEF Save
  <2> QED
    BY <1>2, <2>1, <2>2 DEF Owned
<1>3. state' \in [Sups -> [app : Apps \cup {NoApp}, status : Statuses]]
  BY SuperviseType DEF TypeOK
<1>4. CASE SupBase(s)
  BY <1>2, <1>3, <1>4 DEF SupBase
<1>5. CASE SupRecord(s)
  BY <1>2, <1>3, <1>5 DEF SupRecord
<1>6. CASE SupPollExited(s)
  BY <1>2, <1>3, <1>6 DEF SupPollExited, TypeOK
<1>7. CASE SupRestart(s)
  BY <1>2, <1>3, <1>7 DEF SupRestart, TypeOK
<1>8. CASE SupSaveHealth(s)
  BY <1>2, <1>3, <1>8 DEF SupSaveHealth
<1>9. CASE SupFail(s)
  BY <1>2, <1>3, <1>9 DEF SupFail, TypeOK
<1>10. CASE SupFinal(s)
  BY <1>2, <1>3, <1>10 DEF SupFinal, TypeOK
<1>11. CASE \/ SupClear(s) \/ SupHandlers(s) \/ SupSpawnFails(s) \/ SupReadControl(s) \/ SupPollUp(s)
            \/ SupGiveUp(s) \/ SupProbe(s) \/ SupCleanup(s) \/ SupExit(s)
  <2>1. /\ UNCHANGED <<rec, appVars, cliVars>>
        /\ \A t \in Sups : state'[t].app \in {NoApp, state[t].app}
    BY <1>11 DEF SupClear, SupHandlers, SupSpawnFails, SupReadControl, SupPollUp, SupGiveUp, SupProbe,
                 SupCleanup, SupExit, SupDies, Blank, TypeOK
  <2> QED
    BY <2>1, OwnedFrame
<1>12. CASE SupTerminate(s)
  <2>1. /\ UNCHANGED <<rec, owner, state, cliVars>>
        /\ \A a \in Apps : ast'[a] = "unborn" <=> ast[a] = "unborn"
    BY <1>12 DEF SupTerminate, Terminate, AppDies, TypeOK
  <2> QED
    BY <2>1, OwnedFrame
<1> QED
  BY <1>1, <1>4, <1>5, <1>6, <1>7, <1>8, <1>9, <1>10, <1>11, <1>12 DEF Supervise

\* A step of a starting command remembers no app.
LEMMA StartOwned ==
    ASSUME TypeOK, Born, Owned, NEW c \in Clis, Start(c)
    PROVE  Owned'
<1>1. UNCHANGED <<rec, state, ast, owner>>
  BY DEF Start, DeployCheck, DeployPort, StartCheck, StartPrev, StartClear, StartPopen,
         StartPopenFails, StartSucceeds, StartFails, StartTimesOut, Started,
         fileVars, supVars, appVars
<1>2. cpc'[c] \notin Stopping /\ \A d \in Clis \ {c} :
        UNCHANGED <<cpc[d], victim[d], target[d]>>
  BY DEF Start, DeployCheck, DeployPort, StartCheck, StartPrev, StartClear, StartPopen,
         StartPopenFails, StartSucceeds, StartFails, StartTimesOut, Started, CliGoto, Return,
         IsRunning, Alive, TypeOK, Stopping, StopPcs
<1> QED
  BY <1>1, <1>2, OwnedFrame

\* A step of a stopping command: it remembers the pair on record, and writes back a
\* record without an app.
LEMMA StopOwned ==
    ASSUME TypeOK, Born, Owned, NEW c \in Clis, Stop(c)
    PROVE  Owned'
<1> USE DEF TypeOK, fileVars, supVars, appVars, cliVars
<1>1. CASE StopLoad(c)
  <2>1. UNCHANGED <<rec, state, ast, owner>>
    BY <1>1 DEF StopLoad
  <2>2. CASE rec = NoRecord
    BY <1>1, <2>1, <2>2, OwnedFrame
       DEF StopLoad, StopReturns, Return, Stopping, StopPcs
  <2>3. CASE rec # NoRecord
    <3>1. victim'[c] = rec.app /\ target'[c] = rec.sup
      BY <1>1, <2>3 DEF StopLoad
    <3>2. \A d \in Clis \ {c} : UNCHANGED <<cpc[d], victim[d], target[d]>>
      BY <1>1, <2>3 DEF StopLoad, CliGoto
    <3> QED
      BY <2>1, <2>3, <3>1, <3>2 DEF Owned, RecordPairsOwnApp
  <2> QED
    BY <2>2, <2>3
<1>2. CASE StopMarkOrphan(c) \/ StopMark(c)
  <2>1. UNCHANGED <<state, ast, owner>> /\ rec'.app = NoApp
    BY <1>2 DEF StopMarkOrphan, StopMark, Stopped
  <2>2. cpc'[c] \notin Stopping /\ \A d \in Clis \ {c} :
          UNCHANGED <<cpc[d], victim[d], target[d]>>
    BY <1>2 DEF StopMarkOrphan, StopMark, StopReturns, Return, Stopping, StopPcs
  <2> QED
    BY <2>1, <2>2, OwnedFrame
<1>3. CASE StopOrphan(c) \/ StopForceApp(c)
  <2>1. UNCHANGED <<rec, state, owner>> /\ \A a \in Apps : ast'[a] = "unborn" <=> ast[a] = "unborn"
    BY <1>3 DEF StopOrphan, StopForceApp, Terminate, AppDies
  <2>2. UNCHANGED <<victim, target>> /\ cpc[c] \in Stopping
        /\ \A d \in Clis \ {c} : cpc'[d] = cpc[d]
    BY <1>3 DEF StopOrphan, StopForceApp, CliGoto, Stopping, StopPcs
  <2> QED
    BY <2>1, <2>2, OwnedFrame
<1>4. CASE \/ StopAlive(c) \/ StopWrite(c) \/ StopSeesDeath(c) \/ StopTimesOut(c)
           \/ StopTermSup(c) \/ StopKillSup(c) \/ StopClear(c) \/ StopReload(c)
  <2>1. /\ UNCHANGED <<rec, ast, owner>>
        /\ \A s \in Sups : state'[s].app \in {NoApp, state[s].app}
    BY <1>4 DEF StopAlive, StopWrite, StopSeesDeath, StopTimesOut, StopTermSup, StopKillSup,
                StopClear, StopReload, SupDies, Blank
  <2>2. UNCHANGED <<victim, target>> /\ cpc[c] \in Stopping
        /\ \A d \in Clis \ {c} : cpc'[d] = cpc[d]
    BY <1>4 DEF StopAlive, StopWrite, StopSeesDeath, StopTimesOut, StopTermSup, StopKillSup,
                StopClear, StopReload, CliGoto, Stopping, StopPcs
  <2> QED
    BY <2>1, <2>2, OwnedFrame
<1> QED
  BY <1>1, <1>2, <1>3, <1>4 DEF Stop

\* Every step preserves Owned.
LEMMA NextOwned ==
    ASSUME TypeOK, Born, Owned, [Next]_vars
    PROVE  Owned'
<1> USE DEF TypeOK, fileVars, supVars, appVars, cliVars
<1>1. ASSUME NEW c \in Clis, BeginDeploy(c) \/ BeginStop(c) PROVE Owned'
  <2>1. UNCHANGED <<rec, state, ast, owner, victim, target>>
        /\ cpc'[c] \notin Stopping /\ \A d \in Clis \ {c} : cpc'[d] = cpc[d]
    BY <1>1 DEF BeginDeploy, BeginStop, CliGoto, Stopping, StopPcs
  <2> QED
    BY <2>1, OwnedFrame
<1>2. ASSUME NEW c \in Clis, Start(c) PROVE Owned'
  BY <1>2, StartOwned
<1>3. ASSUME NEW c \in Clis, Stop(c) PROVE Owned'
  BY <1>3, StopOwned
<1>4. ASSUME NEW c \in Clis, CliCrash(c) PROVE Owned'
  <2>1. UNCHANGED <<rec, state, ast, owner>>
        /\ cpc'[c] \notin Stopping /\ \A d \in Clis \ {c} :
             UNCHANGED <<cpc[d], victim[d], target[d]>>
    BY <1>4 DEF CliCrash, Return, Stopping, StopPcs
  <2> QED
    BY <2>1, OwnedFrame
<1>5. ASSUME NEW s \in Sups, Supervise(s) PROVE Owned'
  BY <1>5, SuperviseOwned
<1>6. ASSUME NEW s \in Sups, LoginLaunch(s) PROVE Owned'
  BY <1>6, OwnedFrame DEF LoginLaunch
<1>7. ASSUME NEW s \in Sups, SupCrash(s) PROVE Owned'
  BY <1>7, OwnedFrame DEF SupCrash, SupDies, Blank
<1>8. ASSUME NEW a \in Apps, Listen(a) PROVE Owned'
  BY <1>8, OwnedFrame DEF Listen
<1>9. ASSUME NEW a \in Apps, AppExit(a) PROVE Owned'
  BY <1>9, OwnedFrame DEF AppExit, AppDies
<1>10. CASE Reboot
  BY <1>10, OwnedFrame DEF Reboot, Blank, Stopping, StopPcs
<1>11. CASE UNCHANGED vars
  BY <1>11, OwnedFrame DEF vars
<1>12. CASE StrangerListens \/ StrangerLeaves
  BY <1>12, OwnedFrame DEF StrangerListens, StrangerLeaves
<1> QED
  BY <1>1, <1>2, <1>3, <1>4, <1>5, <1>6, <1>7, <1>8, <1>9, <1>10, <1>11, <1>12 DEF Next

\* In every reachable state the pair of identities that a record, a command or a
\* supervisor holds names an app and the supervisor that spawned it.
THEOREM Ownership == Spec => [](TypeOK /\ Born /\ Owned)
<1>1. Init => TypeOK /\ Born /\ Owned
  BY InitInv, InitOwned
<1>2. TypeOK /\ Born /\ Owned /\ [Next]_vars => (TypeOK /\ Born /\ Owned)'
  BY NextType, NextBorn, NextOwned
<1> QED
  BY <1>1, <1>2, PTL DEF Spec

\* runtime.json never pairs one supervisor with another one's app.
THEOREM RecordIsConsistent == Spec => []RecordPairsOwnApp
  BY Ownership, PTL DEF Owned

\* A stop terminates no app but its own target's.
THEOREM StopKillsOwnAppOnly == Spec => []StopKillsOnlyItsOwn
<1>1. Owned => StopKillsOnlyItsOwn
  BY DEF Owned, StopKillsOnlyItsOwn, Stopping, StopPcs
<1> QED
  BY <1>1, Ownership, PTL

-----------------------------------------------------------------------------
(* How many apps a supervisor runs *)

\* App a is up and was spawned by s.
Runs(s, a) == ast[a] = "up" /\ owner[a] = s

\* What a supervisor runs, by the place it is at: nothing before it spawns, then the
\* app it has just spawned, then app_process, and at no time two.  As long as no save
\* raises, the app it terminates in the end is the one it runs.
RunsAt(s) ==
    /\ spc[s] \in {"unborn", "clear", "base", "handlers", "spawn", "decide"} =>
         \A a \in Apps : ~Runs(s, a)
    /\ spc[s] = "record" => \A a \in Apps : Runs(s, a) => a = state[s].app
    /\ spc[s] \in {"loop", "poll", "probe", "save"} => \A a \in Apps : Runs(s, a) => a = handle[s]
    /\ \A a, b \in Apps : Runs(s, a) /\ Runs(s, b) => a = b
    /\ ~SaveErrors =>
        /\ spc[s] \in {"failing", "term"} => \A a \in Apps : Runs(s, a) => a = handle[s]
        /\ spc[s] \in {"cleanup", "final", "exit"} => \A a \in Apps : ~Runs(s, a)

Running == \A s \in Sups : RunsAt(s)

\* Before the first command no supervisor runs an app.
LEMMA InitRunning == Init => Running
  BY NullsAreDistinct DEF Init, Running, RunsAt, Runs

\* A supervisor that does not move itself runs at most what it ran before, when
\* nobody spawns; if it was launched or killed, it keeps RunsAt too.
LEMMA RunsFrame ==
    ASSUME TypeOK, NEW s \in Sups, RunsAt(s),
           \A a \in Apps : Runs(s, a)' => Runs(s, a),
           \/ spc'[s] = spc[s] /\ state'[s] = state[s] /\ handle'[s] = handle[s]
           \/ spc[s] = "unborn" /\ spc'[s] = "clear"
           \/ spc'[s] = "dead"
    PROVE  RunsAt(s)'
<1> SUFFICES ASSUME spc'[s] = spc[s] /\ state'[s] = state[s] /\ handle'[s] = handle[s]
             PROVE  RunsAt(s)'
  BY DEF RunsAt
<1> QED
  BY DEF RunsAt

\* A supervisor's own step.
LEMMA SuperviseRunsAt ==
    ASSUME TypeOK, Owned, NEW s \in Sups, RunsAt(s), Supervise(s)
    PROVE  RunsAt(s)'
<1> USE SwitchesAreBoolean DEF TypeOK, RunsAt, Runs, Save, SupGoto, appVars, supVars
<1>1. CASE SupClear(s)
  BY <1>1 DEF SupClear
<1>2. CASE SupBase(s)
  BY <1>2 DEF SupBase
<1>3. CASE SupSpawn(s)
  BY <1>3 DEF SupSpawn
<1>4. CASE SupSpawnFails(s)
  BY <1>4 DEF SupSpawnFails
<1>5. CASE SupRecord(s)
  BY <1>5 DEF SupRecord
<1>6. CASE SupReadControl(s)
  BY <1>6 DEF SupReadControl
<1>7. CASE SupPollUp(s)
  BY <1>7 DEF SupPollUp
<1>8. CASE SupPollExited(s)
  BY <1>8 DEF SupPollExited
<1>9. CASE SupRestart(s)
  BY <1>9 DEF SupRestart
<1>10. CASE SupGiveUp(s)
  BY <1>10 DEF SupGiveUp
<1>11. CASE SupProbe(s)
  BY <1>11 DEF SupProbe
<1>12. CASE SupSaveHealth(s)
  BY <1>12 DEF SupSaveHealth
<1>13. CASE SupFail(s)
  BY <1>13 DEF SupFail
<1>14. CASE SupTerminate(s)
  <2>1. spc[s] = "term" /\ spc'[s] = "cleanup" /\ owner' = owner
    BY <1>14 DEF SupTerminate, Terminate, AppDies
  <2>2. \A a \in Apps : Runs(s, a)' => Runs(s, a) /\ a # handle[s]
    BY <1>14, NullsAreDistinct DEF SupTerminate, Terminate, AppDies
  <2> QED
    BY <2>1, <2>2
<1>15. CASE SupCleanup(s)
  BY <1>15 DEF SupCleanup
<1>16. CASE SupFinal(s)
  BY <1>16 DEF SupFinal
<1>17. CASE SupExit(s)
  BY <1>17 DEF SupExit, SupDies
<1>18. CASE SupHandlers(s)
  BY <1>18 DEF SupHandlers
<1> QED
  BY <1>1, <1>2, <1>3, <1>4, <1>5, <1>6, <1>7, <1>8, <1>9, <1>10, <1>11, <1>12,
     <1>13, <1>14, <1>15, <1>16, <1>17, <1>18 DEF Supervise

\* A supervisor's step, seen from another supervisor.
LEMMA SuperviseOther ==
    ASSUME TypeOK, Owned, NEW s \in Sups, NEW t \in Sups \ {s}, Supervise(s), RunsAt(t)
    PROVE  RunsAt(t)'
<1>1. spc'[t] = spc[t]
  BY SuperviseFrame
<1>2. state'[t] = state[t] /\ handle'[t] = handle[t]
  BY DEF Supervise, SupClear, SupBase, SupHandlers, SupSpawn, SupSpawnFails, SupRecord, SupReadControl,
         SupPollUp, SupPollExited, SupRestart, SupGiveUp, SupProbe, SupSaveHealth, SupFail,
         SupTerminate, SupCleanup, SupFinal, SupExit, SupDies, supVars, TypeOK
<1>3. \A a \in Apps : Runs(t, a)' => Runs(t, a)
  BY DEF Supervise, SupClear, SupBase, SupHandlers, SupSpawn, SupSpawnFails, SupRecord, SupReadControl,
         SupPollUp, SupPollExited, SupRestart, SupGiveUp, SupProbe, SupSaveHealth, SupFail,
         SupTerminate, SupCleanup, SupFinal, SupExit, Terminate, AppDies, appVars, TypeOK, Runs
<1> QED
  BY <1>1, <1>2, <1>3, RunsFrame

\* Every step preserves Running.
LEMMA NextRunning ==
    ASSUME TypeOK, Born, Owned, Running, [Next]_vars
    PROVE  Running'
<1> SUFFICES ASSUME NEW t \in Sups, RunsAt(t)
             PROVE  RunsAt(t)'
  BY DEF Running
<1> USE DEF TypeOK, supVars, appVars
<1>1. ASSUME UNCHANGED supVars, UNCHANGED owner,
             \A a \in Apps : ast'[a] = "up" => ast[a] = "up"
      PROVE  RunsAt(t)'
  BY <1>1, RunsFrame DEF Runs
<1>2. ASSUME NEW s \in Sups, SupDies(s), UNCHANGED appVars
      PROVE  RunsAt(t)'
  BY <1>2, RunsFrame DEF Runs, SupDies
<1>3. ASSUME NEW c \in Clis, BeginDeploy(c) \/ BeginStop(c) \/ CliCrash(c)
      PROVE  RunsAt(t)'
  BY <1>1, <1>3 DEF BeginDeploy, BeginStop, CliCrash
<1>4. ASSUME NEW c \in Clis, Start(c)
      PROVE  RunsAt(t)'
  <2>1. CASE StartPopen(c)
    BY <2>1, RunsFrame DEF StartPopen, Runs
  <2>2. CASE ~StartPopen(c)
    BY <1>1, <1>4, <2>2
       DEF Start, DeployCheck, DeployPort, StartCheck, StartPrev, StartClear,
           StartPopenFails, StartSucceeds, StartFails, StartTimesOut, Started
  <2> QED
    BY <2>1, <2>2
<1>5. ASSUME NEW c \in Clis, Stop(c)
      PROVE  RunsAt(t)'
  <2>1. CASE StopKillSup(c)
    BY <1>2, <2>1 DEF StopKillSup, Born, Stopping, StopPcs, CliGoto
  <2>2. CASE StopTermSup(c)
    <3>1. CASE SupDies(target[c]) /\ UNCHANGED appVars
      BY <1>2, <2>2, <3>1 DEF StopTermSup, Born, Stopping, StopPcs, CliGoto
    <3>2. CASE UNCHANGED <<spc, handle, state, appVars>>
      BY <3>2, RunsFrame DEF Runs
    <3> QED
      BY <2>2, <3>1, <3>2 DEF StopTermSup
  <2>3. CASE StopOrphan(c) \/ StopForceApp(c)
    BY <1>1, <2>3 DEF StopOrphan, StopForceApp, Terminate, AppDies
  <2>4. CASE \/ StopLoad(c) \/ StopAlive(c) \/ StopMarkOrphan(c) \/ StopWrite(c)
             \/ StopSeesDeath(c) \/ StopTimesOut(c) \/ StopClear(c) \/ StopReload(c)
             \/ StopMark(c)
    BY <1>1, <2>4 DEF StopLoad, StopAlive, StopMarkOrphan, StopWrite, StopSeesDeath,
                      StopTimesOut, StopClear, StopReload, StopMark
  <2> QED
    BY <1>5, <2>1, <2>2, <2>3, <2>4 DEF Stop
<1>6. ASSUME NEW s \in Sups, Supervise(s)
      PROVE  RunsAt(t)'
  BY <1>6, SuperviseRunsAt, SuperviseOther
<1>7. ASSUME NEW s \in Sups, LoginLaunch(s)
      PROVE  RunsAt(t)'
  BY <1>7, RunsFrame DEF LoginLaunch, Runs
<1>8. ASSUME NEW s \in Sups, SupCrash(s)
      PROVE  RunsAt(t)'
  BY <1>2, <1>8 DEF SupCrash
<1>9. ASSUME NEW a \in Apps, Listen(a) \/ AppExit(a)
      PROVE  RunsAt(t)'
  BY <1>1, <1>9 DEF Listen, AppExit, AppDies
<1>10. CASE Reboot
  <2>1. \A a \in Apps : ~Runs(t, a)'
    BY <1>10 DEF Reboot, Runs
  <2>2. spc'[t] \in {"unborn", "dead"}
    BY <1>10 DEF Reboot
  <2> QED
    BY <2>1, <2>2 DEF RunsAt
<1>11. CASE UNCHANGED vars
  BY <1>1, <1>11 DEF vars
<1>12. CASE StrangerListens \/ StrangerLeaves
  BY <1>1, <1>12 DEF StrangerListens, StrangerLeaves
<1> QED
  BY <1>3, <1>4, <1>5, <1>6, <1>7, <1>8, <1>9, <1>10, <1>11, <1>12 DEF Next

\* In every reachable state a supervisor runs exactly the apps its place in
\* supervise() allows it to run.
THEOREM Runnings == Spec => [](TypeOK /\ Born /\ Owned /\ Running)
<1>1. Init => TypeOK /\ Born /\ Owned /\ Running
  BY InitInv, InitOwned, InitRunning
<1>2. TypeOK /\ Born /\ Owned /\ Running /\ [Next]_vars => (TypeOK /\ Born /\ Owned /\ Running)'
  BY NextType, NextBorn, NextOwned, NextRunning
<1> QED
  BY <1>1, <1>2, PTL DEF Spec

\* A supervisor never runs two apps, even when its saves fail or other supervisors,
\* commands and crashes interleave with it.
THEOREM NeverTwoApps == Spec => []OneAppPerSupervisor
<1>1. TypeOK /\ Owned /\ Running => OneAppPerSupervisor
  <2> SUFFICES ASSUME TypeOK, Owned, Running, NEW a \in Apps, NEW b \in Apps,
                      ast[a] = "up", ast[b] = "up", owner[a] = owner[b]
               PROVE  a = b
    BY DEF OneAppPerSupervisor
  <2>1. owner[a] \in Sups
    BY DEF TypeOK, Owned
  <2> QED
    BY <2>1 DEF Running, RunsAt, Runs
<1> QED
  BY <1>1, Runnings, PTL

\* A supervisor that winds down leaves no app behind, unless one of its saves raised.
THEOREM WindsDownClean ==
    ASSUME SaveErrors = FALSE
    PROVE  Spec => []SupervisorLeavesNoApp
<1>1. Running => SupervisorLeavesNoApp
  BY DEF Running, RunsAt, Runs, SupervisorLeavesNoApp
<1> QED
  BY <1>1, Runnings, PTL

-----------------------------------------------------------------------------
(* One user *)

\* One command process on a machine that keeps its deadlines.
OneUser ==
    /\ ~Crashes /\ ~Autostart /\ ~SaveErrors /\ Patient
    /\ \A c, d \in Clis : c = d

Booting == {"clear", "base"}

\* A supervisor that boots is waited for by the command that launched it ...
BootsAwaited ==
    \A s \in Sups : spc[s] \in Booting =>
        \E c \in Clis : cpc[c] = "startWait" /\ target[c] = s

\* ... which still sees the record that it found before.
BootsUnseen ==
    \A c \in Clis :
        \/ cpc[c] \in {"startClear", "startPopen"}
        \/ cpc[c] = "startWait" /\ target[c] \in Sups /\ spc[target[c]] \in Booting
        => ~Fresh(c)

\* From then on the record names it.
Recorded ==
    \A s \in Sups : Alive(s) /\ spc[s] \notin Booting => rec # NoRecord /\ rec.sup = s

\* A command launches only when no supervisor is alive.
LaunchesVacant ==
    \A c \in Clis : cpc[c] \in {"startPrev", "startClear", "startPopen"} =>
        \A s \in Sups : ~Alive(s)

\* An app that is up has its supervisor.
NoOrphans == \A a \in Apps : ast[a] = "up" => owner[a] \in Sups /\ Alive(owner[a])

\* A stop is aimed at the recorded supervisor, and its request stays until it is
\* answered, so that no stop is forced.
StopsAnswered ==
    \A c \in Clis :
        /\ cpc[c] \in Stopping => rec # NoRecord /\ rec.sup = target[c]
        /\ cpc[c] = "stopWait" => control \/ spc[target[c]] \in {"final", "exit", "dead"}
        /\ cpc[c] \notin {"stopForceApp", "stopTermSup", "stopKillSup"}

\* The record that a supervisor leaves is final.
LeavesFinal ==
    \A s \in Sups : spc[s] = "exit" => rec.app = NoApp /\ rec.status \in {"stopped", "failed"}

Single ==
    /\ OneSupervisor /\ BootsAwaited /\ BootsUnseen /\ Recorded /\ LaunchesVacant
    /\ NoOrphans /\ StopsAnswered /\ LeavesFinal /\ RecordIsFinal

\* What the proofs of LocalRuntimeProofs have shown.
Before == TypeOK /\ Born /\ Owned /\ Running

-----------------------------------------------------------------------------
(* Supervisors *)

\* Where a supervisor goes next, and what it leaves, if no save raises.
LEMMA SupervisorMoves ==
    ASSUME TypeOK, ~SaveErrors, NEW s \in Sups, Supervise(s)
    PROVE  /\ spc[s] = "clear" => spc'[s] = "base"
           /\ spc[s] = "base" => spc'[s] = "handlers" /\ rec' # NoRecord /\ rec'.sup = s
           /\ spc[s] \notin Booting => spc'[s] \notin Booting
           /\ spc'[s] = "dead" => spc[s] = "exit" /\ rec' = rec
           /\ spc'[s] = "exit" => rec'.app = NoApp /\ rec'.status \in {"stopped", "failed"}
           /\ spc[s] \in {"final", "exit"} => spc'[s] \in {"exit", "dead"}
           /\ control' = control \/ spc'[s] \in {"base", "final"}
<1> USE DEF TypeOK, Save, SupGoto, Booting, fileVars
<1>1. CASE SupClear(s) \/ SupCleanup(s)
  BY <1>1 DEF SupClear, SupCleanup
<1>2. CASE SupBase(s)
  <2>1. /\ rec' = [sup |-> s, app |-> state'[s].app, status |-> state'[s].status]
        /\ spc[s] = "base" /\ spc'[s] = "handlers" /\ control' = control
    BY <1>2 DEF SupBase
  <2>2. rec' \in Record
    BY <1>2, <2>1, SuperviseType DEF Supervise, Record
  <2> QED
    BY <2>1, <2>2, NullsAreDistinct
<1>3. CASE \/ SupHandlers(s) \/ SupSpawn(s) \/ SupSpawnFails(s) \/ SupReadControl(s)
           \/ SupPollUp(s) \/ SupGiveUp(s) \/ SupProbe(s) \/ SupTerminate(s)
  BY <1>3 DEF SupHandlers, SupSpawn, SupSpawnFails, SupReadControl, SupPollUp, SupGiveUp, SupProbe,
              SupTerminate
<1>4. CASE SupRecord(s) \/ SupPollExited(s) \/ SupRestart(s) \/ SupSaveHealth(s) \/ SupFail(s)
  BY <1>4 DEF SupRecord, SupPollExited, SupRestart, SupSaveHealth, SupFail
<1>5. CASE SupFinal(s)
  BY <1>5 DEF SupFinal
<1>6. CASE SupExit(s)
  BY <1>6 DEF SupExit, SupDies
<1> QED
  BY <1>1, <1>2, <1>3, <1>4, <1>5, <1>6 DEF Supervise

\* An app comes up only where a supervisor spawns it.
LEMMA SupervisorApps ==
    ASSUME TypeOK, Owned, NEW s \in Sups, Supervise(s), NEW a \in Apps, ast'[a] = "up"
    PROVE  \/ ast[a] = "up" /\ owner'[a] = owner[a]
           \/ SupSpawn(s) /\ spc'[s] = "record" /\ owner'[a] = s
<1> USE DEF TypeOK
<1>1. CASE SupSpawn(s)
  BY <1>1 DEF SupSpawn, SupGoto
<1>2. CASE SupTerminate(s)
  BY <1>2 DEF SupTerminate, Terminate, AppDies, appVars
<1>3. CASE ~SupSpawn(s) /\ ~SupTerminate(s)
  <2>1. UNCHANGED appVars
    BY <1>3 DEF Supervise, SupClear, SupBase, SupHandlers, SupSpawnFails, SupRecord, SupReadControl,
         SupPollUp, SupPollExited, SupRestart, SupGiveUp, SupProbe, SupSaveHealth, SupFail,
         SupCleanup, SupFinal, SupExit
  <2> QED
    BY <2>1 DEF appVars
<1> QED
  BY <1>1, <1>2, <1>3

\* A supervisor's step keeps what holds with one user.
LEMMA SuperviseSingle ==
    ASSUME OneUser, Before, Single, NEW s \in Sups, Supervise(s)
    PROVE  Single'
<1>1. /\ UNCHANGED cliVars /\ spc[s] \notin {"unborn", "dead"} /\ spc'[s] # "unborn"
      /\ \A t \in Sups \ {s} : spc'[t] = spc[t]
      /\ rec' # rec => rec' # NoRecord /\ rec'.sup = s
  BY SuperviseFrame DEF Before
<1>2. /\ spc[s] = "clear" => spc'[s] = "base"
      /\ spc[s] = "base" => spc'[s] = "handlers" /\ rec' # NoRecord /\ rec'.sup = s
      /\ spc[s] \notin Booting => spc'[s] \notin Booting
      /\ spc'[s] = "dead" => spc[s] = "exit" /\ rec' = rec
      /\ spc'[s] = "exit" => rec'.app = NoApp /\ rec'.status \in {"stopped", "failed"}
      /\ spc[s] \in {"final", "exit"} => spc'[s] \in {"exit", "dead"}
      /\ control' = control \/ spc'[s] \in {"base", "final"}
  BY SupervisorMoves DEF Before, OneUser
<1>3. Alive(s) /\ \A t \in Sups : t # s => ~Alive(t) /\ spc[t] \in {"unborn", "dead"}
                                           /\ spc'[t] = spc[t]
  BY <1>1 DEF Single, OneSupervisor, Alive
<1>4. cpc' = cpc /\ target' = target /\ loaded' = loaded
  BY <1>1 DEF cliVars
<1>5. rec' = rec \/ (rec' # NoRecord /\ rec'.sup = s)
  BY <1>1
<1>6. OneSupervisor'
  BY <1>3 DEF OneSupervisor, Alive
<1>7. BootsAwaited'
  BY <1>2, <1>3, <1>4 DEF Single, BootsAwaited, Booting
<1>8. Recorded'
  <2>1. ASSUME spc'[s] \notin Booting PROVE rec' # NoRecord /\ rec'.sup = s
    <3>1. CASE spc[s] \in Booting
      BY <1>2, <2>1, <3>1 DEF Booting
    <3>2. CASE spc[s] \notin Booting
      BY <1>3, <1>5, <3>2 DEF Single, Recorded
    <3> QED
      BY <3>1, <3>2
  <2> QED
    BY <1>3, <2>1 DEF Recorded, Alive
<1>9. LaunchesVacant'
  BY <1>3, <1>4 DEF Single, LaunchesVacant
<1>10. BootsUnseen'
  <2> SUFFICES ASSUME NEW c \in Clis,
                      \/ cpc[c] \in {"startClear", "startPopen"}
                      \/ cpc[c] = "startWait" /\ target[c] \in Sups /\ spc'[target[c]] \in Booting
               PROVE  ~Fresh(c)'
    BY <1>4 DEF BootsUnseen
  <2>1. target[c] = s /\ spc'[s] \in Booting /\ cpc[c] = "startWait"
    BY <1>3 DEF Single, LaunchesVacant, Booting
  <2>2. spc[s] = "clear"
    BY <1>1, <1>2, <2>1 DEF Booting
  <2>3. rec' = rec
    BY <2>2 DEF Supervise, SupClear, SupBase, SupHandlers, SupSpawn, SupSpawnFails, SupRecord,
         SupReadControl, SupPollUp, SupPollExited, SupRestart, SupGiveUp, SupProbe,
         SupSaveHealth, SupFail, SupTerminate, SupCleanup, SupFinal, SupExit, SupGoto, fileVars
  <2>4. ~Fresh(c)
    BY <2>1, <2>2 DEF Single, BootsUnseen, Booting
  <2> QED
    BY <1>4, <2>3, <2>4 DEF Fresh
<1>11. NoOrphans'
  <2> SUFFICES ASSUME NEW a \in Apps, ast'[a] = "up"
               PROVE  owner'[a] \in Sups /\ spc'[owner'[a]] \notin {"unborn", "dead"}
    BY DEF NoOrphans, Alive
  <2>1. CASE SupSpawn(s) /\ spc'[s] = "record" /\ owner'[a] = s
    BY <2>1
  <2>2. CASE ast[a] = "up" /\ owner'[a] = owner[a]
    <3>1. owner[a] = s
      BY <1>3, <2>2 DEF Single, NoOrphans
    <3>2. spc[s] # "exit"
      BY <2>2, <3>1 DEF Before, Running, RunsAt, Runs, OneUser
    <3> QED
      BY <1>1, <1>2, <2>2, <3>1, <3>2
  <2> QED
    BY <2>1, <2>2, SupervisorApps DEF Before
<1>12. StopsAnswered'
  <2> SUFFICES ASSUME NEW c \in Clis
               PROVE  /\ cpc[c] \in Stopping => rec' # NoRecord /\ rec'.sup = target[c]
                      /\ cpc[c] = "stopWait" => control' \/ spc'[target[c]] \in {"final", "exit", "dead"}
                      /\ cpc[c] \notin {"stopForceApp", "stopTermSup", "stopKillSup"}
    BY <1>4 DEF StopsAnswered
  <2>1. /\ cpc[c] \in Stopping => rec # NoRecord /\ rec.sup = target[c]
        /\ cpc[c] = "stopWait" => control \/ spc[target[c]] \in {"final", "exit", "dead"}
        /\ cpc[c] \notin {"stopForceApp", "stopTermSup", "stopKillSup"}
    BY DEF Single, StopsAnswered
  <2>2. ASSUME cpc[c] \in Stopping
        PROVE  spc[s] \notin Booting /\ rec # NoRecord /\ rec.sup = s /\ target[c] = s
    <3>1. spc[s] \notin Booting
      BY <2>2 DEF Single, BootsAwaited, OneUser, Stopping, StopPcs
    <3> QED
      BY <1>3, <2>1, <2>2, <3>1 DEF Single, Recorded
  <2>3. cpc[c] \in Stopping => rec' # NoRecord /\ rec'.sup = target[c]
    BY <1>5, <2>2
  <2>4. ASSUME cpc[c] = "stopWait"
        PROVE  control' \/ spc'[target[c]] \in {"final", "exit", "dead"}
    <3>1. target[c] = s /\ spc'[s] \notin Booting
      BY <1>2, <2>2, <2>4 DEF Stopping, StopPcs
    <3> QED
      BY <1>1, <1>2, <2>1, <2>4, <3>1 DEF Booting
  <2> QED
    BY <2>1, <2>3, <2>4
<1>13. LeavesFinal'
  BY <1>2, <1>3 DEF LeavesFinal
<1>14. RecordIsFinal'
  <2> SUFFICES ASSUME rec' # NoRecord, spc'[rec'.sup] \in {"unborn", "dead"}
               PROVE  rec'.app = NoApp /\ rec'.status \in {"stopped", "failed"}
    BY DEF RecordIsFinal, Alive
  <2>1. rec' \in Record
    BY <1>3, SuperviseType DEF Before, TypeOK
  <2>2. CASE rec'.sup = s
    <3>1. spc'[s] = "dead"
      BY <1>1, <2>2
    <3>2. spc[s] = "exit" /\ rec' = rec
      BY <1>2, <3>1
    <3> QED
      BY <3>2 DEF Single, LeavesFinal
  <2>3. CASE rec'.sup # s
    <3>1. rec' = rec /\ ~Alive(rec.sup)
      BY <1>3, <1>5, <2>1, <2>3 DEF Record, Alive
    <3> QED
      BY <2>1, <3>1, NullsAreDistinct DEF Single, RecordIsFinal
  <2> QED
    BY <2>2, <2>3
<1> QED
  BY <1>6, <1>7, <1>8, <1>9, <1>10, <1>11, <1>12, <1>13, <1>14 DEF Single

-----------------------------------------------------------------------------
(* Commands and apps *)

\* A command's step that leaves the supervisors and the record alone, and leads neither
\* away from waiting for a supervisor that boots nor to a place that says more.
LEMMA CommandSingle ==
    ASSUME OneUser, Before, Single, NEW c \in Clis,
           spc' = spc, rec' = rec,
           \A a \in Apps : ast'[a] = "up" => ast[a] = "up" /\ owner'[a] = owner[a],
           \A s \in Sups : spc[s] \in Booting => cpc'[c] = "startWait" /\ target'[c] = target[c],
           cpc'[c] \in {"startClear", "startPopen"} => ~Fresh(c)',
           cpc'[c] = "startWait" => cpc[c] = "startWait" /\ target'[c] = target[c]
                                                         /\ loaded'[c] = loaded[c],
           cpc'[c] \in {"startPrev", "startClear", "startPopen"} => \A s \in Sups : ~Alive(s),
           cpc'[c] \in Stopping => rec # NoRecord /\ rec.sup = target'[c],
           cpc'[c] = "stopWait" => control' \/ spc[target'[c]] \in {"final", "exit", "dead"},
           cpc'[c] \notin {"stopForceApp", "stopTermSup", "stopKillSup"}
    PROVE  Single'
<1>1. \A d \in Clis : d = c
  BY DEF OneUser
<1>2. OneSupervisor' /\ Recorded' /\ LeavesFinal' /\ RecordIsFinal'
  BY DEF Single, OneSupervisor, Recorded, LeavesFinal, RecordIsFinal, Alive
<1>3. BootsAwaited'
  BY <1>1 DEF Single, BootsAwaited
<1>4. BootsUnseen'
  BY <1>1 DEF Single, BootsUnseen, Fresh
<1>5. LaunchesVacant'
  BY <1>1 DEF LaunchesVacant, Alive
<1>6. NoOrphans'
  BY DEF Single, NoOrphans, Alive
<1>7. StopsAnswered'
  BY <1>1 DEF StopsAnswered
<1> QED
  BY <1>2, <1>3, <1>4, <1>5, <1>6, <1>7 DEF Single

\* Only a command that waits for it has a supervisor that boots.
LEMMA NobodyBoots ==
    ASSUME OneUser, Single, NEW c \in Clis, cpc[c] # "startWait"
    PROVE  \A s \in Sups : spc[s] \notin Booting
BY DEF OneUser, Single, BootsAwaited

\* Nobody is alive if the record says so and nobody boots.
LEMMA NobodyAlive ==
    ASSUME OneUser, Single, NEW c \in Clis, cpc[c] # "startWait", ~IsRunning
    PROVE  \A s \in Sups : ~Alive(s)
BY NobodyBoots DEF Single, Recorded, IsRunning

\* deploy and start keep what holds with one user.
LEMMA StartSingle ==
    ASSUME OneUser, Before, Single, NEW c \in Clis, Start(c)
    PROVE  Single'
<1> USE DEF Stopping, StopPcs
<1>1. /\ cpc \in [Clis -> CliPcs] /\ target \in [Clis -> Sups \cup {NoSup}]
      /\ loaded \in [Clis -> Sups \cup {NoSup}] /\ spc \in [Sups -> SupPcs]
  BY DEF Before, TypeOK
<1>2. CASE DeployCheck(c) \/ DeployPort(c) \/ StartPopenFails(c) \/ Started(c)
  <2>1. /\ cpc[c] # "startWait" /\ cpc'[c] \in {"idle", "deployPort", "startCheck"}
        /\ spc' = spc /\ rec' = rec /\ ast' = ast /\ owner' = owner
    BY <1>1, <1>2 DEF DeployCheck, DeployPort, StartPopenFails, Started, Return, CliGoto,
                      fileVars, supVars, appVars
  <2> QED
    BY <2>1, CommandSingle, NobodyBoots
<1>3. CASE StartCheck(c)
  <2>1. /\ cpc[c] = "startCheck" /\ cpc'[c] \in {"idle", "startPrev"}
        /\ cpc'[c] = "startPrev" => ~IsRunning
        /\ spc' = spc /\ rec' = rec /\ ast' = ast /\ owner' = owner
    BY <1>1, <1>3 DEF StartCheck, Return, CliGoto, fileVars, supVars, appVars
  <2> QED
    BY <2>1, CommandSingle, NobodyBoots, NobodyAlive
<1>4. CASE StartPrev(c)
  <2>1. /\ cpc[c] = "startPrev" /\ cpc'[c] = "startClear" /\ loaded'[c] = RecordedSup
        /\ spc' = spc /\ rec' = rec /\ ast' = ast /\ owner' = owner
    BY <1>1, <1>4 DEF StartPrev, CliGoto, fileVars, supVars, appVars
  <2>2. ~Fresh(c)' /\ \A s \in Sups : ~Alive(s)
    BY <2>1 DEF Fresh, RecordedSup, Single, LaunchesVacant
  <2> QED
    BY <2>1, <2>2, CommandSingle, NobodyBoots
<1>5. CASE StartClear(c)
  <2>1. /\ cpc[c] = "startClear" /\ cpc'[c] = "startPopen" /\ loaded' = loaded
        /\ spc' = spc /\ rec' = rec /\ ast' = ast /\ owner' = owner
    BY <1>1, <1>5 DEF StartClear, CliGoto, fileVars, supVars, appVars
  <2>2. ~Fresh(c)' /\ \A s \in Sups : ~Alive(s)
    BY <2>1 DEF Fresh, Single, LaunchesVacant, BootsUnseen
  <2> QED
    BY <2>1, <2>2, CommandSingle, NobodyBoots
<1>6. CASE StartPopen(c)
  <2>1. PICK s \in Sups : /\ spc[s] = "unborn" /\ spc' = [spc EXCEPT ![s] = "clear"]
                          /\ target' = [target EXCEPT ![c] = s]
    BY <1>6 DEF StartPopen
  <2>2. /\ cpc[c] = "startPopen" /\ cpc' = [cpc EXCEPT ![c] = "startWait"] /\ loaded' = loaded
        /\ rec' = rec /\ ast' = ast /\ owner' = owner
    BY <1>6 DEF StartPopen, CliGoto, fileVars, appVars
  <2>3. /\ cpc'[c] = "startWait" /\ target'[c] = s /\ spc'[s] = "clear"
        /\ \A t \in Sups : t # s => spc'[t] = spc[t] /\ ~Alive(t)
        /\ ~Alive(s) /\ \A d \in Clis : d = c
    BY <1>1, <2>1, <2>2 DEF Single, LaunchesVacant, OneUser
  <2>4. OneSupervisor' /\ BootsAwaited' /\ LaunchesVacant' /\ StopsAnswered'
    BY <2>3 DEF OneSupervisor, BootsAwaited, LaunchesVacant, StopsAnswered, Alive, Booting
  <2>5. BootsUnseen'
    BY <2>2, <2>3 DEF Single, BootsUnseen, Fresh
  <2>6. Recorded' /\ NoOrphans' /\ LeavesFinal'
    BY <2>2, <2>3 DEF Single, Recorded, NoOrphans, LeavesFinal, Alive, Booting
  <2>7. RecordIsFinal'
    <3>1. rec # NoRecord => rec.sup \in Sups /\ rec.sup # s
      BY <2>1 DEF Before, TypeOK, Born, Record
    <3> QED
      BY <2>2, <2>3, <3>1 DEF Single, RecordIsFinal
  <2> QED
    BY <2>4, <2>5, <2>6, <2>7 DEF Single
<1>7. CASE StartSucceeds(c) \/ StartFails(c) \/ StartTimesOut(c)
  <2>1. /\ cpc[c] = "startWait" /\ cpc'[c] \in {"started", "idle"}
        /\ spc' = spc /\ rec' = rec /\ ast' = ast /\ owner' = owner
    BY <1>1, <1>7 DEF StartSucceeds, StartFails, StartTimesOut, Return, CliGoto,
                      fileVars, supVars, appVars
  <2>2. ASSUME NEW s \in Sups, spc[s] \in Booting
        PROVE  FALSE
    <3>1. target[c] = s /\ ~Fresh(c) /\ Alive(s)
      BY <2>1, <2>2 DEF Single, BootsAwaited, BootsUnseen, OneUser, Alive, Booting
    <3> QED
      BY <1>7, <2>2, <3>1 DEF StartSucceeds, StartFails, StartTimesOut, OneUser, Booting
  <2> QED
    BY <2>1, <2>2, CommandSingle
<1> QED
  BY <1>2, <1>3, <1>4, <1>5, <1>6, <1>7 DEF Start

\* stop keeps what holds with one user: it has no need of force, and when it writes
\* the record, nobody is alive.
LEMMA StopSingle ==
    ASSUME OneUser, Before, Single, NEW c \in Clis, Stop(c)
    PROVE  Single'
<1> USE DEF Stopping, StopPcs
<1>1. /\ cpc \in [Clis -> CliPcs] /\ target \in [Clis -> Sups \cup {NoSup}]
      /\ loaded \in [Clis -> Sups \cup {NoSup}] /\ spc \in [Sups -> SupPcs]
  BY DEF Before, TypeOK
<1>2. /\ cpc[c] \in Stopping => rec # NoRecord /\ rec.sup = target[c]
      /\ cpc[c] = "stopWait" => control \/ spc[target[c]] \in {"final", "exit", "dead"}
      /\ cpc[c] \notin {"stopForceApp", "stopTermSup", "stopKillSup"}
  BY DEF Single, StopsAnswered
<1>3. cpc[c] \in StopPcs
  BY DEF Stop, StopLoad, StopAlive, StopOrphan, StopMarkOrphan, StopWrite, StopSeesDeath,
         StopTimesOut, StopForceApp, StopTermSup, StopKillSup, StopClear, StopReload, StopMark,
         CliGoto
<1>4. \A s \in Sups : spc[s] \notin Booting
  BY <1>3, NobodyBoots
<1>5. CASE StopLoad(c)
  <2>1. /\ spc' = spc /\ rec' = rec /\ ast' = ast /\ owner' = owner
    BY <1>5 DEF StopLoad, fileVars, supVars, appVars
  <2>2. \/ cpc'[c] \in {"idle", "startCheck"}
        \/ cpc'[c] = "stopAlive" /\ rec # NoRecord /\ target'[c] = rec.sup
    BY <1>1, <1>5 DEF StopLoad, StopReturns, Return, CliGoto
  <2> QED
    BY <1>4, <2>1, <2>2, CommandSingle
<1>6. CASE StopAlive(c) \/ StopSeesDeath(c) \/ StopClear(c) \/ StopReload(c)
  <2>1. /\ spc' = spc /\ rec' = rec /\ ast' = ast /\ owner' = owner /\ target' = target
        /\ cpc[c] \in Stopping
        /\ cpc'[c] \in {"stopWrite", "stopOrphan", "stopClear", "stopReload", "stopMark"}
    BY <1>1, <1>6 DEF StopAlive, StopSeesDeath, StopClear, StopReload, CliGoto,
                      fileVars, supVars, appVars
  <2> QED
    BY <1>2, <1>4, <2>1, CommandSingle
<1>7. CASE StopWrite(c)
  <2>1. /\ spc' = spc /\ rec' = rec /\ ast' = ast /\ owner' = owner /\ target' = target
        /\ cpc[c] = "stopWrite" /\ cpc'[c] = "stopWait" /\ control' = TRUE
    BY <1>1, <1>7 DEF StopWrite, CliGoto, supVars, appVars
  <2> QED
    BY <1>2, <1>4, <2>1, CommandSingle
<1>8. CASE StopOrphan(c)
  <2>1. /\ spc' = spc /\ rec' = rec /\ target' = target
        /\ cpc[c] = "stopOrphan" /\ cpc'[c] = "stopMarkOrphan"
    BY <1>1, <1>8 DEF StopOrphan, CliGoto, fileVars, supVars
  <2>2. \A a \in Apps : ast'[a] = "up" => ast[a] = "up" /\ owner'[a] = owner[a]
    BY <1>8 DEF StopOrphan, Terminate, AppDies, appVars, Before, TypeOK
  <2> QED
    BY <1>2, <1>4, <2>1, <2>2, CommandSingle
<1>9. CASE StopTimesOut(c)
  <2>1. /\ cpc[c] = "stopWait" /\ Alive(target[c]) /\ ~control
        /\ spc[target[c]] \notin {"final", "exit"}
    BY <1>9 DEF StopTimesOut, CliGoto, OneUser
  <2> QED
    BY <1>2, <2>1 DEF Alive
<1>10. CASE StopForceApp(c) \/ StopTermSup(c) \/ StopKillSup(c)
  BY <1>2, <1>10 DEF StopForceApp, StopTermSup, StopKillSup, CliGoto
<1>11. CASE StopMarkOrphan(c) \/ StopMark(c)
  <2>1. /\ spc' = spc /\ ast' = ast /\ owner' = owner /\ rec' = Stopped(loaded[c])
        /\ cpc[c] \in {"stopMark", "stopMarkOrphan"} /\ cpc'[c] \in {"idle", "startCheck"}
    BY <1>1, <1>11 DEF StopMarkOrphan, StopMark, StopReturns, Return, supVars, appVars
  <2>2. rec.sup = target[c] /\ spc[target[c]] = "dead"
    BY <1>2, <2>1 DEF Before, Born, Ended
  <2>3. \A s \in Sups : ~Alive(s)
    BY <1>4, <2>2 DEF Single, Recorded, Alive
  <2>4. \A d \in Clis : d = c
    BY DEF OneUser
  <2>5. OneSupervisor' /\ Recorded' /\ LaunchesVacant' /\ LeavesFinal'
    BY <2>1, <2>3 DEF OneSupervisor, Recorded, LaunchesVacant, LeavesFinal, Alive
  <2>6. BootsAwaited' /\ BootsUnseen' /\ StopsAnswered'
    BY <1>4, <2>1, <2>4 DEF BootsAwaited, BootsUnseen, StopsAnswered
  <2>7. NoOrphans'
    BY <2>1 DEF Single, NoOrphans, Alive
  <2>8. RecordIsFinal'
    BY <2>1 DEF RecordIsFinal, Stopped
  <2> QED
    BY <2>5, <2>6, <2>7, <2>8 DEF Single
<1> QED
  BY <1>5, <1>6, <1>7, <1>8, <1>9, <1>10, <1>11 DEF Stop

\* Every step keeps what holds with one user.
LEMMA NextSingle ==
    ASSUME OneUser, Before, Single, [Next]_vars
    PROVE  Single'
<1>1. ASSUME NEW c \in Clis, BeginDeploy(c) \/ BeginStop(c)
      PROVE  Single'
  <2>1. /\ spc' = spc /\ rec' = rec /\ ast' = ast /\ owner' = owner
        /\ cpc[c] = "idle" /\ cpc'[c] \in {"deployCheck", "deployPort", "stopLoad"}
    BY <1>1 DEF BeginDeploy, BeginStop, CliGoto, fileVars, supVars, appVars, Before, TypeOK
  <2> QED
    BY <2>1, CommandSingle, NobodyBoots DEF Stopping, StopPcs
<1>2. ASSUME NEW a \in Apps, Listen(a) \/ AppExit(a)
      PROVE  Single'
  <2>1. /\ spc' = spc /\ rec' = rec /\ control' = control /\ cpc' = cpc /\ loaded' = loaded
        /\ target' = target
        /\ \A b \in Apps : ast'[b] = "up" => ast[b] = "up" /\ owner'[b] = owner[b]
    BY <1>2 DEF Listen, AppExit, AppDies, fileVars, supVars, cliVars, Before, TypeOK
  <2> QED
    BY <2>1 DEF Single, OneSupervisor, BootsAwaited, BootsUnseen, Fresh, Recorded,
                LaunchesVacant, NoOrphans, StopsAnswered, LeavesFinal, RecordIsFinal, Alive
<1>3. CASE UNCHANGED vars \/ StrangerListens \/ StrangerLeaves
  BY <1>3 DEF vars, StrangerListens, StrangerLeaves, fileVars, supVars, cliVars, Single,
              OneSupervisor, BootsAwaited, BootsUnseen, Fresh, Recorded,
              LaunchesVacant, NoOrphans, StopsAnswered, LeavesFinal, RecordIsFinal, Alive
<1>4. \A c \in Clis : ~CliCrash(c)
  BY DEF OneUser, CliCrash
<1>5. \A s \in Sups : ~LoginLaunch(s) /\ ~SupCrash(s)
  BY DEF OneUser, LoginLaunch, SupCrash
<1>6. ~Reboot
  BY DEF OneUser, Reboot
<1> QED
  BY <1>1, <1>2, <1>3, <1>4, <1>5, <1>6, StartSingle, StopSingle, SuperviseSingle DEF Next

\* Before the first command all of it holds.
LEMMA InitSingle == Init => Single
BY NullsAreDistinct
   DEF Init, Single, OneSupervisor, BootsAwaited, BootsUnseen, Fresh, Recorded,
       LaunchesVacant, NoOrphans, StopsAnswered, LeavesFinal, RecordIsFinal, Alive, Booting,
       Stopping, StopPcs

\* With one user every behaviour keeps it.
LEMMA Singles ==
    ASSUME OneUser
    PROVE  Spec => [](Before /\ Single)
<1>1. Spec => []Before
  BY Runnings DEF Before
<1>2. Init => Single
  BY InitSingle
<1>3. Before /\ Single /\ [Next]_vars => Single'
  BY NextSingle
<1> QED
  BY <1>1, <1>2, <1>3, PTL DEF Spec

-----------------------------------------------------------------------------
(* The theorems *)

\* With one user, once the recorded supervisor is gone the record is final: what
\* `minit ls` shows of a service that ended is that it ended.
THEOREM RecordsEndFinal ==
    ASSUME OneUser
    PROVE  Spec => []RecordIsFinal
<1>1. Before /\ Single => RecordIsFinal
  BY DEF Single
<1> QED
  BY <1>1, Singles, PTL

LiveSups == {s \in Sups : Alive(s)}
UpApps == {a \in Apps : ast[a] = "up"}

\* One app is up at most, and none when its supervisor has none.
LEMMA OneApp ==
    ASSUME Before, Single
    PROVE  /\ \A a, b \in Apps : ast[a] = "up" /\ ast[b] = "up" => a = b
           /\ \A s \in Sups : Alive(s) /\ (\A a \in Apps : ~Runs(s, a)) => UpApps = {}
           /\ (\A s \in Sups : ~Alive(s)) => UpApps = {} /\ LiveSups = {}
BY DEF Before, Running, RunsAt, Runs, Single, OneSupervisor, NoOrphans, UpApps, LiveSups

\* A step that keeps the supervisors and takes at most an app away.
LEMMA AppsGo ==
    ASSUME Before, Single,
           \A s \in Sups : Alive(s)' <=> Alive(s),
           \A a \in Apps : ast'[a] = "up" => ast[a] = "up"
    PROVE  [Abstract!Next]_<<LiveSups, UpApps>>
<1>1. LiveSups' = LiveSups
  BY DEF LiveSups
<1>2. CASE UpApps' = UpApps
  BY <1>1, <1>2
<1>3. CASE UpApps' # UpApps
  <2>1. PICK a \in Apps : ast[a] = "up" /\ ast'[a] # "up"
    BY <1>3 DEF UpApps
  <2>2. UpApps # {} /\ UpApps' = {}
    BY <2>1, OneApp DEF UpApps
  <2>3. Abstract!Gone
    BY <1>1, <2>2 DEF Abstract!Gone, LiveSups, UpApps
  <2> QED
    BY <2>3 DEF Abstract!Next
<1> QED
  BY <1>2, <1>3

\* A step of a supervisor is one of the service.
LEMMA SuperviseImplements ==
    ASSUME OneUser, Before, Single, NEW s \in Sups, Supervise(s)
    PROVE  [Abstract!Next]_<<LiveSups, UpApps>>
<1>1. /\ spc[s] \notin {"unborn", "dead"} /\ spc'[s] # "unborn"
      /\ \A t \in Sups \ {s} : spc'[t] = spc[t]
  BY SuperviseFrame DEF Before
<1>2. Alive(s) /\ \A t \in Sups : t # s => ~Alive(t)
  BY <1>1 DEF Single, OneSupervisor, Alive
<1>3. CASE SupSpawn(s)
  <2>1. PICK a \in Apps : ast[a] = "unborn" /\ ast' = [ast EXCEPT ![a] = "up"]
    BY <1>3 DEF SupSpawn
  <2>2. UpApps = {} /\ s \in LiveSups
    BY <1>2, <1>3, OneApp DEF LiveSups, SupSpawn, SupGoto, Before, Running, RunsAt
  <2>3. UpApps' = {a}
    BY <2>1, <2>2 DEF UpApps, Before, TypeOK
  <2>4. LiveSups' = LiveSups
    BY <1>1, <1>3 DEF LiveSups, Alive, SupSpawn, SupGoto, Before, TypeOK
  <2>5. Abstract!Run(a)
    BY <2>2, <2>3, <2>4 DEF Abstract!Run, LiveSups, UpApps
  <2> QED
    BY <2>5 DEF Abstract!Next
<1>4. CASE ~SupSpawn(s) /\ spc'[s] # "dead"
  <2>1. \A t \in Sups : Alive(t)' <=> Alive(t)
    BY <1>1, <1>4 DEF Alive
  <2>2. \A a \in Apps : ast'[a] = "up" => ast[a] = "up"
    BY <1>4, SupervisorApps DEF Before
  <2> QED
    BY <2>1, <2>2, AppsGo
<1>5. CASE ~SupSpawn(s) /\ spc'[s] = "dead"
  <2>1. spc[s] = "exit"
    BY <1>5, SupervisorMoves DEF Before, OneUser
  <2>2. \A a \in Apps : ~Runs(s, a)
    BY <2>1 DEF Before, Running, RunsAt, OneUser
  <2>3. UpApps = {} /\ LiveSups # {}
    BY <1>2, <2>2, OneApp DEF LiveSups
  <2>4. UpApps' = {}
    BY <1>5, <2>3, SupervisorApps DEF UpApps, Before
  <2>5. LiveSups' = {}
    BY <1>1, <1>2, <1>5 DEF LiveSups, Alive
  <2>6. Abstract!Retire
    BY <2>3, <2>4, <2>5 DEF Abstract!Retire, LiveSups, UpApps
  <2> QED
    BY <2>6 DEF Abstract!Next
<1> QED
  BY <1>3, <1>4, <1>5

\* A step of a starting command is a launch or nothing.
LEMMA StartImplements ==
    ASSUME OneUser, Before, Single, NEW c \in Clis, Start(c)
    PROVE  [Abstract!Next]_<<LiveSups, UpApps>>
<1>1. CASE StartPopen(c)
  <2>1. PICK s \in Sups : spc[s] = "unborn" /\ spc' = [spc EXCEPT ![s] = "clear"]
    BY <1>1 DEF StartPopen
  <2>2. LiveSups = {} /\ UpApps = {}
    BY <1>1, OneApp DEF Single, LaunchesVacant, StartPopen, CliGoto
  <2>3. LiveSups' = {s}
    BY <2>1, <2>2 DEF LiveSups, Alive, Before, TypeOK
  <2>4. UpApps' = UpApps
    BY <1>1 DEF UpApps, StartPopen, appVars
  <2>5. Abstract!Launch(s)
    BY <2>2, <2>3, <2>4 DEF Abstract!Launch, LiveSups, UpApps
  <2> QED
    BY <2>5 DEF Abstract!Next
<1>2. CASE ~StartPopen(c)
  <2>1. spc' = spc /\ ast' = ast
    BY <1>2 DEF Start, DeployCheck, DeployPort, StartCheck, StartPrev, StartClear,
                StartPopenFails, StartSucceeds, StartFails, StartTimesOut, Started,
                supVars, appVars
  <2> QED
    BY <2>1, AppsGo DEF Alive
<1> QED
  BY <1>1, <1>2

\* A step of a stopping command takes at most an app away.
LEMMA StopImplements ==
    ASSUME OneUser, Before, Single, NEW c \in Clis, Stop(c)
    PROVE  [Abstract!Next]_<<LiveSups, UpApps>>
<1>1. cpc[c] \notin {"stopForceApp", "stopTermSup", "stopKillSup"}
  BY DEF Single, StopsAnswered
<1>2. CASE StopOrphan(c)
  <2>1. spc' = spc /\ \A a \in Apps : ast'[a] = "up" => ast[a] = "up"
    BY <1>2 DEF StopOrphan, Terminate, AppDies, supVars, appVars, Before, TypeOK
  <2> QED
    BY <2>1, AppsGo DEF Alive
<1>3. CASE ~StopOrphan(c)
  <2>1. spc' = spc /\ ast' = ast
    BY <1>1, <1>3 DEF Stop, StopLoad, StopAlive, StopMarkOrphan, StopWrite, StopSeesDeath,
        StopTimesOut, StopForceApp, StopTermSup, StopKillSup, StopClear, StopReload,
        StopMark, CliGoto, supVars, appVars
  <2> QED
    BY <2>1, AppsGo DEF Alive
<1> QED
  BY <1>2, <1>3

\* Every step with one user is a step of OneService, or none.
LEMMA NextImplements ==
    ASSUME OneUser, Before, Single, [Next]_vars
    PROVE  [Abstract!Next]_<<LiveSups, UpApps>>
<1>1. ASSUME NEW c \in Clis, BeginDeploy(c) \/ BeginStop(c)
      PROVE  spc' = spc /\ ast' = ast
  BY <1>1 DEF BeginDeploy, BeginStop, supVars, appVars
<1>2. ASSUME NEW a \in Apps, Listen(a) \/ AppExit(a)
      PROVE  spc' = spc /\ \A b \in Apps : ast'[b] = "up" => ast[b] = "up"
  BY <1>2 DEF Listen, AppExit, AppDies, supVars, Before, TypeOK
<1>3. CASE UNCHANGED vars \/ StrangerListens \/ StrangerLeaves
  BY <1>3 DEF vars, StrangerListens, StrangerLeaves, supVars, LiveSups, UpApps, Alive
<1>4. /\ \A c \in Clis : ~CliCrash(c)
      /\ \A s \in Sups : ~LoginLaunch(s) /\ ~SupCrash(s)
      /\ ~Reboot
  BY DEF OneUser, CliCrash, LoginLaunch, SupCrash, Reboot
<1>5. (spc' = spc /\ \A b \in Apps : ast'[b] = "up" => ast[b] = "up")
        => [Abstract!Next]_<<LiveSups, UpApps>>
  BY AppsGo DEF Alive
<1> QED
  BY <1>1, <1>2, <1>3, <1>4, <1>5, StartImplements, StopImplements, SuperviseImplements DEF Next

\* With one user at a time and kept deadlines, supervisors and apps come and go as
\* OneService says: never two at once, and the app before its supervisor.
THEOREM OneUserHasOneService ==
    ASSUME OneUser
    PROVE  Spec => ImplementsOneService
<1>1. Init => Abstract!Init
  BY DEF Init, Abstract!Init, Alive
<1>2. Before /\ Single /\ [Next]_vars => [Abstract!Next]_<<LiveSups, UpApps>>
  BY NextImplements
<1> QED
  BY <1>1, <1>2, Singles, PTL DEF Spec, ImplementsOneService, Abstract!Spec, LiveSups, UpApps
=============================================================================

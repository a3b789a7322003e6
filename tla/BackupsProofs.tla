--------------------------- MODULE BackupsProofs ---------------------------
(*************************************************************************)
(* Proofs about Backups, for every set of commands, files and versions,  *)
(* with commands in turn or together, killed or failing at any step.     *)
(*                                                                       *)
(* Backups implements AtomicData for users who take turns, and commands  *)
(* that may fail at any step but are not killed.                         *)
(*************************************************************************)
EXTENDS BackupsMC, TLAPS

\* Every backup named by the index, or by entries a command is about to save, is in
\* place: a command passes through publishing to the places from which it is indexed.
Indexed ==
    /\ \A b \in index : stored[b] # NoDir
    /\ \A o \in Ops : \A b \in held[o] : stored[b] # NoDir
    /\ \A o \in Ops : pc[o] \in {"verify", "load", "save"} => stored[o] # NoDir
    /\ \A o \in Ops : pick[o] # NoOp => stored[pick[o]] # NoDir

\* A restore sets data aside once, and removes it when the staging directory is gone.
Swapped ==
    \A o \in Ops :
        /\ pc[o] \in {"restoreCheck", "restoreStop", "extract", "aside"} \cup CreatePcs \cup {"idle"}
             => old[o] = NoDir
        /\ pc[o] = "drop" => part[o] = NoDir

IInv == TypeOK /\ Indexed /\ Swapped

\* Before the first command there is nothing to lose.
LEMMA InitIInv == Init => IInv
  BY NullsAreNew DEF Init, IInv, TypeOK, Indexed, Swapped, OpPcs, CreatePcs, RestorePcs, Dir

\* The empty directory is one.
LEMMA EmptyIsDir == Empty \in Dir
  BY DEF Empty, Dir

\* A data directory made for an app or a command is a directory.
LEMMA MakeDataType == ASSUME TypeOK, MakeData PROVE cur' \in Dir \cup {NoDir}
  BY EmptyIsDir DEF MakeData, TypeOK

\* A step of a create command preserves the invariant.
LEMMA CreateStep ==
    ASSUME IInv, NEW o \in Ops, Create(o)
    PROVE  IInv'
<1> USE DEF IInv, TypeOK, Indexed, Swapped, opVars, Goto, CreatePcs, RestorePcs, OpPcs, FinalPcs
<1>1. CASE CreateCheck(o)
  BY <1>1 DEF CreateCheck, Check
<1>2. CASE CreateStop(o)
  BY <1>2 DEF CreateStop, StopService
<1>3. CASE CreateList(o)
  BY <1>3, EmptyIsDir, NullsAreNew DEF CreateList, Exists, Dir
<1>4. CASE CreateRead(o)
  <2>1. PICK f \in todo[o] :
            /\ Exists(f)
            /\ part' = [part EXCEPT ![o][f] = cur[f]]
            /\ todo' = [todo EXCEPT ![o] = @ \ {f}]
    BY <1>4 DEF CreateRead
  <2>2. f \in Files /\ cur[f] \in Versions \cup {Absent}
    BY <2>1 DEF Exists, Dir
  <2>3. part[o] \in Dir
    BY <1>4 DEF CreateRead
  <2>4. [part[o] EXCEPT ![f] = cur[f]] \in Dir
    BY <2>2, <2>3 DEF Dir
  <2>5. part'[o] = [part[o] EXCEPT ![f] = cur[f]]
    BY <2>1
  <2>6. part' \in [Ops -> Dir \cup {NoDir}] /\ part'[o] # NoDir
    BY <2>1, <2>4, <2>5, NullsAreNew DEF Dir
  <2> QED
    BY <1>4, <2>1, <2>6 DEF CreateRead
<1>5. CASE CreateReadFails(o)
  BY <1>5 DEF CreateReadFails
<1>6. CASE CreatePublish(o)
  BY <1>6 DEF CreatePublish
<1>7. CASE CreateVerify(o)
  BY <1>7 DEF CreateVerify
<1>8. CASE CreateLoad(o)
  BY <1>8 DEF CreateLoad
<1>9. CASE CreateSave(o)
  BY <1>9 DEF CreateSave
<1>10. CASE CreateError(o)
  BY <1>10 DEF CreateError
<1> QED
  BY <1>1, <1>2, <1>3, <1>4, <1>5, <1>6, <1>7, <1>8, <1>9, <1>10 DEF Create

\* A step of a restore command preserves the invariant.
LEMMA RestoreStep ==
    ASSUME IInv, NEW o \in Ops, Restore(o)
    PROVE  IInv'
<1> USE DEF IInv, TypeOK, Indexed, Swapped, opVars, Goto, CreatePcs, RestorePcs, OpPcs, FinalPcs
<1>1. CASE RestoreCheck(o)
  BY <1>1 DEF RestoreCheck, Check
<1>2. CASE RestoreStop(o)
  BY <1>2 DEF RestoreStop, StopService
<1>3. CASE RestoreExtract(o)
  <2>1. pick[o] \in Ops /\ stored[pick[o]] \in Dir /\ stored[pick[o]] # NoDir
    BY <1>3, NullsAreNew DEF RestoreExtract
  <2> QED
    BY <1>3, <2>1 DEF RestoreExtract
<1>4. CASE RestoreAside(o)
  BY <1>4 DEF RestoreAside
<1>5. CASE RestoreSwap(o)
  BY <1>5 DEF RestoreSwap
<1>6. CASE RestoreSwapFails(o)
  BY <1>6 DEF RestoreSwapFails
<1>7. CASE RestoreUndo(o)
  BY <1>7 DEF RestoreUndo
<1>8. CASE RestoreDrop(o)
  BY <1>8 DEF RestoreDrop
<1>9. CASE RestoreCleanup(o)
  BY <1>9 DEF RestoreCleanup
<1>10. CASE RestoreError(o)
  BY <1>10 DEF RestoreError
<1> QED
  BY <1>1, <1>2, <1>3, <1>4, <1>5, <1>6, <1>7, <1>8, <1>9, <1>10 DEF Restore

\* Every step preserves the invariant.
LEMMA NextIInv == IInv /\ [Next]_vars => IInv'
<1> SUFFICES ASSUME IInv, [Next]_vars PROVE IInv'
  OBVIOUS
<1> USE DEF IInv, TypeOK, Indexed, Swapped, opVars, Goto, CreatePcs, RestorePcs, OpPcs, FinalPcs
<1>1. CASE ServiceStarts
  BY <1>1, MakeDataType DEF ServiceStarts
<1>2. CASE ServiceStops
  BY <1>2 DEF ServiceStops
<1>3. ASSUME NEW f \in Files, AppWrites(f) PROVE IInv'
  BY <1>3 DEF AppWrites, Dir
<1>4. ASSUME NEW o \in Ops, CreateBegin(o) PROVE IInv'
  BY <1>4, MakeDataType DEF CreateBegin
<1>5. ASSUME NEW o \in Ops, RestoreBegin(o) PROVE IInv'
  BY <1>5 DEF RestoreBegin
<1>6. ASSUME NEW o \in Ops, Finish(o) PROVE IInv'
  <2>1. cur' \in Dir \cup {NoDir} /\ svc' \in BOOLEAN
    BY <1>6, MakeDataType DEF Finish
  <2>2. pc' = [pc EXCEPT ![o] = "done"] \/ pc' = [pc EXCEPT ![o] = "unstarted"]
    BY <1>6 DEF Finish
  <2>3. part' = [part EXCEPT ![o] = NoDir] /\ Forget(o) /\ UNCHANGED <<stored, index, old>>
    BY <1>6 DEF Finish
  <2> QED
    BY <2>1, <2>2, <2>3 DEF Forget
<1>7. ASSUME NEW o \in Ops, Crash(o) PROVE IInv'
  BY <1>7 DEF Crash, Forget
<1>8. ASSUME NEW o \in Ops, StopFails(o) PROVE IInv'
  BY <1>8 DEF StopFails, Forget
<1>9. CASE UNCHANGED vars
  BY <1>9 DEF vars
<1> QED
  BY <1>1, <1>2, <1>3, <1>4, <1>5, <1>6, <1>7, <1>8, <1>9, CreateStep, RestoreStep DEF Next

\* In every reachable state the backups have their shape, the index and the entries in
\* memory name backups in place, and restores hold their data where they should.
THEOREM Invariance == Spec => []IInv
  BY InitIInv, NextIInv, PTL DEF Spec

\* A restore has a backup in hand, and an archive or a staging directory where it uses one.
THEOREM Types == Spec => []TypeOK
<1>1. IInv => TypeOK
  BY DEF IInv
<1> QED
  BY <1>1, Invariance, PTL

\* Every backup in the index can be restored.
THEOREM IndexIsSound == Spec => []IndexedIsStored
<1>1. IInv => IndexedIsStored
  BY DEF IInv, Indexed, IndexedIsStored
<1> QED
  BY <1>1, Invariance, PTL

\* No step loses the data that a restore has set aside.
THEOREM DataIsKept == Spec => SetAsideIsNeverLost
<1> DEFINE Kept == \A o \in Ops : old[o] # NoDir /\ old'[o] = NoDir => cur' = old[o] \/ part[o] = NoDir
<1>1. ASSUME IInv, [Next]_vars PROVE [Kept]_vars
  <2> SUFFICES ASSUME NEW o \in Ops, old[o] # NoDir, old'[o] = NoDir
               PROVE  cur' = old[o] \/ part[o] = NoDir
    OBVIOUS
  <2>1. old' # old
    OBVIOUS
  <2>2. PICK p \in Ops : RestoreAside(p) \/ RestoreUndo(p) \/ RestoreDrop(p)
    <3> USE DEF opVars, Goto
    <3>1. ASSUME NEW p \in Ops, Create(p) PROVE FALSE
      BY <2>1, <3>1 DEF Create, CreateCheck, Check, CreateStop, StopService, CreateList, CreateRead,
         CreateReadFails, CreatePublish, CreateVerify, CreateLoad, CreateSave, CreateError
    <3>2. ASSUME NEW p \in Ops, Restore(p) PROVE RestoreAside(p) \/ RestoreUndo(p) \/ RestoreDrop(p)
      BY <2>1, <3>2 DEF Restore, RestoreCheck, Check, RestoreStop, StopService, RestoreExtract,
         RestoreSwap, RestoreSwapFails, RestoreCleanup, RestoreError
    <3> QED
      BY <1>1, <2>1, <3>1, <3>2 DEF Next, vars, ServiceStarts, ServiceStops, AppWrites,
         CreateBegin, RestoreBegin, StopFails, Finish, Crash
  <2>3. CASE RestoreAside(p)
    <3>1. old[p] = NoDir
      BY <1>1, <2>3 DEF RestoreAside, Goto, IInv, Swapped
    <3> QED
      BY <1>1, <2>3, <3>1 DEF RestoreAside, IInv, TypeOK
  <2>4. CASE RestoreUndo(p)
    BY <1>1, <2>4 DEF RestoreUndo, IInv, TypeOK
  <2>5. CASE RestoreDrop(p)
    BY <1>1, <2>5 DEF RestoreDrop, Goto, IInv, TypeOK, Swapped
  <2> QED
    BY <2>2, <2>3, <2>4, <2>5
<1> QED
  BY <1>1, Invariance, PTL DEF Spec, SetAsideIsNeverLost

-----------------------------------------------------------------------------
(* Backups implements AtomicData *)

\* Users take turns, and nobody kills a command.
InTurn == Serial /\ ~Crashes

\* At most one command runs.
OneActive == \A o, p \in Ops : Active(o) /\ Active(p) => o = p

\* A command that is past its stop works on data that nobody changes.
Frozen == \A o \in Ops :
    pc[o] \in {"list", "read", "extract", "aside", "swap", "undo", "drop"} => ~svc

\* What is archived so far, and what is staged.
Copied == \A o \in Ops :
    /\ pc[o] = "read" => \A f \in Files :
        IF f \in todo[o] THEN Exists(f)
        ELSE part[o][f] = IF cur = NoDir THEN Absent ELSE cur[f]
    /\ pc[o] \in {"aside", "swap"} => part[o] = stored[pick[o]]

\* Data is set aside only while its command swaps directories.
Swapping == \A o \in Ops :
    /\ old[o] # NoDir => pc[o] \in {"swap", "undo", "drop"}
    /\ pc[o] \in {"swap", "undo"} => cur = NoDir
    /\ pc[o] = "drop" => cur # NoDir

TurnInv == IInv /\ OneActive /\ Frozen /\ Copied /\ Swapping

-----------------------------------------------------------------------------

\* Before the first command nothing is copied or set aside.
LEMMA InitTurnInv == Init => TurnInv
  BY InitIInv DEF Init, TurnInv, OneActive, Frozen, Copied, Swapping, Active

\* When a user gives a command, or starts or stops the service, no command runs.
LEMMA NobodyElse ==
    ASSUME InTurn, TurnInv, MyTurn
    PROVE  /\ \A o \in Ops : pc[o] \in {"idle"} \cup FinalPcs
           /\ \A o \in Ops : old[o] = NoDir
  BY DEF InTurn, TurnInv, MyTurn, Active, Swapping, FinalPcs

\* While one command runs, the others do not.
LEMMA TheOthersRest ==
    ASSUME TurnInv, NEW o \in Ops, Active(o), NEW p \in Ops, p # o
    PROVE  pc[p] \in {"idle"} \cup FinalPcs /\ old[p] = NoDir
  BY DEF TurnInv, OneActive, Active, Swapping, FinalPcs

\* A step of a create command preserves the invariant.
LEMMA CreateTurn ==
    ASSUME InTurn, TurnInv, IInv', NEW o \in Ops, Create(o)
    PROVE  TurnInv'
<1>1. Active(o)
  BY DEF Create, CreateCheck, Check, CreateStop, StopService, CreateList, CreateRead, CreateReadFails,
     CreatePublish, CreateVerify, CreateLoad, CreateSave, CreateError, Goto, Active, FinalPcs
<1>2. \A p \in Ops \ {o} : pc[p] \in {"idle"} \cup FinalPcs /\ old[p] = NoDir
  BY <1>1, TheOthersRest
<1> USE DEF TurnInv, IInv, TypeOK, OneActive, Active, Frozen, Copied, Swapping, opVars, Goto, FinalPcs
<1>3. CASE CreateCheck(o)
  BY <1>2, <1>3 DEF CreateCheck, Check
<1>4. CASE CreateStop(o)
  BY <1>2, <1>4 DEF CreateStop, StopService
<1>5. CASE CreateList(o)
  BY <1>2, <1>5 DEF CreateList, Exists, Empty
<1>6. CASE CreateRead(o)
  <2>1. PICK f \in todo[o] :
            /\ Exists(f)
            /\ part' = [part EXCEPT ![o][f] = cur[f]]
            /\ todo' = [todo EXCEPT ![o] = @ \ {f}]
    BY <1>6 DEF CreateRead
  <2>2. part[o] \in Dir /\ f \in Files
    BY <1>6 DEF CreateRead
  <2>3. part'[o] = [part[o] EXCEPT ![f] = cur[f]] /\ todo'[o] = todo[o] \ {f}
    BY <2>1
  <2>4. \A g \in Files : IF g \in todo'[o] THEN Exists(g)
                         ELSE part'[o][g] = IF cur = NoDir THEN Absent ELSE cur[g]
    BY <1>6, <2>1, <2>2, <2>3 DEF CreateRead, Exists, Dir
  <2>5. UNCHANGED <<svc, cur, stored, pc, old, pick>> /\ pc[o] = "read"
    BY <1>6 DEF CreateRead
  <2> QED
    BY <1>2, <2>1, <2>4, <2>5 DEF Exists
<1>7. CASE CreateReadFails(o)
  BY <1>2, <1>7 DEF CreateReadFails
<1>8. CASE CreatePublish(o)
  BY <1>2, <1>8 DEF CreatePublish
<1>9. CASE CreateVerify(o)
  BY <1>2, <1>9 DEF CreateVerify
<1>10. CASE CreateLoad(o)
  BY <1>2, <1>10 DEF CreateLoad
<1>11. CASE CreateSave(o)
  BY <1>2, <1>11 DEF CreateSave
<1>12. CASE CreateError(o)
  BY <1>2, <1>12 DEF CreateError
<1> QED
  BY <1>3, <1>4, <1>5, <1>6, <1>7, <1>8, <1>9, <1>10, <1>11, <1>12 DEF Create

\* A step of a restore command preserves the invariant.
LEMMA RestoreTurn ==
    ASSUME InTurn, TurnInv, IInv', NEW o \in Ops, Restore(o)
    PROVE  TurnInv'
<1>1. Active(o)
  BY DEF Restore, RestoreCheck, Check, RestoreStop, StopService, RestoreExtract, RestoreAside,
     RestoreSwap, RestoreSwapFails, RestoreUndo, RestoreDrop, RestoreCleanup, RestoreError,
     Goto, Active, FinalPcs
<1>2. \A p \in Ops \ {o} : pc[p] \in {"idle"} \cup FinalPcs /\ old[p] = NoDir
  BY <1>1, TheOthersRest
<1> USE DEF TurnInv, IInv, TypeOK, OneActive, Active, Frozen, Copied, Swapping, opVars, Goto, FinalPcs
<1>3. CASE RestoreCheck(o)
  BY <1>2, <1>3 DEF RestoreCheck, Check
<1>4. CASE RestoreStop(o)
  BY <1>2, <1>4 DEF RestoreStop, StopService
<1>5. CASE RestoreExtract(o)
  BY <1>2, <1>5 DEF RestoreExtract
<1>6. CASE RestoreAside(o)
  BY <1>2, <1>6 DEF RestoreAside
<1>7. CASE RestoreSwap(o)
  BY <1>2, <1>7 DEF RestoreSwap
<1>8. CASE RestoreSwapFails(o)
  BY <1>2, <1>8 DEF RestoreSwapFails
<1>9. CASE RestoreUndo(o)
  BY <1>2, <1>9 DEF RestoreUndo
<1>10. CASE RestoreDrop(o)
  BY <1>2, <1>10 DEF RestoreDrop
<1>11. CASE RestoreCleanup(o)
  BY <1>2, <1>11 DEF RestoreCleanup
<1>12. CASE RestoreError(o)
  BY <1>2, <1>12 DEF RestoreError
<1> QED
  BY <1>3, <1>4, <1>5, <1>6, <1>7, <1>8, <1>9, <1>10, <1>11, <1>12 DEF Restore

\* Every step of users who take turns preserves the invariant.
LEMMA NextTurnInv == InTurn /\ TurnInv /\ [Next]_vars => TurnInv'
<1> SUFFICES ASSUME InTurn, TurnInv, [Next]_vars PROVE TurnInv'
  OBVIOUS
<1>1. IInv'
  BY NextIInv DEF TurnInv
<1> USE <1>1 DEF TurnInv, IInv, TypeOK, OneActive, Active, Frozen, Copied, Swapping, opVars, Goto, FinalPcs
<1>2. CASE ServiceStarts
  BY <1>2, NobodyElse DEF ServiceStarts
<1>3. CASE ServiceStops
  BY <1>3, NobodyElse DEF ServiceStops
<1>4. ASSUME NEW f \in Files, AppWrites(f) PROVE TurnInv'
  BY <1>4 DEF AppWrites, Exists
<1>5. ASSUME NEW o \in Ops, CreateBegin(o) PROVE TurnInv'
  BY <1>5, NobodyElse DEF CreateBegin
<1>6. ASSUME NEW o \in Ops, RestoreBegin(o) PROVE TurnInv'
  BY <1>6, NobodyElse DEF RestoreBegin
<1>7. ASSUME NEW o \in Ops, Finish(o) PROVE TurnInv'
  <2>1. pc[o] = "finally" /\ old[o] = NoDir
    BY <1>7 DEF Finish
  <2>2. \A p \in Ops \ {o} : pc[p] \in {"idle"} \cup FinalPcs /\ old[p] = NoDir
    BY <2>1, TheOthersRest
  <2>3. pc' = [pc EXCEPT ![o] = "done"] \/ pc' = [pc EXCEPT ![o] = "unstarted"]
    BY <1>7 DEF Finish
  <2>4. \A p \in Ops : pc'[p] \in {"idle"} \cup FinalPcs /\ old'[p] = NoDir
    BY <1>7, <2>1, <2>2, <2>3 DEF Finish
  <2> QED
    BY <1>1, <2>4
<1>8. ASSUME NEW o \in Ops, Crash(o) PROVE FALSE
  BY <1>8 DEF Crash, InTurn
<1>9. ASSUME NEW o \in Ops, StopFails(o) PROVE TurnInv'
  BY <1>9, TheOthersRest DEF StopFails, Forget
<1>10. CASE UNCHANGED vars
  BY <1>10 DEF vars, Exists
<1> QED
  BY <1>2, <1>3, <1>4, <1>5, <1>6, <1>7, <1>8, <1>9, <1>10, CreateTurn, RestoreTurn DEF Next

-----------------------------------------------------------------------------

\* What the refinement calls the data, in its three cases.
LEMMA DataInPlace == cur # NoDir => Data = cur
  BY DEF Data

\* Only one command has set data aside.
LEMMA DataAside ==
    ASSUME cur = NoDir, NEW o \in Ops, old[o] # NoDir,
           \A p \in Ops \ {o} : old[p] = NoDir
    PROVE  Data = old[o]
<1>1. (CHOOSE p \in Ops : old[p] # NoDir) = o
  OBVIOUS
<1> QED
  BY <1>1 DEF Data

\* No directory at all is an empty one.
LEMMA DataNone == cur = NoDir /\ (\A o \in Ops : old[o] = NoDir) => Data = Empty
  BY DEF Data

\* Making a data directory for an app changes nothing, unless data is set aside.
LEMMA MakeDataStutters ==
    ASSUME MakeData, \A o \in Ops : old[o] = NoDir, NullsAreNew
    PROVE  cur' # NoDir /\ cur' = Data
<1>1. Empty # NoDir
  BY EmptyIsDir DEF Dir, NullsAreNew
<1> QED
  BY <1>1 DEF MakeData, Data

\* It depends on nothing else.
LEMMA DataStays == UNCHANGED <<cur, old>> => Data' = Data
  BY DEF Data

\* The steps of a create command: publishing is taking a backup.
LEMMA CreateRefines ==
    ASSUME InTurn, TurnInv, NEW o \in Ops, Create(o)
    PROVE  [Abstract!Next]_<<svc, Data, stored>>
<1> USE DEF Abstract!Next, TurnInv, IInv, TypeOK, opVars, Goto
<1>1. CASE CreateStop(o)
  BY <1>1 DEF CreateStop, StopService, Abstract!Switch, Data
<1>2. CASE CreatePublish(o)
  <2>1. pc[o] = "read" /\ todo[o] = {} /\ stored' = [stored EXCEPT ![o] = part[o]]
        /\ UNCHANGED <<svc, cur, old>>
    BY <1>2 DEF CreatePublish
  <2>2. \A p \in Ops : old[p] = NoDir
    BY <2>1, TheOthersRest DEF Swapping, Active, FinalPcs
  <2>3. part[o] \in Dir /\ Data \in Dir
    BY <2>1, <2>2, DataInPlace, DataNone, EmptyIsDir
  <2>4. \A f \in Files : part[o][f] = Data[f]
    BY <2>1, <2>2, DataInPlace, DataNone DEF Copied, Empty
  <2>5. part[o] = Data
    BY <2>3, <2>4 DEF Dir
  <2>6. Data' = Data
    BY <2>1 DEF Data
  <2> QED
    BY <2>1, <2>5, <2>6 DEF Abstract!Backup
<1>3. CASE CreateCheck(o) \/ CreateList(o) \/ CreateRead(o) \/ CreateReadFails(o)
             \/ CreateVerify(o) \/ CreateLoad(o) \/ CreateSave(o) \/ CreateError(o)
  <2>1. UNCHANGED <<svc, cur, old, stored>>
    BY <1>3 DEF CreateCheck, Check, CreateList, CreateRead, CreateReadFails, CreateVerify,
       CreateLoad, CreateSave, CreateError
  <2> QED
    BY <2>1, DataStays
<1> QED
  BY <1>1, <1>2, <1>3 DEF Create

\* The steps of a restore command: swapping is restoring.
LEMMA RestoreRefines ==
    ASSUME InTurn, TurnInv, TurnInv', NEW o \in Ops, Restore(o)
    PROVE  [Abstract!Next]_<<svc, Data, stored>>
<1> USE DEF Abstract!Next, TurnInv, IInv, TypeOK, opVars, Goto
<1>1. CASE RestoreStop(o)
  BY <1>1 DEF RestoreStop, StopService, Abstract!Switch, Data
<1>2. CASE RestoreAside(o)
  <2>1. pc[o] = "aside" /\ old' = [old EXCEPT ![o] = cur] /\ cur' = NoDir
        /\ UNCHANGED <<svc, stored>>
    BY <1>2 DEF RestoreAside
  <2>2. \A p \in Ops : old[p] = NoDir
    BY <2>1, TheOthersRest DEF Swapping, Active, FinalPcs
  <2>3. old'[o] = cur /\ \A p \in Ops \ {o} : old'[p] = NoDir
    BY <2>1, <2>2
  <2>4. CASE cur = NoDir
    BY <2>1, <2>2, <2>4 DEF Data
  <2>5. CASE cur # NoDir
    <3>1. (CHOOSE p \in Ops : old'[p] # NoDir) = o
      BY <2>3, <2>5
    <3>2. Data' = cur
      BY <2>1, <2>3, <2>5, <3>1 DEF Data
    <3> QED
      BY <2>1, <2>5, <3>2, DataInPlace
  <2> QED
    BY <2>4, <2>5
<1>3. CASE RestoreSwap(o)
  <2>1. pc[o] = "swap" /\ cur' = part[o] /\ UNCHANGED <<svc, stored>>
    BY <1>3 DEF RestoreSwap
  <2>2. part[o] = stored[pick[o]] /\ pick[o] \in Ops /\ part[o] # NoDir /\ ~svc
    BY <2>1 DEF Copied, Frozen, RestorePcs
  <2>3. Data' = part[o]
    BY <2>1, <2>2 DEF Data
  <2> QED
    BY <2>1, <2>2, <2>3 DEF Abstract!Restore
<1>4. CASE RestoreUndo(o)
  <2>1. pc[o] = "undo" /\ cur = NoDir /\ UNCHANGED <<svc, stored>>
    BY <1>4 DEF RestoreUndo, Swapping
  <2>2. \A p \in Ops \ {o} : old[p] = NoDir
    BY <2>1, TheOthersRest DEF Active, FinalPcs
  <2>3. CASE old[o] = NoDir
    BY <1>4, <2>1, <2>3 DEF RestoreUndo, Data
  <2>4. CASE old[o] # NoDir
    BY <1>4, <2>1, <2>2, <2>4, DataAside DEF RestoreUndo, Data
  <2> QED
    BY <2>3, <2>4
<1>5. CASE RestoreDrop(o)
  BY <1>5 DEF RestoreDrop, Swapping, Data
<1>6. CASE RestoreCheck(o) \/ RestoreExtract(o) \/ RestoreSwapFails(o) \/ RestoreCleanup(o)
             \/ RestoreError(o)
  <2>1. UNCHANGED <<svc, cur, old, stored>>
    BY <1>6 DEF RestoreCheck, Check, RestoreExtract, RestoreSwapFails, RestoreCleanup,
       RestoreError
  <2> QED
    BY <2>1, DataStays
<1> QED
  BY <1>1, <1>2, <1>3, <1>4, <1>5, <1>6 DEF Restore

\* Every step of users who take turns is one of AtomicData, or none.
LEMMA NextRefines ==
    InTurn /\ TurnInv /\ TurnInv' /\ [Next]_vars => [Abstract!Next]_<<svc, Data, stored>>
<1> SUFFICES ASSUME InTurn, TurnInv, TurnInv', [Next]_vars
             PROVE  [Abstract!Next]_<<svc, Data, stored>>
  OBVIOUS
<1> USE DEF Abstract!Next, TurnInv, IInv, TypeOK, opVars, Goto
<1>1. CASE ServiceStarts
  <2>1. \A o \in Ops : old[o] = NoDir
    BY <1>1, NobodyElse DEF ServiceStarts
  <2>2. cur' # NoDir /\ cur' = Data
    BY <1>1, <2>1, MakeDataStutters, NullsAreNew DEF ServiceStarts
  <2> QED
    BY <1>1, <2>2 DEF ServiceStarts, Abstract!Switch, Data
<1>2. CASE ServiceStops
  BY <1>2 DEF ServiceStops, Abstract!Switch, Data
<1>3. ASSUME NEW f \in Files, AppWrites(f) PROVE Abstract!Next
  <2>1. PICK v \in Versions \cup {Absent} : cur' = [cur EXCEPT ![f] = v]
    BY <1>3 DEF AppWrites
  <2>2. cur \in Dir /\ cur # NoDir /\ cur' \in Dir /\ svc /\ UNCHANGED <<svc, stored>>
    BY <1>3, <2>1 DEF AppWrites, Dir
  <2>3. Data = cur /\ Data' = cur'
    BY <2>2, NullsAreNew DEF Data, Dir, NullsAreNew
  <2> QED
    BY <2>1, <2>2, <2>3 DEF Abstract!Write
<1>4. ASSUME NEW o \in Ops, CreateBegin(o) PROVE UNCHANGED <<svc, Data, stored>>
  <2>1. \A p \in Ops : old[p] = NoDir
    BY <1>4, NobodyElse DEF CreateBegin
  <2>2. cur' # NoDir /\ cur' = Data
    BY <1>4, <2>1, MakeDataStutters, NullsAreNew DEF CreateBegin
  <2> QED
    BY <1>4, <2>2 DEF CreateBegin, Data
<1>5. ASSUME NEW o \in Ops, RestoreBegin(o) PROVE UNCHANGED <<svc, Data, stored>>
  BY <1>5 DEF RestoreBegin, Data
<1>6. ASSUME NEW o \in Ops, Finish(o) PROVE [Abstract!Next]_<<svc, Data, stored>>
  <2>1. \A p \in Ops : old[p] = NoDir
    BY <1>6, TheOthersRest DEF Finish, Swapping, Active, FinalPcs
  <2>2. UNCHANGED <<stored, old>> /\ svc' \in BOOLEAN
    BY <1>6 DEF Finish
  <2>3. UNCHANGED cur \/ MakeData
    BY <1>6 DEF Finish
  <2>4. Data' = Data
    BY <2>1, <2>2, <2>3, MakeDataStutters, NullsAreNew DEF Data
  <2> QED
    BY <2>2, <2>4 DEF Abstract!Switch
<1>7. ASSUME NEW o \in Ops, Crash(o) PROVE FALSE
  BY <1>7 DEF Crash, InTurn
<1>8. ASSUME NEW o \in Ops, StopFails(o) PROVE [Abstract!Next]_<<svc, Data, stored>>
  BY <1>8 DEF StopFails, Abstract!Switch, Data
<1>9. CASE UNCHANGED vars
  BY <1>9 DEF vars, Data
<1> QED
  BY <1>1, <1>2, <1>3, <1>4, <1>5, <1>6, <1>7, <1>8, <1>9, CreateRefines, RestoreRefines DEF Next

\* For users who take turns, a backup is the data of one moment and a restore replaces
\* the data in one moment, whatever fails on the way (backups.py 372-490).
THEOREM BackupsAreAtomic ==
    ASSUME InTurn
    PROVE  Spec => ImplementsAtomicData
<1>1. Init => Abstract!Init
  BY DEF Init, Abstract!Init, Data, Empty
<1>2. TurnInv /\ [Next]_vars => TurnInv'
  BY NextTurnInv
<1>3. TurnInv /\ TurnInv' /\ [Next]_vars => [Abstract!Next]_<<svc, Data, stored>>
  BY NextRefines
<1> QED
  BY <1>1, <1>2, <1>3, InitTurnInv, PTL DEF Spec, ImplementsAtomicData, Abstract!Spec
=============================================================================

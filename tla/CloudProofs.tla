---------------------------- MODULE CloudProofs ----------------------------
(***************************************************************************)
(* Proofs about CloudService and CloudAgent, for every finite set of       *)
(* agents, every set of backups, any number of commands and faults.        *)
(***************************************************************************)
EXTENDS CloudAgent, FiniteSetTheorems, TLAPS

USE IdsAreNoAges, FaultsAreBounded, ClientsAreAgentsAndUser, NoIdIsNew, TimesAreNatural

\* A request whose stage moves on, or that is answered, is a request.
LEMMA AdvanceType ==
    ASSUME ServiceTypeOK, NEW q \in reqs, NEW s \in Stages, Advance(q, s) \/ Answer(q, s)
    PROVE  reqs' \subseteq Request
<1>1. [q EXCEPT !.stage = s] \in Request
  BY DEF ServiceTypeOK, Request
<1> QED
  BY <1>1 DEF ServiceTypeOK, Advance, Answer

\* So is a request that is sent, aged or abandoned.
LEMMA ClientType ==
    ASSUME ServiceTypeOK, NEW c \in Clients,
           \/ SendStatus(c) \/ (\E b \in Ids : SendBackup(c, b)) \/ (\E q \in reqs : Receive(c, q))
           \/ Broken(c) \/ GiveUp(c) \/ (Abandon(c) /\ faults' \in Nat)
    PROVE  ServiceTypeOK'
<1> USE DEF ServiceTypeOK
<1>1. CASE SendStatus(c)
  <2>1. \A q \in reqs : Aged(q) \in Request
    BY DEF Aged, Request, Ages
  <2>2. Arrives(c, "new") \subseteq Request
    <3>1. "new" \in Ages \cup Ids /\ "sent" \in Stages
      BY DEF Ages, Stages
    <3>2. [from |-> c, item |-> "new", stage |-> "sent", alive |-> TRUE] \in Request
      BY <3>1 DEF Request
    <3> QED
      BY <3>2 DEF Arrives
  <2> QED
    BY <1>1, <2>1, <2>2 DEF SendStatus, Ages
<1>2. ASSUME NEW b \in Ids, SendBackup(c, b) PROVE ServiceTypeOK'
  <2>1. Arrives(c, b) \subseteq Request
    <3>1. b \in Ages \cup Ids /\ "sent" \in Stages
      BY DEF Ages, Stages
    <3>2. [from |-> c, item |-> b, stage |-> "sent", alive |-> TRUE] \in Request
      BY <3>1 DEF Request
    <3> QED
      BY <3>2 DEF Arrives
  <2> QED
    BY <1>2, <2>1 DEF SendBackup
<1>3. CASE \E q \in reqs : Receive(c, q)
  BY <1>3 DEF Receive
<1>4. CASE Broken(c)
  BY <1>4 DEF Broken, serviceVars
<1>5. ASSUME Abandon(c), faults' \in Nat PROVE ServiceTypeOK'
  <2>1. \A q \in reqs : [q EXCEPT !.alive = FALSE] \in Request
    BY DEF Request
  <2> QED
    BY <1>5, <2>1 DEF Abandon, Pending
<1>6. CASE GiveUp(c)
  BY <1>5, <1>6 DEF GiveUp, Fault
<1>7. CASE Abandon(c) /\ faults' \in Nat
  BY <1>5, <1>7
<1> QED
  BY <1>1, <1>2, <1>3, <1>4, <1>6, <1>7

\* The server keeps the types.
LEMMA ServerType == ASSUME ServiceTypeOK, Server PROVE ServiceTypeOK'
<1> USE DEF ServiceTypeOK
<1>1. ASSUME NEW q \in reqs, PutStatus(q) PROVE ServiceTypeOK'
  BY <1>1, AdvanceType DEF PutStatus, Stages, Answers, Ages
<1>2. ASSUME NEW q \in reqs, UploadCheck(q) PROVE ServiceTypeOK'
  BY <1>2, AdvanceType DEF UploadCheck, Stages, Answers
<1>3. ASSUME NEW q \in reqs, UploadReplace(q) PROVE ServiceTypeOK'
  BY <1>3, AdvanceType DEF UploadReplace, Stages, IsStatus, Request
<1>4. ASSUME NEW q \in reqs, UploadInsert(q) PROVE ServiceTypeOK'
  BY <1>4, AdvanceType DEF UploadInsert, Stages, Answers, IsStatus, Request
<1>5. ASSUME NEW q \in reqs, UploadDropped(q) \/ Lost(q) PROVE ServiceTypeOK'
  BY <1>5 DEF UploadDropped, Lost
<1>6. ASSUME NEW q \in reqs, Refused(q) PROVE ServiceTypeOK'
  BY <1>6, AdvanceType DEF Refused, Stages, Answers, Fault
<1>7. CASE ServerCrash
  <2>1. faults' \in Nat
    BY <1>7 DEF ServerCrash, Fault
  <2>2. reqs' \subseteq Request /\ up' \in BOOLEAN
    BY <1>7 DEF ServerCrash
  <2> QED
    BY <1>7, <2>1, <2>2 DEF ServerCrash
<1>8. CASE ServerStart
  BY <1>8 DEF ServerStart
<1> QED
  BY <1>1, <1>2, <1>3, <1>4, <1>5, <1>6, <1>7, <1>8 DEF Server, Serve

\* A failed sync or upload keeps the types of the service.
LEMMA UnansweredType ==
    ASSUME ServiceTypeOK, NEW c \in Clients, Unanswered(c) PROVE ServiceTypeOK'
  BY ClientType DEF Unanswered

\* The wait after a failure is a number, and bounded however many have failed.
LEMMA BackoffType ==
    ASSUME NEW n \in Nat, n > 0 PROVE Backoff(n) \in Waits
<1> DEFINE table == <<1, 2, 4, 8, 16, 32>>
<1>1. Lesser(n, 6) \in 1..6
  BY DEF Lesser
<1>2. \A i \in 1..6 : table[i] \in Nat
  OBVIOUS
<1>3. Factor(n) \in Nat
  BY <1>1, <1>2 DEF Factor
<1>4. Interval \in Nat /\ MaxBackoff \in Nat
  OBVIOUS
<1>5. \A i, j \in Nat : i * j \in Nat
  OBVIOUS
<1>6. Interval * Factor(n) \in Nat
  BY <1>3, <1>4, <1>5
<1>7. Backoff(n) \in Nat /\ Backoff(n) <= MaxBackoff
  BY <1>4, <1>6 DEF Backoff, Lesser
<1> QED
  BY <1>4, <1>7 DEF Waits

\* The other waits are bounded too.
LEMMA WaitType ==
    /\ Waits \subseteq Nat /\ 0 \in Waits /\ Interval \in Waits
    /\ \A w \in Waits : w > 0 => w - 1 \in Waits
  BY DEF Waits

\* The types hold at first.
LEMMA InitType == Init => TypeOK
<1> SUFFICES ASSUME Init PROVE TypeOK
  OBVIOUS
<1>1. ServiceTypeOK
  BY DEF Init, ServiceInit, ServiceTypeOK
<1>2. wait \in [Agents -> Waits]
  BY WaitType DEF Init
<1>3. failures \in [Agents -> Nat] /\ given \in Nat
  BY DEF Init
<1>4. \A a \in Agents : apc[a] = "unborn"
  BY DEF Init
<1> QED
  BY <1>1, <1>2, <1>3, <1>4 DEF Init, TypeOK, Apcs, Upcs

\* A process that has ended holds nothing.
LEMMA ForgetType ==
    ASSUME TypeOK, NEW a \in Agents, Forget(a)
    PROVE  /\ stop' \in [Agents -> BOOLEAN]
           /\ failures' \in [Agents -> Nat]
           /\ wait' \in [Agents -> Waits]
           /\ job' \in [Agents -> Ids \cup {NoId}]
           /\ \A o \in Agents \ {a} : job'[o] = job[o]
  BY WaitType DEF Forget, TypeOK

\* So does one that records that a backup has failed.
LEMMA RecordFailureType ==
    ASSUME TypeOK, NEW a \in Agents, RecordFailure(a)
    PROVE  /\ good' \in [Agents -> Ids \cup {NoId}]
           /\ job' \in [Agents -> Ids \cup {NoId}]
           /\ \A o \in Agents \ {a} : job'[o] = job[o]
           /\ wait' \in [Agents -> Waits]
           /\ file' = a /\ running' = TRUE
  BY WaitType DEF RecordFailure, Save, TypeOK

\* A step of an agent keeps the types.
LEMMA RunType == ASSUME TypeOK, NEW a \in Agents, Run(a) PROVE TypeOK'
<1> USE DEF TypeOK, Goto, Save, userVars
<1>0. a \in Clients /\ ServiceTypeOK
  OBVIOUS
<1>1. CASE Boot(a)
  BY <1>1 DEF Boot, serviceVars, ServiceTypeOK, Apcs
<1>2. CASE End(a)
  BY <1>2 DEF End, serviceVars, ServiceTypeOK, Apcs
<1>3. CASE NotDue(a)
  BY <1>3 DEF NotDue, serviceVars, ServiceTypeOK, Apcs
<1>4. CASE Sync(a)
  <2>1. ServiceTypeOK'
    BY <1>0, <1>4, ClientType DEF Sync
  <2> QED
    BY <1>4, <2>1 DEF Sync, Apcs
<1>5. CASE Synced(a)
  <2>1. ServiceTypeOK'
    BY <1>0, <1>5, ClientType DEF Synced
  <2> QED
    BY <1>5, <2>1, WaitType DEF Synced, Apcs
<1>6. CASE SyncFails(a)
  <2>1. ServiceTypeOK'
    BY <1>0, <1>6, UnansweredType DEF SyncFails
  <2>2. failures'[a] \in Nat \ {0} /\ failures' \in [Agents -> Nat]
    BY <1>6, BackoffsAreToldApart DEF SyncFails, Lesser
  <2>3. Backoff(failures'[a]) \in Waits
    BY <2>2, BackoffType
  <2>4. wait' \in [Agents -> Waits]
    BY <1>6, <2>3 DEF SyncFails
  <2> QED
    BY <1>6, <2>1, <2>2, <2>4 DEF SyncFails, Apcs
<1>7. CASE Sleep(a)
  <2>1. wait' \in [Agents -> Waits]
    BY <1>7, WaitType DEF Sleep
  <2> QED
    BY <1>7, <2>1 DEF Sleep, serviceVars, ServiceTypeOK, Apcs
<1>8. CASE BackupBegin(a)
  BY <1>8 DEF BackupBegin, serviceVars, ServiceTypeOK, Apcs
<1>9. CASE Copy(a)
  <2>1. job[a] \in Ids
    BY <1>9 DEF Copy
  <2> QED
    BY <1>9, <2>1 DEF Copy, serviceVars, ServiceTypeOK, Apcs
<1>10. CASE CopyFails(a)
  BY <1>10 DEF CopyFails, Fault, ServiceTypeOK, Apcs
<1>11. CASE Restart(a)
  <2>1. svc' \in {"up", "held", "off"} /\ was' \in [Agents -> BOOLEAN]
    BY <1>11 DEF Restart
  <2>2. ServiceTypeOK'
    BY <1>11 DEF Restart, serviceVars, ServiceTypeOK
  <2>3. CASE apc' = [apc EXCEPT ![a] = "send"] /\ UNCHANGED <<file, running, wait, job, good>>
    BY <1>11, <2>1, <2>2, <2>3 DEF Restart, Apcs
  <2>4. CASE apc' = [apc EXCEPT ![a] = "top"] /\ RecordFailure(a)
    <3>1. /\ good' \in [Agents -> Ids \cup {NoId}] /\ job' \in [Agents -> Ids \cup {NoId}]
          /\ \A o \in Agents \ {a} : job'[o] = job[o]
          /\ wait' \in [Agents -> Waits] /\ file' = a /\ running' = TRUE
      BY <2>4, RecordFailureType
    <3> QED
      BY <1>11, <2>1, <2>2, <2>4, <3>1 DEF Restart, Apcs
  <2> QED
    BY <1>11, <2>3, <2>4 DEF Restart
<1>12. CASE Upload(a)
  <2>1. job[a] \in Ids
    BY <1>12 DEF Upload
  <2>2. ServiceTypeOK'
    BY <1>0, <1>12, <2>1, ClientType DEF Upload
  <2> QED
    BY <1>12, <2>1, <2>2 DEF Upload, Apcs
<1>13. CASE Uploaded(a)
  <2>1. job[a] \in Ids
    BY <1>13 DEF Uploaded
  <2>2. ServiceTypeOK'
    BY <1>0, <1>13, ClientType DEF Uploaded
  <2>3. wait' \in [Agents -> Waits]
    BY <1>13, WaitType DEF Uploaded
  <2> QED
    BY <1>13, <2>1, <2>2, <2>3 DEF Uploaded, Apcs
<1>14. CASE UploadFails(a)
  <2>1. ServiceTypeOK'
    BY <1>0, <1>14, UnansweredType DEF UploadFails
  <2> QED
    BY <1>14, <2>1, RecordFailureType DEF UploadFails, Apcs
<1>15. CASE EndByError(a)
  <2>1. ServiceTypeOK'
    BY <1>15 DEF EndByError, Fault, ServiceTypeOK
  <2> QED
    BY <1>15, <2>1 DEF EndByError, Apcs
<1>16. CASE Exit(a)
  BY <1>16, ForgetType DEF Exit, serviceVars, ServiceTypeOK, Apcs
<1>17. CASE BackupStopFails(a)
  <2>1. ServiceTypeOK'
    BY <1>17 DEF BackupStopFails, Fault, ServiceTypeOK
  <2> QED
    BY <1>17, <2>1, RecordFailureType DEF BackupStopFails, Apcs
<1> QED
  BY <1>1, <1>2, <1>3, <1>4, <1>5, <1>6, <1>7, <1>8, <1>9, <1>10, <1>11, <1>12, <1>13, <1>14,
     <1>15, <1>16, <1>17 DEF Run

\* The death of an agent keeps the types.
LEMMA DieType == ASSUME TypeOK, NEW a \in Agents, Die(a) PROVE TypeOK'
<1>1. ServiceTypeOK'
  <2>1. faults' \in Nat
    BY DEF Die, Fault, TypeOK, ServiceTypeOK
  <2> QED
    BY <2>1, ClientType DEF Die, TypeOK
<1> QED
  BY <1>1, ForgetType DEF Die, TypeOK, Apcs, userVars

\* A step of a command keeps the types.
LEMMA ObeyType == ASSUME TypeOK, Obey PROVE TypeOK'
<1> USE DEF TypeOK, Continue, Save, agentVars
<1>0. User \in Clients /\ ServiceTypeOK
  OBVIOUS
<1>1. CASE StartEnds
  BY <1>1 DEF StartEnds, serviceVars, ServiceTypeOK, Upcs
<1>2. CASE StopSees
  BY <1>2 DEF StopSees, serviceVars, ServiceTypeOK, Upcs
<1>3. CASE StopKills
  <2>1. target \in Agents
    BY <1>3 DEF StopKills, Alive
  <2>2. ServiceTypeOK'
    BY <1>0, <1>3, <2>1, ClientType DEF StopKills, ServiceTypeOK
  <2> QED
    BY <1>3, <2>1, <2>2, ForgetType DEF StopKills, Upcs, Apcs
<1>4. CASE StopReload
  BY <1>4 DEF StopReload, serviceVars, ServiceTypeOK, Upcs
<1>5. CASE StopMark
  BY <1>5 DEF StopMark, serviceVars, ServiceTypeOK, Upcs
<1>6. CASE UserHears
  <2>1. ServiceTypeOK'
    BY <1>0, <1>6, ClientType DEF UserHears
  <2> QED
    BY <1>6, <2>1 DEF UserHears, Upcs
<1> QED
  BY <1>1, <1>2, <1>3, <1>4, <1>5, <1>6 DEF Obey

\* A command keeps the types.
LEMMA CommandType ==
    ASSUME TypeOK, Start \/ Stop \/ UserSends \/ StartTimesOut PROVE TypeOK'
<1> USE DEF TypeOK, Command, agentVars
<1>0. User \in Clients /\ ServiceTypeOK
  OBVIOUS
<1>1. CASE Start
  BY <1>1 DEF Start, serviceVars, ServiceTypeOK, Upcs, Apcs
<1>2. CASE Stop
  BY <1>2 DEF Stop, serviceVars, ServiceTypeOK, Upcs
<1>3. CASE UserSends
  <2>1. ServiceTypeOK'
    BY <1>0, <1>3, ClientType DEF UserSends
  <2> QED
    BY <1>3, <2>1 DEF UserSends, Upcs
<1>4. CASE StartTimesOut
  <2>1. target \in Agents
    BY <1>4 DEF StartTimesOut
  <2> QED
    BY <1>4, <2>1 DEF StartTimesOut, Fault, ServiceTypeOK, Upcs
<1> QED
  BY <1>1, <1>2, <1>3, <1>4

\* A step that changes nothing, too.
LEMMA StutterType == TypeOK /\ UNCHANGED vars => TypeOK'
  BY DEF TypeOK, ServiceTypeOK, vars, serviceVars, agentVars, userVars

\* Every variable of the service, the agents and the commands has its type: in
\* particular a record is only ever saved for, and a signal sent to, an agent.
THEOREM CloudTypes == Spec => []TypeOK
<1>1. TypeOK /\ [Next]_vars => TypeOK'
  <2> SUFFICES ASSUME TypeOK, Next PROVE TypeOK'
    BY StutterType
  <2>1. CASE Server /\ UNCHANGED <<agentVars, userVars>>
    BY <2>1, ServerType DEF TypeOK, agentVars, userVars
  <2> QED
    BY <2>1, RunType, DieType, ObeyType, CommandType DEF Next
<1> QED
  BY <1>1, InitType, PTL DEF Spec

-----------------------------------------------------------------------------
(* What the service answers and what it keeps *)

\* What a client, or its end, does to the service.
Client(c) ==
    \/ SendStatus(c) \/ (\E b \in Ids : SendBackup(c, b))
    \/ (\E q \in reqs : Receive(c, q))
    \/ (Abandon(c) /\ faults' \in {faults, faults + 1})

\* The service's share of a step.
ServiceStep ==
    \/ Server
    \/ \E c \in Clients : Client(c)
    \/ UNCHANGED <<up, objects, rows, latest, reqs>> /\ faults' \in {faults, faults + 1}

\* The service sees of the agents and the user what it sees of any clients.
LEMMA NextIsServiceStep == ASSUME TypeOK, [Next]_vars PROVE ServiceStep
<1> USE DEF ServiceStep, Client
<1>1. \A c \in Clients : Unanswered(c) => ServiceStep
  BY DEF Unanswered, Broken, GiveUp, Fault, serviceVars
<1>2. ASSUME NEW a \in Agents, Run(a) PROVE ServiceStep
  <2>1. a \in Clients
    OBVIOUS
  <2>2. CASE Sync(a) \/ Synced(a)
    BY <2>1, <2>2 DEF Sync, Synced
  <2>3. CASE Upload(a) \/ Uploaded(a)
    <3>1. Upload(a) => job[a] \in Ids
      BY DEF TypeOK, Upload, Goto
    <3> QED
      BY <2>1, <2>3, <3>1 DEF Upload, Uploaded
  <2>4. CASE SyncFails(a) \/ UploadFails(a)
    BY <1>1, <2>1, <2>4 DEF SyncFails, UploadFails
  <2>5. CASE Boot(a) \/ End(a) \/ Exit(a) \/ NotDue(a) \/ Sleep(a) \/ BackupBegin(a)
             \/ Copy(a) \/ Restart(a)
    BY <2>5 DEF Boot, End, Exit, NotDue, Sleep, BackupBegin, Copy, Restart, serviceVars
  <2>6. CASE EndByError(a) \/ BackupStopFails(a) \/ CopyFails(a)
    BY <2>6 DEF EndByError, BackupStopFails, CopyFails, Fault
  <2> QED
    BY <1>2, <2>2, <2>3, <2>4, <2>5, <2>6 DEF Run
<1>3. ASSUME NEW a \in Agents, Die(a) PROVE ServiceStep
  BY <1>3 DEF Die, Fault
<1>4. CASE Obey
  <2>1. CASE StartEnds \/ StopSees \/ StopReload \/ StopMark
    BY <2>1 DEF StartEnds, StopSees, StopReload, StopMark, serviceVars
  <2>2. CASE StopKills
    BY <2>2 DEF StopKills, Continue, TypeOK
  <2>3. CASE UserHears
    BY <2>3 DEF UserHears, Broken, GiveUp, Fault, serviceVars
  <2> QED
    BY <1>4, <2>1, <2>2, <2>3 DEF Obey
<1>5. CASE Start \/ Stop \/ UserSends \/ StartTimesOut
  BY <1>5 DEF Start, Stop, UserSends, StartTimesOut, Fault, serviceVars, TypeOK
<1>6. CASE UNCHANGED vars
  BY <1>6 DEF vars, serviceVars
<1> QED
  BY <1>2, <1>3, <1>4, <1>5, <1>6 DEF Next

\* An upload passes from its destination's check to its row with a backup's id, and
\* its file is in place before the row.
Uploading ==
    \A q \in reqs :
        /\ q.stage \in {"receive", "insert"} => q.item \in Ids
        /\ q.stage = "insert" => q.item \in objects

Truth == AnswersAreTrue /\ Uploading

Kept == rows \subseteq rows' /\ objects \subseteq objects'

\* The server's steps preserve the truth of its answers, and what it keeps.
LEMMA ServerTruth == ASSUME ServiceTypeOK, Truth, Server PROVE Truth' /\ Kept
<1> USE DEF Truth, AnswersAreTrue, Uploading, Kept
<1>1. ASSUME NEW q \in reqs, PutStatus(q) PROVE Truth' /\ Kept
  BY <1>1 DEF PutStatus, Answer, IsStatus, ServiceTypeOK, Request, Ages
<1>2. ASSUME NEW q \in reqs, UploadCheck(q) PROVE Truth' /\ Kept
  BY <1>2 DEF UploadCheck, Answer, Advance, IsStatus, ServiceTypeOK, Request
<1>3. ASSUME NEW q \in reqs, UploadReplace(q) PROVE Truth' /\ Kept
  BY <1>3 DEF UploadReplace, Advance, ServiceTypeOK, Request
<1>4. ASSUME NEW q \in reqs, UploadInsert(q) PROVE Truth' /\ Kept
  BY <1>4 DEF UploadInsert, Answer, ServiceTypeOK, Request, Ages
<1>5. ASSUME NEW q \in reqs, UploadDropped(q) \/ Lost(q) PROVE Truth' /\ Kept
  BY <1>5 DEF UploadDropped, Lost
<1>6. ASSUME NEW q \in reqs, Refused(q) PROVE Truth' /\ Kept
  BY <1>6 DEF Refused, Answer, ServiceTypeOK, Request
<1>7. CASE ServerCrash \/ ServerStart
  BY <1>7 DEF ServerCrash, ServerStart
<1> QED
  BY <1>1, <1>2, <1>3, <1>4, <1>5, <1>6, <1>7 DEF Server, Serve

\* So do the clients' steps.
LEMMA ClientTruth ==
    ASSUME ServiceTypeOK, Truth, NEW c \in Clients, Client(c) PROVE Truth' /\ Kept
<1> USE DEF Truth, AnswersAreTrue, Uploading, Kept
<1>1. CASE SendStatus(c)
  <2>1. \A q \in reqs' : \/ \E r \in reqs : q = Aged(r)
                         \/ q.stage = "sent"
    BY <1>1 DEF SendStatus, Arrives
  <2>2. \A r \in reqs : /\ Aged(r).stage = r.stage
                        /\ Aged(r).item # "new"
                        /\ Aged(r).item \in Ids => Aged(r).item = r.item
                        /\ r.item \in Ids => Aged(r).item = r.item
    BY DEF Aged, ServiceTypeOK, Request, Ages
  <2>3. \A r \in reqs : r.stage = "exists" => r.item \in Ids
    BY DEF ServiceTypeOK
  <2> QED
    BY <1>1, <2>1, <2>2, <2>3 DEF SendStatus, ServiceTypeOK
<1>2. ASSUME NEW b \in Ids, SendBackup(c, b) PROVE Truth' /\ Kept
  BY <1>2 DEF SendBackup, Arrives
<1>3. CASE \E q \in reqs : Receive(c, q)
  BY <1>3 DEF Receive
<1>4. CASE Abandon(c)
  <2>1. \A q \in reqs' : \E r \in reqs : q.stage = r.stage /\ q.item = r.item
    BY <1>4 DEF Abandon, Pending, ServiceTypeOK, Request
  <2> QED
    BY <1>4, <2>1 DEF Abandon
<1> QED
  BY <1>1, <1>2, <1>3, <1>4 DEF Client

\* So does every step of the whole.
LEMMA StepTruth == ASSUME TypeOK, Truth, [Next]_vars PROVE Truth' /\ Kept
<1>1. ServiceTypeOK
  BY DEF TypeOK
<1>2. CASE UNCHANGED <<up, objects, rows, latest, reqs>>
  BY <1>2 DEF Truth, AnswersAreTrue, Uploading, Kept
<1> QED
  BY <1>1, <1>2, NextIsServiceStep, ServerTruth, ClientTruth DEF ServiceStep

\* What the service lists it can return, and what it answered is so, with any number
\* of overlapping uploads, abandoned requests and crashes.
THEOREM ServiceIsTruthful == Spec => []AnswersAreTrue
<1>1. Init => Truth
  BY DEF Init, ServiceInit, Truth, AnswersAreTrue, Uploading
<1>2. TypeOK /\ Truth /\ [Next]_vars => Truth'
  BY StepTruth
<1>3. Truth => AnswersAreTrue
  BY DEF Truth
<1> QED
  BY <1>1, <1>2, <1>3, CloudTypes, PTL DEF Spec

-----------------------------------------------------------------------------
(* What an agent's record says *)

\* An agent that waits has sent the one request it waits for; any other agent, and one
\* that has ended, has none.
Waiting ==
    \A q \in reqs :
        q.alive /\ q.from \in Agents =>
            /\ q.item \in Ages => apc[q.from] = "syncing"
            /\ q.item \in Ids => apc[q.from] = "uploading" /\ q.item = job[q.from]
            /\ \A r \in reqs : r.alive /\ r.from = q.from => r = q

\* No request of an agent that is elsewhere waits for its answer.
LEMMA ElsewhereIsQuiet ==
    ASSUME TypeOK, Waiting, NEW a \in Agents, apc[a] \notin {"syncing", "uploading"}
    PROVE  \A q \in reqs : q.alive => q.from # a
  BY DEF Waiting, TypeOK, ServiceTypeOK, Request

\* After its answer, its failure or its end a client has no request that waits.
LEMMA UnansweredIsQuiet ==
    ASSUME TypeOK, Waiting, NEW a \in Agents,
           (\E q \in reqs : Receive(a, q)) \/ Unanswered(a) \/ Abandon(a)
    PROVE  \A q \in reqs' : q.alive => q \in reqs /\ q.from # a
<1>1. ASSUME NEW q \in reqs, Receive(a, q) PROVE \A r \in reqs' : r.alive => r \in reqs /\ r.from # a
  BY <1>1 DEF Receive, Pending, Waiting
<1>2. CASE Abandon(a)
  BY <1>2 DEF Abandon, Pending, TypeOK, ServiceTypeOK, Request
<1>3. CASE Broken(a)
  BY <1>3 DEF Broken, Pending, serviceVars
<1> QED
  BY <1>1, <1>2, <1>3 DEF Unanswered, GiveUp

\* Where one agent has no request that waits, and nothing else happens to the others.
LEMMA QuietStep ==
    ASSUME TypeOK, Waiting, NEW a \in Agents,
           \A q \in reqs' : q.alive => q \in reqs /\ q.from # a,
           \A o \in Agents \ {a} : apc'[o] = apc[o] /\ job'[o] = job[o]
    PROVE  Waiting'
  BY DEF Waiting

\* The steps of an agent.
LEMMA RunWaiting == ASSUME TypeOK, Waiting, NEW a \in Agents, Run(a) PROVE Waiting'
<1> USE DEF Goto
<1>1. CASE Sync(a)
  <2>1. \A q \in reqs : q.alive => q.from # a
    BY <1>1, ElsewhereIsQuiet DEF Sync
  <2>2. \A q \in reqs' : q \in Arrives(a, "new") \/ \E r \in reqs : q = Aged(r)
    BY <1>1 DEF Sync, SendStatus
  <2>3. \A q \in Arrives(a, "new") : q.from = a /\ q.item = "new"
    BY DEF Arrives
  <2>7. \A q, r \in Arrives(a, "new") : q = r
    BY DEF Arrives
  <2>4. \A r \in reqs : /\ Aged(r).from = r.from
                        /\ Aged(r).alive = r.alive
                        /\ Aged(r).item \in Ages <=> r.item \in Ages
                        /\ Aged(r).item \in Ids => Aged(r).item = r.item
    BY DEF Aged, TypeOK, ServiceTypeOK, Request, Ages
  <2>5. apc' = [apc EXCEPT ![a] = "syncing"] /\ job' = job /\ apc \in [Agents -> Apcs]
    BY <1>1 DEF Sync, TypeOK
  <2>6. "new" \notin Ids
    BY DEF Ages
  <2> QED
    BY <2>1, <2>2, <2>3, <2>4, <2>5, <2>6, <2>7 DEF Waiting
<1>2. CASE Upload(a)
  <2>1. \A q \in reqs : q.alive => q.from # a
    BY <1>2, ElsewhereIsQuiet DEF Upload
  <2>2. job[a] \in Ids /\ job[a] \notin Ages
    BY <1>2 DEF Upload, TypeOK
  <2>3. \A q \in reqs' : q \in Arrives(a, job[a]) \/ q \in reqs
    BY <1>2 DEF Upload, SendBackup
  <2>4. \A q \in Arrives(a, job[a]) : q.from = a /\ q.item = job[a]
    BY DEF Arrives
  <2>5. \A q, r \in Arrives(a, job[a]) : q = r
    BY DEF Arrives
  <2>6. apc' = [apc EXCEPT ![a] = "uploading"] /\ job' = job /\ apc \in [Agents -> Apcs]
    BY <1>2 DEF Upload, TypeOK
  <2> QED
    BY <2>1, <2>2, <2>3, <2>4, <2>5, <2>6 DEF Waiting
<1>3. CASE Synced(a) \/ Uploaded(a)
  <2>1. \A q \in reqs' : q.alive => q \in reqs /\ q.from # a
    BY <1>3, UnansweredIsQuiet DEF Synced, Uploaded
  <2>2. \A o \in Agents \ {a} : apc'[o] = apc[o] /\ job'[o] = job[o]
    BY <1>3 DEF Synced, Uploaded, TypeOK
  <2> QED
    BY <2>1, <2>2, QuietStep
<1>4. CASE SyncFails(a) \/ UploadFails(a)
  <2>1. \A q \in reqs' : q.alive => q \in reqs /\ q.from # a
    BY <1>4, UnansweredIsQuiet DEF SyncFails, UploadFails
  <2>2. \A o \in Agents \ {a} : apc'[o] = apc[o] /\ job'[o] = job[o]
    BY <1>4, RecordFailureType DEF SyncFails, UploadFails, TypeOK
  <2> QED
    BY <2>1, <2>2, QuietStep
<1>5. CASE Boot(a) \/ End(a) \/ EndByError(a) \/ Exit(a) \/ NotDue(a) \/ Sleep(a)
           \/ BackupBegin(a) \/ BackupStopFails(a) \/ Copy(a) \/ CopyFails(a) \/ Restart(a)
  <2> USE DEF Boot, End, EndByError, Exit, NotDue, Sleep, BackupBegin, BackupStopFails, Copy,
              CopyFails, Restart
  <2>1. apc[a] \notin {"syncing", "uploading"} /\ reqs' = reqs
    BY <1>5 DEF serviceVars
  <2>2. \A q \in reqs' : q.alive => q \in reqs /\ q.from # a
    BY <2>1, ElsewhereIsQuiet
  <2>3. \A o \in Agents \ {a} : apc'[o] = apc[o]
    BY <1>5 DEF TypeOK
  <2>4. \A o \in Agents \ {a} : job'[o] = job[o]
    BY <1>5, RecordFailureType, ForgetType DEF TypeOK
  <2> QED
    BY <2>2, <2>3, <2>4, QuietStep
<1> QED
  BY <1>1, <1>2, <1>3, <1>4, <1>5 DEF Run

\* The steps of the server.
LEMMA ServerWaiting ==
    ASSUME TypeOK, Waiting, Server, UNCHANGED <<apc, job>> PROVE Waiting'
<1> USE DEF TypeOK, ServiceTypeOK, Request
<1>1. ASSUME NEW q \in reqs, NEW s \in Stages, Advance(q, s) \/ Answer(q, s) PROVE Waiting'
  <2>1. /\ [q EXCEPT !.stage = s].from = q.from
        /\ [q EXCEPT !.stage = s].item = q.item
        /\ [q EXCEPT !.stage = s].alive = q.alive
    OBVIOUS
  <2> QED
    BY <1>1, <2>1 DEF Advance, Answer, Waiting
<1>2. ASSUME reqs' \subseteq reqs PROVE Waiting'
  BY <1>2 DEF Waiting
<1>3. ASSUME NEW q \in reqs, PutStatus(q) \/ UploadCheck(q) \/ UploadReplace(q) \/ UploadInsert(q)
      PROVE  Waiting'
  BY <1>1, <1>3 DEF PutStatus, UploadCheck, UploadReplace, UploadInsert, Stages, Answers
<1>4. ASSUME NEW q \in reqs, UploadDropped(q) \/ Lost(q) PROVE Waiting'
  BY <1>2, <1>4 DEF UploadDropped, Lost
<1>5. ASSUME NEW q \in reqs, Refused(q) PROVE Waiting'
  BY <1>1, <1>5 DEF Refused, Stages, Answers
<1>6. CASE ServerCrash \/ ServerStart
  BY <1>2, <1>6 DEF ServerCrash, ServerStart
<1> QED
  BY <1>3, <1>4, <1>5, <1>6 DEF Server, Serve

\* The commands, and the death of an agent.
LEMMA OtherWaiting ==
    ASSUME TypeOK, Waiting,
           (\E a \in Agents : Die(a)) \/ Start \/ Stop \/ UserSends \/ StartTimesOut \/ Obey
    PROVE  Waiting'
<1>1. ASSUME NEW a \in Agents, Abandon(a), apc' = [apc EXCEPT ![a] = "dead"], Forget(a)
      PROVE  Waiting'
  <2>1. \A o \in Agents \ {a} : apc'[o] = apc[o] /\ job'[o] = job[o]
    BY <1>1, ForgetType DEF TypeOK
  <2> QED
    BY <1>1, <2>1, UnansweredIsQuiet, QuietStep
<1>2. ASSUME NEW a \in Agents, Die(a) PROVE Waiting'
  BY <1>1, <1>2 DEF Die
<1>3. CASE StopKills
  <2>1. target \in Agents
    BY <1>3 DEF StopKills, Continue, TypeOK
  <2> QED
    BY <1>1, <1>3, <2>1 DEF StopKills
<1>4. CASE Start
  <2>1. PICK a \in Agents : apc[a] = "unborn" /\ apc' = [apc EXCEPT ![a] = "boot"]
    BY <1>4 DEF Start
  <2>2. \A q \in reqs' : q.alive => q \in reqs /\ q.from # a
    BY <1>4, <2>1, ElsewhereIsQuiet DEF Start, serviceVars
  <2>3. \A o \in Agents \ {a} : apc'[o] = apc[o] /\ job'[o] = job[o]
    BY <1>4, <2>1 DEF Start, TypeOK
  <2> QED
    BY <2>2, <2>3, QuietStep
<1>5. CASE UserSends
  <2>1. CASE SendStatus(User)
    <3>1. \A r \in reqs : /\ Aged(r).from = r.from
                          /\ Aged(r).alive = r.alive
                          /\ Aged(r).item \in Ages <=> r.item \in Ages
                          /\ Aged(r).item \in Ids => Aged(r).item = r.item
      BY DEF Aged, TypeOK, ServiceTypeOK, Request, Ages
    <3>2. \A q \in reqs' : q.from = User \/ \E r \in reqs : q = Aged(r)
      BY <2>1 DEF SendStatus, Arrives
    <3> QED
      BY <1>5, <3>1, <3>2 DEF UserSends, Waiting, agentVars
  <2>2. CASE \E b \in created : SendBackup(User, b)
    BY <1>5, <2>2 DEF UserSends, SendBackup, Arrives, Waiting, agentVars
  <2> QED
    BY <1>5, <2>1, <2>2 DEF UserSends
<1>6. CASE UserHears
  <2>1. \A q \in reqs' : q.alive => q \in reqs
    BY <1>6 DEF UserHears, Receive, GiveUp, Abandon, Pending, Broken, serviceVars, TypeOK,
                ServiceTypeOK, Request
  <2> QED
    BY <1>6, <2>1 DEF UserHears, agentVars, Waiting
<1>7. CASE Stop \/ StartTimesOut \/ StartEnds \/ StopSees \/ StopReload \/ StopMark
  BY <1>7 DEF Stop, StartTimesOut, StartEnds, StopSees, StopReload, StopMark, serviceVars,
              agentVars, Waiting
<1> QED
  BY <1>2, <1>3, <1>4, <1>5, <1>6, <1>7 DEF Obey

\* The answer that makes an upload count is the answer to this upload.
LEMMA UploadedIsListed ==
    ASSUME TypeOK, Waiting, Truth, NEW a \in Agents, Uploaded(a)
    PROVE  job[a] \in rows \cap objects
<1>1. PICK q \in reqs : Receive(a, q) /\ q.stage = "ok"
  BY DEF Uploaded
<1>2. q.item = job[a] /\ q.item \in Ids
  BY <1>1 DEF Uploaded, Goto, Receive, Pending, Waiting, TypeOK, ServiceTypeOK, Request
<1> QED
  BY <1>1, <1>2 DEF Truth, AnswersAreTrue

\* What an agent's record calls uploaded stays stored and listed: every answer to an
\* upload is the answer to the upload it is taken for, and true.
THEOREM RecordIsTrue == Spec => []BackupOkIsListed
<1>1. Init => Waiting /\ Truth /\ BackupOkIsListed
  BY DEF Init, ServiceInit, Waiting, Truth, AnswersAreTrue, Uploading, BackupOkIsListed
<1>2. TypeOK /\ Waiting /\ [Next]_vars => Waiting'
  <2>1. ASSUME Waiting, UNCHANGED vars PROVE Waiting'
    BY <2>1 DEF vars, serviceVars, agentVars, Waiting
  <2> QED
    BY <2>1, RunWaiting, ServerWaiting, OtherWaiting DEF Next, agentVars
<1>3. TypeOK /\ Truth /\ [Next]_vars => Truth'
  BY StepTruth
<1>4. TypeOK /\ Waiting /\ Truth /\ BackupOkIsListed /\ [Next]_vars => BackupOkIsListed'
  <2> SUFFICES ASSUME TypeOK, Waiting, Truth, BackupOkIsListed, [Next]_vars
               PROVE  BackupOkIsListed'
    OBVIOUS
  <2>1. rows \cap objects \subseteq (rows \cap objects)'
    BY StepTruth DEF Kept
  <2>2. \A a \in Agents : good'[a] \in {NoId, good[a]} \cup (rows \cap objects)
    <3> USE DEF TypeOK
    <3>1. ASSUME NEW a \in Agents, Uploaded(a)
          PROVE  \A o \in Agents : good'[o] \in {NoId, good[o]} \cup (rows \cap objects)
      BY <3>1, UploadedIsListed DEF Uploaded
    <3>2. ASSUME NEW a \in Agents, Run(a), ~Uploaded(a)
          PROVE  \A o \in Agents : good'[o] \in {NoId, good[o]}
      BY <3>2 DEF Run, Boot, End, EndByError, Exit, NotDue, Sync, Synced, SyncFails, Sleep,
                  BackupBegin, BackupStopFails, Copy, CopyFails, Restart, RecordFailure, Upload,
                  UploadFails
    <3>3. CASE (\E a \in Agents : Die(a)) \/ Start \/ Stop \/ UserSends \/ StartTimesOut \/ Obey
               \/ (Server /\ UNCHANGED <<agentVars, userVars>>) \/ UNCHANGED vars
      BY <3>3 DEF Die, Start, Stop, UserSends, StartTimesOut, Obey, StartEnds, StopSees, StopKills,
                  StopReload, StopMark, UserHears, agentVars, vars
    <3> QED
      BY <3>1, <3>2, <3>3 DEF Next
  <2> QED
    BY <2>1, <2>2 DEF BackupOkIsListed
<1> QED
  BY <1>1, <1>2, <1>3, <1>4, CloudTypes, PTL DEF Spec

-----------------------------------------------------------------------------
(* Files and rows *)

\* Only an insertion gives a stored file its row, and only a fault prevents it.
LEMMA StepListed ==
    ASSUME TypeOK, StoredIsListed, [Next]_vars PROVE StoredIsListed'
<1> USE DEF StoredIsListed, TypeOK, ServiceTypeOK, Request
<1>1. ASSUME \A q \in reqs : q.stage = "insert" /\ q.item \in Ids
                => \E r \in reqs' : r.stage = "insert" /\ r.item = q.item,
             UNCHANGED <<objects, rows>>, faults' \in {faults, faults + 1}
      PROVE  StoredIsListed'
  BY <1>1
<1>2. ASSUME NEW q \in reqs, PutStatus(q) \/ UploadCheck(q) \/ UploadDropped(q) \/ Lost(q)
      PROVE  StoredIsListed'
  BY <1>1, <1>2 DEF PutStatus, UploadCheck, UploadDropped, Lost, Answer, Advance
<1>3. ASSUME NEW q \in reqs, UploadReplace(q) PROVE StoredIsListed'
  <2>1. /\ [q EXCEPT !.stage = "insert"].stage = "insert"
        /\ [q EXCEPT !.stage = "insert"].item = q.item
    OBVIOUS
  <2> QED
    BY <1>3, <2>1 DEF UploadReplace, Advance
<1>4. ASSUME NEW q \in reqs, UploadInsert(q) PROVE StoredIsListed'
  BY <1>4 DEF UploadInsert, Answer
<1>5. ASSUME Fault PROVE StoredIsListed'
  BY <1>5 DEF Fault
<1>6. CASE Server
  BY <1>1, <1>2, <1>3, <1>4, <1>5, <1>6 DEF Server, Serve, Refused, ServerCrash, ServerStart
<1>7. ASSUME NEW c \in Clients, SendStatus(c) PROVE StoredIsListed'
  <2>1. \A r \in reqs : r.item \in Ids => Aged(r) = r
    BY DEF Aged, Ages
  <2>2. \A r \in reqs : Aged(r) \in reqs'
    BY <1>7 DEF SendStatus
  <2> QED
    BY <1>1, <1>7, <2>1, <2>2 DEF SendStatus
<1>8. ASSUME NEW c \in Clients, \/ \E b \in Ids : SendBackup(c, b)
                                \/ \E q \in reqs : Receive(c, q)
      PROVE  StoredIsListed'
  BY <1>1, <1>8 DEF SendBackup, Receive, Answers
<1>9. ASSUME NEW c \in Clients, Abandon(c), faults' \in {faults, faults + 1}
      PROVE  StoredIsListed'
  <2>1. ASSUME NEW q \in reqs, q.stage = "insert"
        PROVE  \E r \in reqs' : r.stage = "insert" /\ r.item = q.item
    <3>1. CASE q \notin Pending(c)
      BY <1>9, <2>1, <3>1 DEF Abandon
    <3>2. CASE q \in Pending(c)
      <4>1. [q EXCEPT !.alive = FALSE] \in reqs'
        BY <1>9, <2>1, <3>2 DEF Abandon, Answers
      <4> QED
        BY <2>1, <4>1
    <3> QED
      BY <3>1, <3>2
  <2> QED
    BY <1>1, <1>9, <2>1 DEF Abandon
<1> QED
  BY <1>1, <1>6, <1>7, <1>8, <1>9, NextIsServiceStep DEF ServiceStep, Client

\* Without a crash or an error every stored backup is listed, or is being listed.
THEOREM StoredMeansListed == Spec => []StoredIsListed
<1>1. Init => StoredIsListed
  BY DEF Init, ServiceInit, StoredIsListed
<1> QED
  BY <1>1, StepListed, CloudTypes, PTL DEF Spec

-----------------------------------------------------------------------------
(* The agents of a project *)

\* What a step of an agent means to those who look for it in the state file.
LEMMA RunFrame ==
    ASSUME TypeOK, NEW a \in Agents, Run(a)
    PROVE  /\ Alive(a)
           /\ \A o \in Agents \ {a} : apc'[o] = apc[o]
           /\ UNCHANGED userVars
           /\ apc[a] = "exit" => apc'[a] = "dead"
           /\ \/ apc'[a] = "dead" /\ UNCHANGED <<file, running>>
              \/ apc'[a] = "exit" /\ file' = a /\ running' = FALSE
              \/ apc'[a] \notin {"unborn", "dead"} /\ file' = a /\ running' = TRUE
              \/ apc'[a] \notin {"unborn", "dead"} /\ UNCHANGED <<file, running>>
  BY DEF TypeOK, Run, Boot, End, EndByError, Exit, NotDue, Sync, Synced, SyncFails, Sleep,
         BackupBegin, BackupStopFails, Copy, CopyFails, Restart, RecordFailure, Upload, Uploaded,
         UploadFails, Goto, Save, Alive

\* As long as no start has given up on its agent, the one agent that can be alive is the
\* recorded one, or the one a start command waits for.
StopInv ==
    /\ file # NoAgent => apc[file] # "unborn"
    /\ \A a \in slow : apc[a] # "unborn"
    /\ upc \in {"starting", "stopping", "stopReload", "stopMark"} =>
         target \in Agents /\ apc[target] # "unborn"
    /\ upc = "starting" => target \notin slow
    /\ upc = "stopMark" => final \in Agents /\ apc[final] # "unborn"
    /\ upc = "stopReload" => file # NoAgent
    /\ upc = "stopping" => file # NoAgent
    /\ upc \in {"stopReload", "stopMark"} => ~Alive(target)
    /\ file # NoAgent /\ ~running => apc[file] \in {"exit", "dead"} \/ slow # {}
    /\ slow = {} =>
         /\ \A a \in Agents : Alive(a) => a = IF upc = "starting" THEN target ELSE file
         /\ upc \in {"stopping", "stopReload"} => file = target
         /\ upc = "stopMark" => \A a \in Agents : ~Alive(a)

\* Every step keeps track of the agents.
LEMMA StepStopInv == ASSUME TypeOK, StopInv, [Next]_vars PROVE StopInv'
<1> USE DEF TypeOK, StopInv, Alive
<1>1. ASSUME NEW a \in Agents, Run(a) PROVE StopInv'
  <2>1. a # NoAgent /\ Alive(a) /\ apc[a] # "unborn" /\ apc'[a] # "unborn"
    BY <1>1, RunFrame
  <2>2. \A o \in Agents \ {a} : apc'[o] = apc[o]
    BY <1>1, RunFrame
  <2>3. upc' = upc /\ target' = target /\ final' = final /\ slow' = slow
    BY <1>1, RunFrame DEF userVars
  <2>4. \/ ~Alive(a)' /\ UNCHANGED <<file, running>>
        \/ apc'[a] = "exit" /\ file' = a /\ running' = FALSE
        \/ Alive(a)' /\ file' = a /\ running' = TRUE
        \/ Alive(a)' /\ UNCHANGED <<file, running>>
    BY <1>1, RunFrame
  <2>5. \A o \in Agents : /\ Alive(o)' => Alive(o)
                          /\ apc[o] # "unborn" => apc'[o] # "unborn"
                          /\ apc[o] \in {"exit", "dead"} => apc'[o] \in {"exit", "dead"}
    BY <1>1, <2>1, <2>2, RunFrame
  <2>6. file' # NoAgent => apc'[file'] # "unborn"
    BY <2>1, <2>4, <2>5
  <2>7. file' # NoAgent /\ ~running' => apc'[file'] \in {"exit", "dead"} \/ slow' # {}
    <3>1. CASE file' = a /\ running' = FALSE /\ apc'[a] = "exit"
      BY <3>1
    <3>2. CASE UNCHANGED <<file, running>> /\ file \in Agents
      BY <2>3, <2>5, <3>2
    <3> QED
      BY <2>4, <3>1, <3>2
  <2>8. ASSUME slow = {}
        PROVE  /\ \A o \in Agents : Alive(o)' => o = IF upc = "starting" THEN target ELSE file'
               /\ upc \in {"stopping", "stopReload"} => file' = target
               /\ upc = "stopMark" => FALSE
    <3>1. a = IF upc = "starting" THEN target ELSE file
      BY <2>1, <2>8
    <3>2. \A o \in Agents : Alive(o)' => o = a
      BY <2>5, <2>8, <3>1
    <3> QED
      BY <2>1, <2>4, <2>8, <3>1, <3>2
  <2> QED
    BY <2>3, <2>4, <2>5, <2>6, <2>7, <2>8
<1>2. ASSUME NEW a \in Agents, Die(a) PROVE StopInv'
  BY <1>2 DEF Die, userVars
<1>3. CASE Start
  BY <1>3 DEF Start, Command, Recorded
<1>4. CASE StartEnds
  BY <1>4 DEF StartEnds, Continue, agentVars
<1>5. CASE StartTimesOut
  BY <1>5 DEF StartTimesOut, agentVars
<1>6. CASE Stop
  BY <1>6 DEF Stop, Command
<1>7. CASE StopSees
  BY <1>7 DEF StopSees, Continue, agentVars
<1>8. CASE StopKills
  BY <1>8 DEF StopKills, Continue
<1>9. CASE StopReload
  BY <1>9 DEF StopReload, Continue, agentVars
<1>10. CASE StopMark
  BY <1>10 DEF StopMark, Continue, Save
<1>11. CASE UserSends
  BY <1>11 DEF UserSends, Command, agentVars
<1>12. CASE UserHears
  BY <1>12 DEF UserHears, Continue, agentVars
<1>13. CASE (Server /\ UNCHANGED <<agentVars, userVars>>) \/ UNCHANGED vars
  BY <1>13 DEF vars, agentVars, userVars
<1> QED
  BY <1>1, <1>2, <1>3, <1>4, <1>5, <1>6, <1>7, <1>8, <1>9, <1>10, <1>11, <1>12, <1>13
     DEF Next, Obey

LEMMA InitStopInv == Init => StopInv
  BY DEF Init, StopInv, Alive

\* A stop ends the agent it found, and an agent whose record says "stopped" has left its
\* loop for good, unless a start gave up on its agent: with any number of agents killed or
\* ending by themselves.
THEOREM StopIsTrue == Spec => []StoppedMeansStopped
<1>1. StopInv => StoppedMeansStopped
  BY DEF StopInv, StoppedMeansStopped
<1> QED
  BY <1>1, InitStopInv, StepStopInv, CloudTypes, PTL DEF Spec

AliveSet == {a \in Agents : Alive(a)}

Lead == (file # NoAgent /\ Alive(file)) \/ (upc = "starting" /\ Alive(target))

\* While the recorded agent, or the one being started, is not alive, all that are were
\* left behind by their starts; a stop that is about to rewrite the record knows it.
CountInv ==
    /\ Cardinality(AliveSet) <= Cardinality(slow) + 1
    /\ ~Lead => Cardinality(AliveSet) <= Cardinality(slow)
    /\ upc = "stopMark" /\ ~Alive(final) => Cardinality(AliveSet) <= Cardinality(slow)

\* The sets of agents are finite.
LEMMA AgentSets ==
    ASSUME TypeOK
    PROVE  /\ IsFiniteSet(AliveSet) /\ IsFiniteSet(slow)
           /\ Cardinality(AliveSet) \in Nat /\ Cardinality(slow) \in Nat
<1>1. AliveSet \subseteq Agents /\ slow \subseteq Agents
  BY DEF AliveSet, TypeOK
<1> QED
  BY <1>1, AgentsAreFinite, FS_Subset, FS_CardinalityType

\* One more, or one fewer.
LEMMA OneBorn ==
    ASSUME TypeOK, NEW a \in Agents, ~Alive(a), apc' = [apc EXCEPT ![a] = "boot"]
    PROVE  Cardinality(AliveSet') = Cardinality(AliveSet) + 1
<1>1. AliveSet' = AliveSet \cup {a} /\ a \notin AliveSet
  BY DEF AliveSet, Alive, TypeOK
<1> QED
  BY <1>1, AgentSets, FS_AddElement

LEMMA OneDead ==
    ASSUME TypeOK, NEW a \in Agents, Alive(a), apc'[a] = "dead",
           \A o \in Agents \ {a} : apc'[o] = apc[o]
    PROVE  Cardinality(AliveSet') = Cardinality(AliveSet) - 1
<1>1. AliveSet' = AliveSet \ {a} /\ a \in AliveSet
  BY DEF AliveSet, Alive, TypeOK
<1> QED
  BY <1>1, AgentSets, FS_RemoveElement

\* Every step keeps count.
LEMMA StepCountInv == ASSUME TypeOK, StopInv, CountInv, [Next]_vars PROVE CountInv'
<1> DEFINE n == Cardinality(AliveSet)
           m == Cardinality(slow)
<1>0. n \in Nat /\ m \in Nat
  BY AgentSets
<1>1. ASSUME NEW a \in Agents, Run(a) PROVE CountInv'
  <2>1. CASE apc'[a] = "dead"
    <3>1. n' = n - 1 /\ m' = m
      BY <1>1, <2>1, RunFrame, OneDead DEF userVars
    <3> QED
      BY <1>0, <3>1 DEF CountInv
  <2>2. CASE apc'[a] # "dead"
    <3>1. AliveSet' = AliveSet /\ m' = m /\ Alive(a) /\ Alive(a)'
      BY <1>1, <2>2, RunFrame DEF AliveSet, Alive, userVars
    <3>2. \A o \in Agents : Alive(o)' <=> Alive(o)
      BY <1>1, <2>2, <3>1, RunFrame DEF Alive
    <3>3. Lead => Lead'
      BY <1>1, <3>1, <3>2, RunFrame DEF Lead, StopInv, TypeOK, userVars
    <3>4. upc' = upc /\ final' = final
      BY <1>1, RunFrame DEF userVars
    <3>5. upc = "stopMark" => (Alive(final)' <=> Alive(final))
      BY <3>2, <3>4 DEF StopInv
    <3> QED
      BY <3>1, <3>3, <3>4, <3>5 DEF CountInv
  <2> QED
    BY <2>1, <2>2
<1>2. ASSUME NEW a \in Agents, Alive(a), apc' = [apc EXCEPT ![a] = "dead"], slow' = slow
      PROVE  CountInv'
  <2>1. n' = n - 1 /\ m' = m
    BY <1>2, OneDead DEF TypeOK
  <2> QED
    BY <1>0, <2>1 DEF CountInv
<1>3. ASSUME NEW a \in Agents, Die(a) PROVE CountInv'
  BY <1>2, <1>3 DEF Die, userVars
<1>4. CASE StopKills
  BY <1>2, <1>4 DEF StopKills, Continue, TypeOK
<1>5. CASE Start
  <2>1. PICK a \in Agents : apc[a] = "unborn" /\ apc' = [apc EXCEPT ![a] = "boot"] /\ target' = a
    BY <1>5 DEF Start
  <2>2. n' = n + 1 /\ m' = m
    BY <1>5, <2>1, OneBorn DEF Start, Alive
  <2>3. ~Lead
    BY <1>5 DEF Start, Command, Recorded, Lead
  <2>4. Lead' /\ upc' = "starting"
    BY <1>5, <2>1 DEF Start, Command, Lead, Alive, TypeOK
  <2> QED
    BY <1>0, <2>2, <2>3, <2>4 DEF CountInv
<1>6. CASE StartTimesOut
  <2>1. target \in Agents /\ target \notin slow
    BY <1>6 DEF StartTimesOut, StopInv
  <2>2. m' = m + 1
    BY <1>6, <2>1, AgentSets, FS_AddElement DEF StartTimesOut
  <2>3. n' = n /\ upc' = "idle"
    BY <1>6 DEF StartTimesOut, agentVars, AliveSet, Alive
  <2> QED
    BY <1>0, <2>2, <2>3 DEF CountInv
<1>7. ASSUME UNCHANGED <<apc, slow>> PROVE n' = n /\ m' = m /\ \A o : Alive(o)' <=> Alive(o)
  BY <1>7 DEF AliveSet, Alive
<1>8. CASE StartEnds
  <2>1. target \in Agents /\ target # NoAgent
    BY <1>8 DEF StartEnds, Continue, StopInv
  <2>2. Lead => Lead'
    BY <1>7, <1>8, <2>1 DEF StartEnds, Continue, agentVars, Lead, Alive
  <2>3. upc' = "idle"
    BY <1>8 DEF StartEnds, Continue
  <2>4. UNCHANGED <<apc, slow>>
    BY <1>8 DEF StartEnds, Continue, agentVars
  <2> QED
    BY <1>7, <2>2, <2>3, <2>4 DEF CountInv
<1>9. CASE Stop
  BY <1>7, <1>9 DEF Stop, Command, agentVars, Lead, CountInv, Alive
<1>10. CASE StopSees
  BY <1>7, <1>10 DEF StopSees, Continue, agentVars, Lead, CountInv, Alive
<1>11. CASE StopReload
  BY <1>7, <1>11 DEF StopReload, Continue, agentVars, Lead, CountInv, Alive
<1>12. CASE StopMark
  <2>1. final \in Agents /\ final # NoAgent
    BY <1>12 DEF StopMark, Continue, StopInv
  <2>2. upc' = "idle" /\ file' = final /\ UNCHANGED <<apc, slow>>
    BY <1>12 DEF StopMark, Continue, Save
  <2>3. Alive(final) => Lead'
    BY <2>1, <2>2 DEF Lead, Alive
  <2>4. ~Alive(final) => n <= m
    BY <1>12 DEF StopMark, Continue, CountInv
  <2> QED
    BY <1>7, <2>2, <2>3, <2>4 DEF CountInv
<1>13. CASE UserSends
  BY <1>7, <1>13 DEF UserSends, Command, agentVars, Lead, CountInv, Alive
<1>14. CASE UserHears
  BY <1>7, <1>14 DEF UserHears, Continue, agentVars, Lead, CountInv, Alive
<1>15. CASE (Server /\ UNCHANGED <<agentVars, userVars>>) \/ UNCHANGED vars
  BY <1>7, <1>15 DEF vars, agentVars, userVars, Lead, CountInv, Alive
<1> QED
  BY <1>1, <1>3, <1>4, <1>5, <1>6, <1>8, <1>9, <1>10, <1>11, <1>12, <1>13, <1>14, <1>15
     DEF Next, Obey

\* A project has at most one agent more than starts have given up on.
THEOREM OneAgentPerStart == Spec => []AgentsAreAccountedFor
<1>1. Init => CountInv
  <2> SUFFICES ASSUME Init PROVE CountInv
    OBVIOUS
  <2>1. AliveSet = {} /\ slow = {} /\ upc = "idle"
    BY DEF Init, AliveSet, Alive
  <2>2. Cardinality(AliveSet) = 0 /\ Cardinality(slow) = 0
    BY <2>1, FS_EmptySet
  <2> QED
    BY <2>1, <2>2 DEF CountInv
<1>2. CountInv => AgentsAreAccountedFor
  BY DEF CountInv, AgentsAreAccountedFor, AliveSet
<1> QED
  BY <1>1, <1>2, InitStopInv, StepStopInv, StepCountInv, CloudTypes, PTL DEF Spec

-----------------------------------------------------------------------------
(* The app and the cloud *)

\* Only a copy that is being made, and one whose agent was killed, has stopped the app,
\* and the app waits for nothing else.
HoldInv ==
    /\ \A a \in Agents : was[a] => apc[a] \in {"copy", "restart", "dead"}
    /\ svc = "held" => \E a \in Agents : was[a]

\* The steps of an agent.
LEMMA RunHoldInv == ASSUME TypeOK, HoldInv, NEW a \in Agents, Run(a) PROVE HoldInv'
<1> USE DEF TypeOK, HoldInv, Goto
<1>1. CASE BackupBegin(a)
  <2>1. ~was[a]
    BY <1>1 DEF BackupBegin
  <2>2. was'[a] <=> svc = "up"
    BY <1>1 DEF BackupBegin
  <2>3. \A o \in Agents \ {a} : was'[o] = was[o] /\ apc'[o] = apc[o]
    BY <1>1 DEF BackupBegin
  <2>4. apc'[a] = "copy" /\ (svc' = "held" => svc \in {"up", "held"})
    BY <1>1 DEF BackupBegin
  <2> QED
    BY <2>1, <2>2, <2>3, <2>4
<1>2. CASE Restart(a)
  <2>1. ~was'[a]
    BY <1>2 DEF Restart
  <2>2. \A o \in Agents \ {a} : was'[o] = was[o] /\ apc'[o] = apc[o]
    BY <1>2 DEF Restart
  <2>3. svc' = "held" => svc = "held" /\ ~was[a]
    BY <1>2 DEF Restart
  <2> QED
    BY <2>1, <2>2, <2>3
<1>3. CASE Copy(a) \/ CopyFails(a)
  BY <1>3 DEF Copy, CopyFails
<1>4. ASSUME apc[a] \notin {"copy", "restart", "dead"}, svc' = "held" => svc = "held", was' = was,
             \A o \in Agents \ {a} : apc'[o] = apc[o]
      PROVE  HoldInv'
  BY <1>4
<1>5. CASE Boot(a) \/ End(a) \/ EndByError(a) \/ Exit(a) \/ NotDue(a) \/ Sync(a) \/ Synced(a)
           \/ SyncFails(a) \/ Sleep(a) \/ BackupStopFails(a) \/ Upload(a) \/ Uploaded(a)
           \/ UploadFails(a)
  BY <1>4, <1>5 DEF Boot, End, EndByError, Exit, NotDue, Sync, Synced, SyncFails, Sleep,
                    BackupStopFails, Upload, Uploaded, UploadFails
<1> QED
  BY <1>1, <1>2, <1>3, <1>5 DEF Run

\* The app never waits for the cloud, whatever fails or is killed: an agent sends nothing
\* before the app it has stopped is started again.
THEOREM CloudDoesNotHoldTheApp == Spec => []AppDoesNotWaitForCloud
<1>1. Init => HoldInv
  BY DEF Init, HoldInv
<1>2. TypeOK /\ HoldInv /\ [Next]_vars => HoldInv'
  <2> SUFFICES ASSUME TypeOK, HoldInv, [Next]_vars PROVE HoldInv'
    OBVIOUS
  <2>1. ASSUME UNCHANGED <<svc, was>>,
               \A a \in Agents : apc'[a] = apc[a] \/ apc'[a] = "dead" \/ apc[a] = "unborn"
        PROVE  HoldInv'
    BY <2>1 DEF HoldInv
  <2>2. ASSUME NEW a \in Agents, Die(a) PROVE HoldInv'
    BY <2>1, <2>2 DEF Die, TypeOK
  <2>3. CASE Start \/ Stop \/ UserSends \/ StartTimesOut
    BY <2>1, <2>3 DEF Start, Stop, UserSends, StartTimesOut, agentVars, TypeOK
  <2>4. CASE Obey
    BY <2>1, <2>4 DEF Obey, StartEnds, StopSees, StopKills, StopReload, StopMark, UserHears,
                      agentVars, TypeOK
  <2>5. CASE (Server /\ UNCHANGED <<agentVars, userVars>>) \/ UNCHANGED vars
    BY <2>1, <2>5 DEF agentVars, vars
  <2> QED
    BY <2>2, <2>3, <2>4, <2>5, RunHoldInv DEF Next
<1>3. HoldInv => AppDoesNotWaitForCloud
  BY DEF HoldInv, AppDoesNotWaitForCloud
<1> QED
  BY <1>1, <1>2, <1>3, CloudTypes, PTL DEF Spec
=============================================================================

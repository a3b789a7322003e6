--------------------------- MODULE WorkspaceTurns ---------------------------
(***************************************************************************)
(* What holds as long as the commands take turns: nobody types one while   *)
(* another one runs.  For every number of terminals, projects, ports and   *)
(* files: a rollback restores and can be undone, registered projects have  *)
(* different ports, the login entry is what service.json says, and no      *)
(* record of a snapshot, a service or a publication is lost.               *)
(*                                                                         *)
(* There are three invariants, one for each file that a command reads,     *)
(* extends and writes back, and each has its table of facts.  In addition  *)
(* to what a command needs, its outline says what it leaves behind when it *)
(* ends; so does what is said of a project in which no command runs.       *)
(***************************************************************************)
EXTENDS WorkspaceTypes

-----------------------------------------------------------------------------
(* Turns *)

\* As long as no two commands have overlapped, one runs at a time.
Single == ~overlapped => \A t, u \in Terminals : Busy(t) /\ Busy(u) => t = u

\* No command runs in project p.
Idle(p) == \A t \in Terminals : Busy(t) => In(t) # p

\* Who else takes a step takes it alone.
LEMMA TurnOf ==
    ASSUME Typed, Single, ~overlapped, NEW t \in Terminals, Acts(t)
    PROVE  /\ ~overlapped' /\ Single' /\ Busy(t) /\ In(t)' = In(t) /\ In(t) \in Projects
           /\ cmd' = cmd /\ count' = count /\ (faults' = 0 => faults = 0) /\ faults \in Nat
           /\ \A u \in Terminals : Busy(u)' => u = t
           /\ \A q \in Projects : q # In(t) => Idle(q)
           /\ Busy(t)' \/ agenda'[t] = <<>>
           /\ \A q \in Projects : Idle(q)' => q # In(t) \/ agenda'[t] = <<>>
<1>1. PICK x, m : Do(t, x, m) \/ Quit(t, x) \/ Fails(t, x, m)
  BY DEF Acts
<1>2. faults \in Nat
  BY FaultsAreNatural DEF Typed, TypeOK, TerminalsTypeOK
<1>3. Busy(t) /\ overlapped' = overlapped /\ (faults' = 0 => faults = 0)
  BY <1>1, <1>2 DEF Do, Quit, Fails, At
<1>4. /\ cmd' = cmd /\ count' = count /\ In(t) \in Projects
      /\ \A u \in Terminals : u # t => agenda'[u] = agenda[u]
  BY TerminalsGo
<1>5. \A u \in Terminals : Busy(u) => u = t
  BY <1>3 DEF Single
<1>6. \A u \in Terminals : Busy(u)' => u = t
  BY <1>4, <1>5 DEF Busy
<1>7. In(t)' = In(t)
  BY <1>4 DEF In
<1> QED
  BY <1>2, <1>3, <1>4, <1>5, <1>6, <1>7 DEF Single, Idle, Busy

\* A step that is done, and puts the steps m in front of the rest.
LEMMA Turn ==
    ASSUME Typed, NEW t \in Terminals, NEW T, NEW F \in SUBSET DOMAIN T, NEW P, NEW G,
           Outline(agenda[t], F, P, T), NEW x, NEW m, Do(t, x, m),
           Outline(m, G, After(F, x, T), T)
    PROVE  Outline(agenda'[t], G, P, T)
<1>1. agenda[t] # <<>> /\ Head(agenda[t]) = x /\ agenda'[t] = m \o Tail(agenda[t])
  BY DEF Do, At, Busy, Typed, Shaped
<1> QED
  BY <1>1, Goes

\* A step that is done, and adds none.
LEMMA TurnNext ==
    ASSUME Typed, NEW t \in Terminals, NEW T, NEW F \in SUBSET DOMAIN T, NEW P,
           NEW G \in SUBSET DOMAIN T,
           Outline(agenda[t], F, P, T), NEW x, Do(t, x, <<>>), After(F, x, T) \subseteq G
    PROVE  Outline(agenda'[t], G, P, T)
BY Empty, Turn

\* A step that is next has what it needs.
LEMMA TurnReady ==
    ASSUME NEW t \in Terminals, NEW T, NEW F, NEW P, Outline(agenda[t], F, P, T), NEW x, At(t, x)
    PROVE  \A f \in DOMAIN T : x \in T[f].need => f \in F
<1>1. agenda[t] # <<>> /\ Head(agenda[t]) = x
  BY DEF At, Busy
<1> QED
  BY <1>1, Rest DEF Ready

\* A command that ends leaves behind what it should.
LEMMA TurnEnds ==
    ASSUME Typed, NEW t \in Terminals, NEW T, NEW P, NEW G \in SUBSET DOMAIN T, P \subseteq G,
           agenda'[t] = <<>> \/ (\E x : Quit(t, x))
    PROVE  Outline(agenda'[t], G, P, T)
<1>1. agenda'[t] = <<>>
  BY DEF Quit, Typed, Shaped
<1> QED
  BY <1>1, Empty

\* When nothing is left to do, what a command leaves behind is there.
LEMMA LeftBehind ==
    ASSUME NEW T, NEW F, NEW P, Outline(<<>>, F, P, T)
    PROVE  P \subseteq F
<1>1. Len(<<>>) = 0
  OBVIOUS
<1> QED
  BY <1>1 DEF Outline

\* Step x gives nothing, and the steps in S need and lose no more than x does.
Foreign(x, S, T) ==
    /\ S \subseteq Steps
    /\ \A f \in DOMAIN T :
        /\ x \notin T[f].give
        /\ \A y \in S : /\ y \in T[f].need => x \in T[f].need /\ x \notin T[f].lose
                        /\ y \in T[f].lose => x \in T[f].lose

\* Such a step may put any of those in front of the rest.
LEMMA Passes ==
    ASSUME Typed, NEW t \in Terminals, NEW T, NEW F \in SUBSET DOMAIN T, NEW P,
           Outline(agenda[t], F, P, T), NEW x, NEW S, Foreign(x, S, T),
           NEW m \in Seq(S), Do(t, x, m)
    PROVE  Outline(agenda'[t], F, P, T)
<1> DEFINE A == After(F, x, T)
<1>1. At(t, x)
  BY DEF Do
<1>2. A \subseteq F /\ A \in SUBSET DOMAIN T
  BY DEF After, Foreign
<1>3. ASSUME NEW y \in S
      PROVE  Ready(A, y, T) /\ \A f \in A : y \notin T[f].lose
  <2>1. ASSUME NEW f \in DOMAIN T, y \in T[f].need
        PROVE  f \in A
    BY <1>1, <2>1, TurnReady DEF Foreign, After
  <2>2. ASSUME NEW f \in A
        PROVE  y \notin T[f].lose
    BY DEF Foreign, After
  <2> QED
    BY <2>1, <2>2 DEF Ready
<1> HIDE DEF A
<1>4. m \in Seq(Steps) /\ \A i \in 1..Len(m) : m[i] \in S
  BY DEF Foreign
<1>5. Outline(m, A, A, T)
  BY <1>2, <1>3, <1>4, Steady
<1>6. Outline(m, F, A, T)
  BY <1>2, <1>5, Wider
<1> QED
  BY <1>6, Turn DEF A

-----------------------------------------------------------------------------
(* Snapshots and rollbacks *)

\* The facts about the snapshots of the project a command works in: the steps that need
\* them, those that give them, and those that lose them.
Saves == [
    listing   |-> [need |-> {"pack"}, give |-> {"list"}, lose |-> {"edit", "unpack", "wasRunning"}],
    whole     |-> [need |-> {"store"}, give |-> {"pack"}, lose |-> {"edit", "unpack", "list"}],
    kept      |-> [need |-> {"saveIndex"}, give |-> {"store"}, lose |-> {"edit", "unpack"}],
    index     |-> [need |-> {"saveIndex"}, give |-> {"readIndex"}, lose |-> {"saveIndex"}],
    saved     |-> [need |-> {"wasRunning"}, give |-> {"saveIndex"}, lose |-> {"edit", "unpack"}],
    restoring |-> [need |-> {"unpack"}, give |-> {"wasRunning"},
                   lose |-> {"edit", "find", "list", "pack"}],
    restored  |-> [need |-> {"report"}, give |-> {"unpack"}, lose |-> {"edit", "find"}],
    level     |-> [need |-> Steps \ {"readIndex", "saveIndex"}, give |-> {"saveIndex"},
                   lose |-> {"store"}],
    ahead     |-> [need |-> {"saveIndex"}, give |-> {"store"}, lose |-> {"saveIndex"}] ]

\* The source of project p, as an archive has it.
Source(p) == [f \in Present(p) |-> src[p][f]]

\* The new snapshot has the source as it is now.
Kept(t) == [id |-> Fresh(t), files |-> Source(In(t))] \in archives[In(t)]

\* The snapshots that there are.
Ids(p) == {a.id : a \in archives[p]}

\* The list names what is stored.
Level(p) == faults = 0 => Ids(p) = listed[p]

\* The facts that hold of the command at terminal t and the project it works in.
KnownSaves(t) == {f \in DOMAIN Saves :
    /\ f = "listing" => /\ sm[t].todo \subseteq Present(In(t))
                        /\ sm[t].zip = [g \in Present(In(t)) \ sm[t].todo |-> src[In(t)][g]]
    /\ f = "whole" => sm[t].zip = Source(In(t))
    /\ f = "kept" => Kept(t)
    /\ f = "index" => sm[t].index = listed[In(t)]
    /\ f = "saved" => Kept(t) /\ Fresh(t) \in listed[In(t)]
    /\ f = "restoring" => \A g \in DOMAIN sm[t].pick \ sm[t].todo : src[In(t)][g] = sm[t].pick[g]
    /\ f = "restored" => \A g \in DOMAIN sm[t].pick : src[In(t)][g] = sm[t].pick[g]
    /\ f = "level" => Level(In(t))
    /\ f = "ahead" => (faults = 0 => Ids(In(t)) = listed[In(t)] \cup {Fresh(t)})}

\* The last rollback in project p can be undone.
Undo(p) == before[p] # None =>
    \E a \in archives[p] :
        /\ a.id \in listed[p]
        /\ a.files = [f \in {g \in Files : before[p][g] # None} |-> before[p][f]]

\* The inductive invariant, as long as commands take turns.
Saved ==
    /\ DOMAIN listed = Projects /\ DOMAIN before = Projects
    /\ \A t \in Terminals : Busy(t) => Outline(agenda[t], KnownSaves(t), {"level"}, Saves)
    /\ \A p \in Projects : Undo(p) /\ (Idle(p) => Level(p))

\* What a step at terminal t does to the snapshots.
Saving(t) ==
    /\ DOMAIN listed' = Projects /\ DOMAIN before' = Projects
    /\ Outline(agenda'[t], KnownSaves(t)', {"level"}, Saves)
    /\ \A q \in Projects : Undo(q)'
    /\ \A q \in Projects : q # In(t) => archives'[q] = archives[q] /\ listed'[q] = listed[q]

\* The invariant is kept.
LEMMA SavesAssembled ==
    ASSUME Typed, Single, ~overlapped, Saved, NEW t \in Terminals, Acts(t), Saving(t)
    PROVE  Saved'
<1>1. /\ \A u \in Terminals : Busy(u)' => u = t
      /\ \A q \in Projects : q # In(t) => Idle(q)
      /\ \A q \in Projects : Idle(q)' => q # In(t) \/ agenda'[t] = <<>>
      /\ In(t) \in Projects /\ In(t)' = In(t) /\ (faults' = 0 => faults = 0)
  BY TurnOf
<1>2. ASSUME NEW q \in Projects, q # In(t)
      PROVE  Level(q)'
  <2>1. Level(q) /\ Ids(q)' = Ids(q)
    BY <1>1, <1>2 DEF Saved, Saving, Ids
  <2> QED
    BY <1>1, <1>2, <2>1 DEF Level, Saving
<1>3. agenda'[t] = <<>> => Level(In(t))'
  <2>1. agenda'[t] = <<>> => {"level"} \subseteq KnownSaves(t)'
    BY LeftBehind DEF Saving
  <2> QED
    BY <1>1, <2>1 DEF KnownSaves
<1>4. \A q \in Projects : Idle(q)' => Level(q)'
  BY <1>1, <1>2, <1>3
<1> QED
  BY <1>1, <1>4 DEF Saved, Saving

\* Steps that leave the snapshots as they are know what they knew.
LEMMA SameSaves ==
    ASSUME NEW t \in Terminals, Saved, UNCHANGED snapshotVars, UNCHANGED <<cmd, count>>,
           faults' = 0 => faults = 0
    PROVE  /\ KnownSaves(t) \subseteq KnownSaves(t)'
           /\ DOMAIN listed' = Projects /\ DOMAIN before' = Projects
           /\ \A q \in Projects : Undo(q)'
           /\ \A q \in Projects : archives'[q] = archives[q] /\ listed'[q] = listed[q]
<1>1. UNCHANGED <<src, archives, listed, before, sm, cmd, count>>
  BY DEF snapshotVars
<1>2. /\ In(t)' = In(t) /\ Fresh(t)' = Fresh(t) /\ Source(In(t))' = Source(In(t))
      /\ Present(In(t))' = Present(In(t)) /\ Ids(In(t))' = Ids(In(t))
  BY <1>1 DEF In, Fresh, Source, Present, Ids
<1>3. Kept(t)' = Kept(t) /\ (Level(In(t)) => Level(In(t))')
  BY <1>1, <1>2 DEF Kept, Level
<1>4. KnownSaves(t) \subseteq KnownSaves(t)'
  BY <1>1, <1>2, <1>3 DEF KnownSaves
<1> QED
  BY <1>1, <1>4 DEF Saved, Undo

\* The steps that need nothing but a list that is level, and leave it so.
LevelSteps == Steps \ {"pack", "store", "readIndex", "saveIndex", "wasRunning", "unpack", "report"}

\* So they have an outline from it to it.
LEMMA LevelStays ==
    ASSUME NEW m \in Seq(LevelSteps), NEW F, "level" \in F
    PROVE  Outline(m, F, {"level"}, Saves)
<1>1. ASSUME NEW x \in LevelSteps
      PROVE  x \in Steps /\ Ready({"level"}, x, Saves) /\ \A f \in {"level"} : x \notin Saves[f].lose
  <2>1. x \in Steps /\ x \notin Saves["level"].lose
    BY DEF LevelSteps, Saves
  <2>2. ASSUME NEW f \in DOMAIN Saves, x \in Saves[f].need
        PROVE  f = "level"
    BY <2>2 DEF LevelSteps, Saves
  <2> QED
    BY <2>1, <2>2 DEF Ready
<1>2. m \in Seq(Steps) /\ \A i \in 1..Len(m) : m[i] \in LevelSteps
  BY DEF LevelSteps
<1>3. {"level"} \in SUBSET DOMAIN Saves
  BY DEF Saves
<1>4. Outline(m, {"level"}, {"level"}, Saves)
  BY <1>1, <1>2, <1>3, Steady
<1> QED
  BY <1>4, Wider

\* A command that ends, by an exception or a failure.
LEMMA SavesEnd ==
    ASSUME Typed, NEW t \in Terminals, Saved, UNCHANGED snapshotVars, UNCHANGED <<cmd, count>>,
           \/ \E x \in Steps \ {"readIndex", "saveIndex"} : Quit(t, x)
           \/ \E x : \E m \in Seq(LevelSteps) : Fails(t, x, m)
    PROVE  Saving(t)
<1>1. CASE \E x \in Steps \ {"readIndex", "saveIndex"} : Quit(t, x)
  <2>1. PICK x \in Steps \ {"readIndex", "saveIndex"} : Quit(t, x)
    BY <1>1
  <2>2. At(t, x) /\ Busy(t) /\ faults' = faults
    BY <2>1 DEF Quit, At
  <2>3. KnownSaves(t) \subseteq KnownSaves(t)' /\ KnownSaves(t)' \in SUBSET DOMAIN Saves
    BY <2>2, SameSaves DEF KnownSaves
  <2>4. "level" \in KnownSaves(t)
    <3>1. "level" \in DOMAIN Saves /\ x \in Saves["level"].need
      BY DEF Saves
    <3>2. Outline(agenda[t], KnownSaves(t), {"level"}, Saves)
      BY <2>2 DEF Saved
    <3> QED
      BY <2>2, <3>1, <3>2, TurnReady
  <2>5. Outline(agenda'[t], KnownSaves(t)', {"level"}, Saves)
    BY <2>1, <2>3, <2>4, TurnEnds
  <2> QED
    BY <2>2, <2>5, SameSaves DEF Saving
<1>2. CASE \E x : \E m \in Seq(LevelSteps) : Fails(t, x, m)
  <2>1. PICK m \in Seq(LevelSteps) : faults' # 0 /\ agenda'[t] = m
    BY <1>2 DEF Fails, Typed, Shaped, TypeOK, TerminalsTypeOK
  <2>2. "level" \in KnownSaves(t)'
    BY <2>1 DEF KnownSaves, Level, Saves
  <2>3. Outline(agenda'[t], KnownSaves(t)', {"level"}, Saves)
    BY <2>1, <2>2, LevelStays
  <2> QED
    BY <2>1, <2>3, SameSaves DEF Saving
<1> QED
  BY <1>1, <1>2

\* The steps that the snapshots have nothing to do with.
Strangers == KeySteps \cup ServiceSteps \cup {"move"}

\* Their steps leave the snapshots as they are.
LEMMA StrangersSave ==
    ASSUME Typed, Saved, NEW t \in Terminals, UNCHANGED snapshotVars,
           KeysStep(t) \/ ProjectsStep(t) \/ MoveAway(t)
    PROVE  Saving(t)
<1>1. \/ \E x \in Strangers : \E m \in Seq(Strangers) : Do(t, x, m)
      \/ \E x \in Strangers : Quit(t, x)
      \/ Fails(t, "start", <<>>) \/ Fails(t, "countRun", <<"share">>)
  <2>1. /\ KeySteps \subseteq Strangers /\ ServiceSteps \subseteq Strangers
        /\ ServiceSteps \cup {"ensure"} \subseteq Strangers /\ "move" \in Strangers
    BY DEF Strangers, KeySteps
  <2>2. CASE KeysStep(t)
    BY <2>1, <2>2, KeysAgenda
  <2>3. CASE ProjectsStep(t)
    BY <2>1, <2>3, ProjectsAgenda
  <2>4. CASE MoveAway(t)
    <3>1. Do(t, "move", <<>>) /\ <<>> \in Seq(Strangers)
      BY <2>4 DEF MoveAway
    <3> QED
      BY <2>1, <3>1
  <2> QED
    BY <2>2, <2>3, <2>4
<1>2. CASE \E x \in Strangers : \E m \in Seq(Strangers) : Do(t, x, m)
  <2>1. PICK x \in Strangers : \E m \in Seq(Strangers) : Do(t, x, m)
    BY <1>2
  <2>2. PICK m \in Seq(Strangers) : Do(t, x, m)
    BY <2>1
  <2>3. Foreign(x, Strangers, Saves)
    <3>1. Strangers \subseteq Steps
      BY DEF Strangers, KeySteps, ServiceSteps, Steps
    <3>2. ASSUME NEW y \in Strangers, NEW f \in DOMAIN Saves
          PROVE  y \notin Saves[f].give /\ y \notin Saves[f].lose
                 /\ (y \in Saves[f].need <=> f = "level")
      <4>1. y \in Steps /\ y \notin SnapshotSteps
        BY DEF Strangers, KeySteps, ServiceSteps, Steps, SnapshotSteps
      <4> QED
        BY <4>1 DEF Saves, SnapshotSteps
    <3> QED
      BY <3>1, <3>2 DEF Foreign
  <2>4. /\ Outline(agenda[t], KnownSaves(t), {"level"}, Saves)
        /\ KnownSaves(t) \in SUBSET DOMAIN Saves /\ UNCHANGED <<cmd, count, faults>>
    BY <2>2 DEF Do, At, Saved, KnownSaves
  <2>5. Outline(agenda'[t], KnownSaves(t), {"level"}, Saves)
    BY <2>2, <2>3, <2>4, Passes
  <2>6. KnownSaves(t) \subseteq KnownSaves(t)'
    BY <2>4, SameSaves
  <2>7. Outline(agenda'[t], KnownSaves(t)', {"level"}, Saves)
    BY <2>5, <2>6, Wider
  <2> QED
    BY <2>4, <2>7, SameSaves DEF Saving
<1>3. CASE \E x \in Strangers : Quit(t, x)
  <2>1. Strangers \subseteq Steps \ {"readIndex", "saveIndex"}
    BY DEF Strangers, KeySteps, ServiceSteps, Steps
  <2> QED
    BY <1>3, <2>1, SavesEnd DEF Quit
<1>4. CASE Fails(t, "start", <<>>) \/ Fails(t, "countRun", <<"share">>)
  <2>1. <<>> \in Seq(LevelSteps) /\ <<"share">> \in Seq(LevelSteps)
    BY DEF LevelSteps, Steps
  <2> QED
    BY <1>4, <2>1, SavesEnd DEF Fails
<1> QED
  BY <1>1, <1>2, <1>3, <1>4

\* A step that changes nothing but what its command remembers of its work.
LEMMA WorkSaves ==
    ASSUME Saved, NEW t \in Terminals, UNCHANGED snapshotFiles, UNCHANGED <<cmd, count, faults>>
    PROVE  /\ DOMAIN listed' = Projects /\ DOMAIN before' = Projects
           /\ \A q \in Projects : Undo(q)'
           /\ \A q \in Projects : archives'[q] = archives[q] /\ listed'[q] = listed[q]
           /\ src' = src /\ listed' = listed /\ In(t)' = In(t) /\ Fresh(t)' = Fresh(t)
           /\ Present(In(t))' = Present(In(t)) /\ Source(In(t))' = Source(In(t))
           /\ Ids(In(t))' = Ids(In(t))
           /\ Kept(t) => Kept(t)'
           /\ Level(In(t)) => Level(In(t))'
BY DEF snapshotFiles, Saved, Undo, In, Fresh, Present, Source, Ids, Kept, Level

\* Steps of snapshots that are done, one after the other.
LEMMA ListingSaves ==
    ASSUME Typed, Saved, NEW t \in Terminals, List(t) \/ Pack(t) \/ Packed(t)
    PROVE  Saving(t)
<1> DEFINE p == In(t)
           K == KnownSaves(t)
<1>1. /\ UNCHANGED <<cmd, count, faults>> /\ Busy(t) /\ UNCHANGED snapshotFiles
      /\ p \in Projects /\ K \in SUBSET DOMAIN Saves
  <2>1. UNCHANGED <<cmd, count, faults>> /\ Busy(t) /\ UNCHANGED snapshotFiles
    BY DEF List, Pack, Packed, Do, Quit, At, snapshotVars, snapshotFiles
  <2> QED
    BY <2>1 DEF Typed, TypeOK, TerminalsTypeOK, KnownSaves
<1>2. /\ DOMAIN sm = Terminals /\ DOMAIN sm[t] = {"todo", "zip", "pick", "index", "was"}
      /\ sm[t].todo \subseteq Files /\ Outline(agenda[t], K, {"level"}, Saves)
      /\ DOMAIN sm[t].zip \subseteq Files
  BY <1>1 DEF Typed, Shaped, SnapshotsShaped, WorkShaped, NoWork, Saved
<1>3. /\ DOMAIN listed' = Projects /\ DOMAIN before' = Projects
      /\ \A q \in Projects : Undo(q)'
      /\ \A q \in Projects : archives'[q] = archives[q] /\ listed'[q] = listed[q]
  BY <1>1, WorkSaves
<1>4. /\ src' = src /\ listed' = listed /\ In(t)' = p /\ Fresh(t)' = Fresh(t)
      /\ Present(p)' = Present(p) /\ Source(p)' = Source(p) /\ Ids(p)' = Ids(p)
      /\ Kept(t) => Kept(t)'
      /\ Level(p) => Level(p)'
  BY <1>1, WorkSaves
<1>5. \A f \in DOMAIN Saves : Head(agenda[t]) \in Saves[f].need => f \in K
  BY <1>1, <1>2, TurnReady DEF At
<1>6. CASE List(t)
  <2>1. At(t, "list") /\ Keep(t, [sm[t] EXCEPT !.todo = Present(p), !.zip = NoFiles])
    BY <1>6 DEF List, Work, Do, Quit
  <2>2. /\ sm'[t].todo = Present(p) /\ sm'[t].zip = NoFiles
        /\ sm'[t].pick = sm[t].pick /\ sm'[t].index = sm[t].index
    BY <1>2, <2>1 DEF Keep
  <2>3. NoFiles = [g \in Present(p) \ Present(p) |-> src[p][g]]
    BY DEF NoFiles
  <2>4. "level" \in K
    BY <1>5, <2>1 DEF At, Saves, Steps
  <2>5. CASE Quit(t, "list")
    <3>1. "level" \in KnownSaves(t)' /\ KnownSaves(t)' \in SUBSET DOMAIN Saves
      BY <1>4, <2>4 DEF KnownSaves
    <3> QED
      BY <1>3, <2>5, <3>1, TurnEnds DEF Saving
  <2>6. CASE Do(t, "list", <<>>)
    <3>1. After(K, "list", Saves) \subseteq KnownSaves(t)'
      <4>1. ASSUME NEW f \in After(K, "list", Saves)
            PROVE  f \in KnownSaves(t)'
        <5>1. f = "listing" \/ (f \in K /\ f \in {"kept", "index", "saved", "restored", "level",
                                                   "ahead"})
          BY <4>1, <1>1 DEF After, Saves
        <5>2. f \in DOMAIN Saves
          BY <4>1 DEF After
        <5>3. CASE f = "listing"
          BY <1>4, <2>2, <2>3, <5>2, <5>3 DEF KnownSaves
        <5>4. CASE f \in K /\ f \in {"kept", "index", "saved", "restored", "level", "ahead"}
          BY <1>1, <1>4, <2>2, <5>2, <5>4 DEF KnownSaves
        <5> QED
          BY <5>1, <5>3, <5>4
      <4> QED
        BY <4>1
    <3>2. KnownSaves(t)' \in SUBSET DOMAIN Saves
      BY DEF KnownSaves
    <3>3. Outline(agenda'[t], KnownSaves(t)', {"level"}, Saves)
      BY <1>1, <1>2, <2>6, <3>1, <3>2, TurnNext
    <3> QED
      BY <1>3, <3>3 DEF Saving
  <2> QED
    BY <1>6, <2>5, <2>6 DEF List
<1>7. CASE Pack(t)
  <2> DEFINE f == Least(sm[t].todo)
  <2>1. At(t, "pack") /\ sm[t].todo # {} /\ "listing" \in K /\ "level" \in K
    BY <1>5, <1>7 DEF Pack, At, Work, Saves, Steps
  <2>2. f \in sm[t].todo
    <3>1. sm[t].todo \in SUBSET Nat
      BY <1>2, FilesAreNatural DEF Files
    <3> QED
      BY <2>1, <3>1, LeastIsIn
  <2>3. sm[t].todo \subseteq Present(p) /\ sm[t].zip = [g \in Present(p) \ sm[t].todo |-> src[p][g]]
    BY <2>1 DEF KnownSaves
  <2>4. src[p][f] # None
    BY <2>2, <2>3 DEF Present
  <2>5. /\ Do(t, "pack", <<"pack">>)
        /\ Keep(t, [sm[t] EXCEPT !.todo = @ \ {f}, !.zip = With(@, f, src[p][f])])
    BY <1>7, <2>4 DEF Pack, Work
  <2> HIDE DEF f
  <2>6. /\ sm'[t].todo = sm[t].todo \ {f} /\ sm'[t].zip = With(sm[t].zip, f, src[p][f])
        /\ sm'[t].pick = sm[t].pick /\ sm'[t].index = sm[t].index
    BY <1>2, <2>5 DEF Keep
  <2>7. With(sm[t].zip, f, src[p][f]) = [g \in Present(p) \ (sm[t].todo \ {f}) |-> src[p][g]]
    <3>1. (Present(p) \ sm[t].todo) \cup {f} = Present(p) \ (sm[t].todo \ {f})
      BY <2>2, <2>3
    <3>2. DOMAIN sm[t].zip = Present(p) \ sm[t].todo
          /\ \A g \in Present(p) \ sm[t].todo : sm[t].zip[g] = src[p][g]
      BY <2>3
    <3> QED
      BY <3>1, <3>2 DEF With
  <2>8. {"listing", "level"} \subseteq KnownSaves(t)'
        /\ (K \ {"whole", "restoring"}) \subseteq KnownSaves(t)'
    <3>1. "listing" \in KnownSaves(t)'
      BY <1>4, <2>3, <2>6, <2>7 DEF KnownSaves, Saves
    <3>2. ASSUME NEW g \in K \ {"whole", "restoring", "listing"}
          PROVE  g \in KnownSaves(t)'
      <4>1. g \in DOMAIN Saves /\ g \notin {"whole", "restoring", "listing"}
        BY DEF KnownSaves
      <4>2. g \in {"kept", "index", "saved", "restored", "level", "ahead"}
        BY <4>1 DEF Saves
      <4> QED
        BY <1>1, <1>4, <2>6, <4>2 DEF KnownSaves
    <3> QED
      BY <2>1, <3>1, <3>2
  <2> DEFINE G == KnownSaves(t)'
             P == After(K, "pack", Saves)
  <2>9. G \in SUBSET DOMAIN Saves /\ P \in SUBSET DOMAIN Saves
    BY DEF KnownSaves, After
  <2>10. Ready(G, "pack", Saves) /\ P \subseteq After(G, "pack", Saves)
    <3>1. P \subseteq {"whole"} \cup (K \ {"whole", "restoring"})
      BY DEF After, Saves
    <3> HIDE DEF G, P
    <3>2. {"listing", "level"} \subseteq G /\ P \subseteq {"whole"} \cup G
      BY <2>8, <3>1 DEF G
    <3>3. "restoring" \notin P
      BY DEF P, After, Saves
    <3> QED
      BY <2>9, <3>2, <3>3 DEF Ready, After, Saves
  <2> HIDE DEF G, P
  <2>11. Outline(<<"pack">>, G, P, Saves)
    BY <2>9, <2>10, One DEF Steps
  <2>12. Outline(agenda'[t], G, {"level"}, Saves)
    BY <1>1, <1>2, <2>5, <2>11, Turn DEF P
  <2> QED
    BY <1>3, <2>12 DEF Saving, G
<1>8. CASE Packed(t)
  <2>1. Do(t, "pack", <<>>) /\ At(t, "pack") /\ sm' = sm /\ sm[t].todo = {}
    BY <1>8 DEF Packed, Do, snapshotVars, Work
  <2>2. "listing" \in K
    BY <1>5, <2>1 DEF At, Saves
  <2>3. sm[t].zip = Source(p)
    BY <2>1, <2>2 DEF KnownSaves, Source
  <2>4. After(K, "pack", Saves) \subseteq KnownSaves(t)'
    <3>1. After(K, "pack", Saves) \subseteq {"whole"} \cup K
      BY DEF After, Saves
    <3>2. "whole" \in KnownSaves(t)' /\ K \subseteq KnownSaves(t)'
      BY <1>1, <1>4, <2>1, <2>3 DEF KnownSaves, Saves
    <3> QED
      BY <3>1, <3>2
  <2>5. KnownSaves(t)' \in SUBSET DOMAIN Saves
    BY DEF KnownSaves
  <2>6. Outline(agenda'[t], KnownSaves(t)', {"level"}, Saves)
    BY <1>1, <1>2, <2>1, <2>4, <2>5, TurnNext
  <2> QED
    BY <1>3, <2>6 DEF Saving
<1> QED
  BY <1>6, <1>7, <1>8

\* What a step of snapshots finds.
LEMMA SavesHere ==
    ASSUME Typed, Saved, NEW t \in Terminals, NEW x, At(t, x)
    PROVE  /\ Busy(t) /\ In(t) \in Projects /\ KnownSaves(t) \in SUBSET DOMAIN Saves
           /\ DOMAIN sm = Terminals /\ DOMAIN sm[t] = {"todo", "zip", "pick", "index", "was"}
           /\ sm[t].todo \subseteq Files
           /\ DOMAIN src = Projects /\ DOMAIN archives = Projects
           /\ DOMAIN listed = Projects /\ DOMAIN before = Projects /\ DOMAIN src[In(t)] = Files
           /\ Outline(agenda[t], KnownSaves(t), {"level"}, Saves)
           /\ x = "store" => "whole" \in KnownSaves(t)
           /\ x = "saveIndex" => {"kept", "index", "ahead"} \subseteq KnownSaves(t)
           /\ x = "wasRunning" => "saved" \in KnownSaves(t)
           /\ x = "unpack" => "restoring" \in KnownSaves(t)
           /\ x = "report" => "restored" \in KnownSaves(t)
           /\ x \in Steps \ {"readIndex", "saveIndex"} => "level" \in KnownSaves(t)
<1>1. Busy(t) /\ In(t) \in Projects /\ KnownSaves(t) \in SUBSET DOMAIN Saves
  BY WorksInProject DEF At, KnownSaves
<1>2. Outline(agenda[t], KnownSaves(t), {"level"}, Saves) /\ DOMAIN listed = Projects
      /\ DOMAIN before = Projects
  BY <1>1 DEF Saved
<1>3. /\ DOMAIN sm = Terminals /\ DOMAIN sm[t] = {"todo", "zip", "pick", "index", "was"}
      /\ sm[t].todo \subseteq Files /\ DOMAIN src = Projects /\ DOMAIN archives = Projects
      /\ DOMAIN src[In(t)] = Files
  BY <1>1 DEF Typed, Shaped, SnapshotsShaped, WorkShaped, NoWork
<1>4. \A f \in DOMAIN Saves : x \in Saves[f].need => f \in KnownSaves(t)
  BY <1>2, TurnReady
<1>5. /\ x = "store" => "whole" \in KnownSaves(t)
      /\ x = "saveIndex" => {"kept", "index", "ahead"} \subseteq KnownSaves(t)
      /\ x = "wasRunning" => "saved" \in KnownSaves(t)
      /\ x = "unpack" => "restoring" \in KnownSaves(t)
      /\ x = "report" => "restored" \in KnownSaves(t)
      /\ x \in Steps \ {"readIndex", "saveIndex"} => "level" \in KnownSaves(t)
  BY <1>4 DEF Saves
<1> QED
  BY <1>1, <1>2, <1>3, <1>5

\* A snapshot is stored, and listed: what the list was when it was read it still is.
LEMMA StoringSaves ==
    ASSUME Typed, Saved, NEW t \in Terminals, Store(t) \/ ReadIndex(t) \/ SaveIndex(t)
    PROVE  Saving(t)
<1> DEFINE p == In(t)
           K == KnownSaves(t)
<1>1. KnownSaves(t)' \in SUBSET DOMAIN Saves
  BY DEF KnownSaves
<1>2. CASE Store(t)
  <2> DEFINE a == [id |-> Fresh(t), files |-> sm[t].zip]
  <2>1. /\ Do(t, "store", <<>>) /\ At(t, "store") /\ UNCHANGED <<cmd, count, faults>>
        /\ archives' = [archives EXCEPT ![p] = @ \cup {a}]
        /\ UNCHANGED <<src, listed, before, sm>>
    BY <1>2 DEF Store, Do, Work
  <2>2. /\ p \in Projects /\ K \in SUBSET DOMAIN Saves /\ DOMAIN archives = Projects
        /\ "whole" \in K /\ "level" \in K /\ Outline(agenda[t], K, {"level"}, Saves)
        /\ DOMAIN listed = Projects /\ DOMAIN before = Projects
    BY <2>1, SavesHere DEF Steps
  <2>3. a = [id |-> Fresh(t), files |-> Source(p)] /\ a.id = Fresh(t) /\ Level(p)
    BY <2>2 DEF KnownSaves
  <2> HIDE DEF a
  <2>4. /\ archives'[p] = archives[p] \cup {a}
        /\ \A q \in Projects : q # p => archives'[q] = archives[q]
    BY <2>1, <2>2
  <2>5. /\ In(t)' = p /\ Fresh(t)' = Fresh(t) /\ Source(p)' = Source(p)
        /\ Present(p)' = Present(p) /\ Ids(p)' = Ids(p) \cup {Fresh(t)}
    <3>1. Ids(p)' = {b.id : b \in archives[p] \cup {a}}
      BY <2>1, <2>4 DEF Ids, In
    <3>2. {b.id : b \in archives[p] \cup {a}} = {b.id : b \in archives[p]} \cup {a.id}
      OBVIOUS
    <3> QED
      BY <2>1, <2>3, <3>1, <3>2 DEF In, Fresh, Source, Present, Ids
  <2>6. Kept(t)'
    BY <2>3, <2>4, <2>5 DEF Kept
  <2>7. ASSUME NEW f \in After(K, "store", Saves)
        PROVE  f \in KnownSaves(t)'
    <3>1. f \in DOMAIN Saves /\ (f \in {"kept", "ahead"} \/ f \in K) /\ f # "level"
      BY DEF After, Saves
    <3> QED
      BY <2>1, <2>3, <2>5, <2>6, <3>1 DEF KnownSaves, Level
  <2>8. Outline(agenda'[t], KnownSaves(t)', {"level"}, Saves)
    BY <1>1, <2>1, <2>2, <2>7, TurnNext
  <2>9. \A q \in Projects : Undo(q)'
    BY <2>1, <2>4 DEF Saved, Undo
  <2> QED
    BY <2>1, <2>2, <2>4, <2>8, <2>9 DEF Saving
<1>3. CASE ReadIndex(t)
  <2>1. /\ Do(t, "readIndex", <<>>) /\ At(t, "readIndex") /\ UNCHANGED <<cmd, count, faults>>
        /\ Keep(t, [sm[t] EXCEPT !.index = listed[p]]) /\ UNCHANGED snapshotFiles
    BY <1>3 DEF ReadIndex, Do, Work
  <2>2. /\ DOMAIN sm = Terminals /\ DOMAIN sm[t] = {"todo", "zip", "pick", "index", "was"}
        /\ Outline(agenda[t], K, {"level"}, Saves) /\ K \in SUBSET DOMAIN Saves
    BY <2>1, SavesHere
  <2>3. /\ DOMAIN listed' = Projects /\ DOMAIN before' = Projects /\ \A q \in Projects : Undo(q)'
        /\ \A q \in Projects : archives'[q] = archives[q] /\ listed'[q] = listed[q]
    BY <2>1, WorkSaves
  <2>4. /\ src' = src /\ listed' = listed /\ In(t)' = p /\ Fresh(t)' = Fresh(t)
        /\ Present(p)' = Present(p) /\ Source(p)' = Source(p) /\ Ids(p)' = Ids(p)
        /\ Kept(t) => Kept(t)'
        /\ Level(p) => Level(p)'
    BY <2>1, WorkSaves
  <2>5. /\ sm'[t].todo = sm[t].todo /\ sm'[t].zip = sm[t].zip /\ sm'[t].pick = sm[t].pick
        /\ sm'[t].index = listed[p]
    BY <2>1, <2>2 DEF Keep
  <2>6. ASSUME NEW f \in After(K, "readIndex", Saves)
        PROVE  f \in KnownSaves(t)'
    <3>1. f \in DOMAIN Saves /\ (f = "index" \/ f \in K)
      BY DEF After, Saves
    <3> QED
      BY <2>1, <2>4, <2>5, <3>1 DEF KnownSaves
  <2>7. Outline(agenda'[t], KnownSaves(t)', {"level"}, Saves)
    BY <1>1, <2>1, <2>2, <2>6, TurnNext
  <2> QED
    BY <2>3, <2>7 DEF Saving
<1>4. CASE SaveIndex(t)
  <2>1. /\ Do(t, "saveIndex", <<>>) /\ At(t, "saveIndex") /\ UNCHANGED <<cmd, count, faults>>
        /\ listed' = [listed EXCEPT ![p] = sm[t].index \cup {Fresh(t)}]
        /\ UNCHANGED <<src, archives, before, sm>>
    BY <1>4 DEF SaveIndex, Do, Work
  <2>2. /\ p \in Projects /\ K \in SUBSET DOMAIN Saves /\ DOMAIN listed = Projects
        /\ DOMAIN before = Projects
        /\ {"kept", "index", "ahead"} \subseteq K /\ Outline(agenda[t], K, {"level"}, Saves)
    BY <2>1, SavesHere
  <2>3. /\ listed'[p] = listed[p] \cup {Fresh(t)}
        /\ \A q \in Projects : q # p => listed'[q] = listed[q]
    BY <2>1, <2>2 DEF KnownSaves
  <2>4. /\ In(t)' = p /\ Fresh(t)' = Fresh(t) /\ Source(p)' = Source(p)
        /\ Present(p)' = Present(p) /\ Ids(p)' = Ids(p) /\ Kept(t)' = Kept(t)
    BY <2>1 DEF In, Fresh, Source, Present, Ids, Kept
  <2>5. Level(p)' /\ Kept(t)
    BY <2>1, <2>2, <2>3, <2>4 DEF KnownSaves, Level
  <2>6. ASSUME NEW f \in After(K, "saveIndex", Saves)
        PROVE  f \in KnownSaves(t)'
    <3>1. /\ f \in DOMAIN Saves /\ (f \in {"saved", "level"} \/ f \in K)
          /\ f # "index" /\ f # "ahead"
      BY DEF After, Saves
    <3> QED
      BY <2>1, <2>3, <2>4, <2>5, <3>1 DEF KnownSaves
  <2>7. Outline(agenda'[t], KnownSaves(t)', {"level"}, Saves)
    BY <1>1, <2>1, <2>2, <2>6, TurnNext
  <2>8. \A q \in Projects : Undo(q)'
    BY <2>1, <2>3 DEF Saved, Undo
  <2>9. DOMAIN listed' = Projects
    BY <2>1, <2>2
  <2> QED
    BY <2>1, <2>2, <2>3, <2>7, <2>8, <2>9 DEF Saving
<1> QED
  BY <1>2, <1>3, <1>4

\* A rollback looks for its snapshot, and stops and starts the service.
LEMMA FindingSaves ==
    ASSUME Typed, Saved, NEW t \in Terminals, Find(t) \/ Halt(t) \/ Revive(t) \/ Report(t)
    PROVE  Saving(t)
<1> DEFINE p == In(t)
           K == KnownSaves(t)
<1>1. KnownSaves(t)' \in SUBSET DOMAIN Saves
  BY DEF KnownSaves
<1>2. CASE Find(t)
  <2>1. /\ At(t, "find") /\ UNCHANGED <<cmd, count, faults>> /\ UNCHANGED snapshotFiles
        /\ \/ Do(t, "find", <<>>) /\ \E a \in archives[p] : Keep(t, [sm[t] EXCEPT !.pick = a.files])
           \/ Quit(t, "find") /\ sm' = sm
    BY <1>2 DEF Find, Do, Quit, Work
  <2>2. /\ DOMAIN sm = Terminals /\ DOMAIN sm[t] = {"todo", "zip", "pick", "index", "was"}
        /\ Outline(agenda[t], K, {"level"}, Saves) /\ K \in SUBSET DOMAIN Saves /\ "level" \in K
    BY <2>1, SavesHere DEF Steps
  <2>3. /\ DOMAIN listed' = Projects /\ DOMAIN before' = Projects /\ \A q \in Projects : Undo(q)'
        /\ \A q \in Projects : archives'[q] = archives[q] /\ listed'[q] = listed[q]
    BY <2>1, WorkSaves
  <2>4. /\ src' = src /\ listed' = listed /\ In(t)' = p /\ Fresh(t)' = Fresh(t)
        /\ Present(p)' = Present(p) /\ Source(p)' = Source(p) /\ Ids(p)' = Ids(p)
        /\ Kept(t) => Kept(t)'
        /\ Level(p) => Level(p)'
    BY <2>1, WorkSaves
  <2>5. CASE Quit(t, "find") /\ sm' = sm
    <3>1. "level" \in KnownSaves(t)'
      BY <2>2, <2>4 DEF KnownSaves
    <3> QED
      BY <1>1, <2>3, <2>5, <3>1, TurnEnds DEF Saving
  <2>6. ASSUME Do(t, "find", <<>>), NEW a \in archives[p], Keep(t, [sm[t] EXCEPT !.pick = a.files])
        PROVE  Saving(t)
    <3>1. /\ sm'[t].todo = sm[t].todo /\ sm'[t].zip = sm[t].zip /\ sm'[t].index = sm[t].index
      BY <2>2, <2>6 DEF Keep
    <3>2. ASSUME NEW f \in After(K, "find", Saves)
          PROVE  f \in KnownSaves(t)'
      <4>1. f \in DOMAIN Saves /\ f \in K /\ f # "restoring" /\ f # "restored"
        BY DEF After, Saves
      <4> QED
        BY <2>1, <2>4, <3>1, <4>1 DEF KnownSaves
    <3>3. Outline(agenda'[t], KnownSaves(t)', {"level"}, Saves)
      BY <1>1, <2>2, <2>6, <3>2, TurnNext
    <3> QED
      BY <2>3, <3>3 DEF Saving
  <2> QED
    BY <2>1, <2>5, <2>6
<1>3. CASE Halt(t) \/ Revive(t) \/ Report(t)
  <2> DEFINE S == {"stop", "start"}
  <2>1. PICK x \in {"halt", "revive", "report"} : \E m \in Seq(S) : Do(t, x, m)
    <3>1. <<>> \in Seq(S) /\ <<"stop">> \in Seq(S) /\ <<"stop", "start">> \in Seq(S)
      OBVIOUS
    <3> HIDE DEF S
    <3>2. CASE Work(t).was
      BY <1>3, <3>1, <3>2 DEF Halt, Revive, Report
    <3>3. CASE ~Work(t).was
      BY <1>3, <3>1, <3>3 DEF Halt, Revive, Report
    <3> QED
      BY <3>2, <3>3
  <2>2. PICK m \in Seq(S) : Do(t, x, m)
    BY <2>1
  <2>3. /\ UNCHANGED snapshotVars /\ UNCHANGED <<cmd, count, faults>> /\ At(t, x)
    BY <1>3, <2>2 DEF Halt, Revive, Report, Do
  <2>4. Outline(agenda[t], K, {"level"}, Saves) /\ K \in SUBSET DOMAIN Saves
    BY <2>3, SavesHere
  <2>5. Foreign(x, S, Saves)
    <3>1. S \subseteq Steps /\ x \in Steps
      BY <2>1 DEF Steps
    <3>2. ASSUME NEW f \in DOMAIN Saves, NEW y \in S
          PROVE  y \notin Saves[f].lose /\ (y \in Saves[f].need => f = "level")
      <4>1. ASSUME NEW z \in {"stop", "start"}
            PROVE  z \notin Saves[f].lose
        BY DEF Saves
      <4>2. ASSUME NEW z \in {"stop", "start"}
            PROVE  z \in Saves[f].need => f = "level"
        BY DEF Saves
      <4> QED
        BY <4>1, <4>2
    <3>3. /\ x \in Saves["level"].need /\ x \notin Saves["level"].lose
          /\ \A f \in DOMAIN Saves : x \notin Saves[f].give
      BY <2>1, <3>1 DEF Saves
    <3> QED
      BY <3>1, <3>2, <3>3 DEF Foreign
  <2> HIDE DEF S
  <2>6. Outline(agenda'[t], K, {"level"}, Saves)
    BY <2>2, <2>4, <2>5, Passes
  <2>7. K \subseteq KnownSaves(t)'
    BY <2>3, SameSaves
  <2>8. Outline(agenda'[t], KnownSaves(t)', {"level"}, Saves)
    BY <2>6, <2>7, Wider
  <2> QED
    BY <2>3, <2>8, SameSaves DEF Saving
<1> QED
  BY <1>2, <1>3

\* A rollback begins to write when its safety snapshot has the source as it is, and has
\* restored it when nothing is left to write; the user edits at any time.
LEMMA WritingSaves ==
    ASSUME Typed, Saved, NEW t \in Terminals,
           (\E running \in BOOLEAN : WasRunning(t, running)) \/ Unpacked(t) \/ EditFile(t)
    PROVE  Saving(t)
<1> DEFINE p == In(t)
           K == KnownSaves(t)
<1>1. KnownSaves(t)' \in SUBSET DOMAIN Saves
  BY DEF KnownSaves
<1>2. CASE \E running \in BOOLEAN : WasRunning(t, running)
  <2>1. PICK running \in BOOLEAN : WasRunning(t, running)
    BY <1>2
  <2>2. /\ Do(t, "wasRunning", <<>>) /\ At(t, "wasRunning") /\ UNCHANGED <<cmd, count, faults>>
        /\ Keep(t, [sm[t] EXCEPT !.was = running, !.todo = DOMAIN sm[t].pick])
        /\ before' = [before EXCEPT ![p] = src[p]] /\ UNCHANGED <<src, archives, listed>>
    BY <2>1 DEF WasRunning, Do, Work
  <2>3. /\ DOMAIN sm = Terminals /\ DOMAIN sm[t] = {"todo", "zip", "pick", "index", "was"}
        /\ Outline(agenda[t], K, {"level"}, Saves) /\ K \in SUBSET DOMAIN Saves
        /\ "saved" \in K /\ p \in Projects /\ DOMAIN listed = Projects /\ DOMAIN before = Projects
    BY <2>2, SavesHere
  <2>4. /\ sm'[t].todo = DOMAIN sm[t].pick /\ sm'[t].zip = sm[t].zip
        /\ sm'[t].index = sm[t].index /\ sm'[t].pick = sm[t].pick
    BY <2>2, <2>3 DEF Keep
  <2>5. /\ In(t)' = p /\ Fresh(t)' = Fresh(t) /\ Source(p)' = Source(p)
        /\ Present(p)' = Present(p) /\ Ids(p)' = Ids(p) /\ Kept(t)' = Kept(t)
        /\ (Level(p) => Level(p)')
    BY <2>2 DEF In, Fresh, Source, Present, Ids, Kept, Level
  <2>6. ASSUME NEW f \in After(K, "wasRunning", Saves)
        PROVE  f \in KnownSaves(t)'
    <3>1. f \in DOMAIN Saves /\ (f = "restoring" \/ f \in K) /\ f # "listing"
      BY DEF After, Saves
    <3> QED
      BY <2>2, <2>4, <2>5, <3>1 DEF KnownSaves
  <2>7. Outline(agenda'[t], KnownSaves(t)', {"level"}, Saves)
    BY <1>1, <2>2, <2>3, <2>6, TurnNext
  <2>8. \E b \in archives'[p] : b.id \in listed'[p]
            /\ b.files = [f \in {g \in Files : before'[p][g] # None} |-> before'[p][f]]
    <3> DEFINE a == [id |-> Fresh(t), files |-> Source(p)]
    <3>1. a \in archives'[p] /\ a.id \in listed'[p]
      BY <2>2, <2>3 DEF KnownSaves, Kept
    <3>2. before'[p] = src[p]
      BY <2>2, <2>3
    <3>3. a.files = [f \in {g \in Files : before'[p][g] # None} |-> before'[p][f]]
      BY <3>2 DEF Source, Present
    <3> HIDE DEF a
    <3> QED
      BY <3>1, <3>3
  <2>9. ASSUME NEW q \in Projects
        PROVE  Undo(q)'
    <3>1. CASE q = p
      BY <2>8, <3>1 DEF Undo
    <3>2. CASE q # p
      <4>1. before'[q] = before[q] /\ Undo(q)
        BY <2>2, <2>3, <3>2 DEF Saved
      <4> QED
        BY <2>2, <4>1 DEF Undo
    <3> QED
      BY <3>1, <3>2
  <2> QED
    BY <2>2, <2>3, <2>7, <2>9 DEF Saving
<1>3. CASE Unpacked(t)
  <2>1. /\ Do(t, "unpack", <<>>) /\ At(t, "unpack") /\ UNCHANGED <<cmd, count, faults>>
        /\ UNCHANGED snapshotVars /\ sm[t].todo = {} /\ sm' = sm /\ src' = src
    BY <1>3 DEF Unpacked, Do, Work, snapshotVars
  <2>2. /\ Outline(agenda[t], K, {"level"}, Saves) /\ K \in SUBSET DOMAIN Saves
        /\ "restoring" \in K
    BY <2>1, SavesHere
  <2>3. K \subseteq KnownSaves(t)'
    BY <2>1, SameSaves
  <2>4. ASSUME NEW f \in After(K, "unpack", Saves)
        PROVE  f \in KnownSaves(t)'
    <3>1. f \in DOMAIN Saves /\ (f = "restored" \/ f \in K)
      BY DEF After, Saves
    <3>2. "restored" \in KnownSaves(t)'
      BY <2>1, <2>2 DEF KnownSaves, Saves, In
    <3> QED
      BY <2>3, <3>1, <3>2
  <2>5. Outline(agenda'[t], KnownSaves(t)', {"level"}, Saves)
    BY <1>1, <2>1, <2>2, <2>4, TurnNext
  <2> QED
    BY <2>1, <2>5, SameSaves DEF Saving
<1>4. CASE EditFile(t)
  <2>1. /\ Do(t, "edit", <<>>) /\ At(t, "edit") /\ UNCHANGED <<cmd, count, faults>>
        /\ UNCHANGED <<archives, listed, before, sm>>
    BY <1>4 DEF EditFile, Do
  <2>2. /\ Outline(agenda[t], K, {"level"}, Saves) /\ K \in SUBSET DOMAIN Saves
        /\ DOMAIN listed = Projects /\ DOMAIN before = Projects
    BY <2>1, SavesHere
  <2>3. /\ In(t)' = p /\ Fresh(t)' = Fresh(t) /\ Ids(p)' = Ids(p) /\ (Level(p) => Level(p)')
    BY <2>1 DEF In, Fresh, Ids, Level
  <2>4. ASSUME NEW f \in After(K, "edit", Saves)
        PROVE  f \in KnownSaves(t)'
    <3>1. f \in DOMAIN Saves /\ f \in K /\ f \in {"index", "level", "ahead"}
      BY DEF After, Saves
    <3> QED
      BY <2>1, <2>3, <3>1 DEF KnownSaves
  <2>5. Outline(agenda'[t], KnownSaves(t)', {"level"}, Saves)
    BY <1>1, <2>1, <2>2, <2>4, TurnNext
  <2>6. \A q \in Projects : Undo(q)'
    BY <2>1 DEF Saved, Undo
  <2> QED
    BY <2>1, <2>2, <2>5, <2>6 DEF Saving
<1> QED
  BY <1>2, <1>3, <1>4

\* Between, it writes one file after another.
LEMMA UnpackingSaves ==
    ASSUME Typed, Saved, NEW t \in Terminals, Truncate(t) \/ Unpack(t)
    PROVE  Saving(t)
<1> DEFINE p == In(t)
           K == KnownSaves(t)
           f == Least(sm[t].todo)
<1>1. /\ Do(t, "unpack", <<"unpack">>) /\ At(t, "unpack") /\ UNCHANGED <<cmd, count, faults>>
      /\ sm[t].todo # {} /\ UNCHANGED <<archives, listed, before>>
      /\ \/ src' = [src EXCEPT ![p][f] = Torn] /\ sm' = sm
         \/ /\ src' = [src EXCEPT ![p][f] = sm[t].pick[f]]
            /\ Keep(t, [sm[t] EXCEPT !.todo = @ \ {f}])
  BY DEF Truncate, Unpack, Do, Work
<1>2. /\ DOMAIN sm = Terminals /\ DOMAIN sm[t] = {"todo", "zip", "pick", "index", "was"}
      /\ Outline(agenda[t], K, {"level"}, Saves) /\ K \in SUBSET DOMAIN Saves /\ p \in Projects
      /\ "restoring" \in K /\ "level" \in K /\ sm[t].todo \subseteq Files
      /\ DOMAIN src = Projects /\ DOMAIN src[p] = Files
      /\ DOMAIN listed = Projects /\ DOMAIN before = Projects
  BY <1>1, SavesHere DEF Steps
<1>3. f \in Files /\ f \in sm[t].todo
  <2>1. sm[t].todo \in SUBSET Nat
    BY <1>2, FilesAreNatural DEF Files
  <2> QED
    BY <1>1, <1>2, <2>1, LeastIsIn
<1> HIDE DEF f
<1>4. /\ sm'[t].zip = sm[t].zip /\ sm'[t].index = sm[t].index /\ sm'[t].pick = sm[t].pick
      /\ \A g : g \notin sm'[t].todo => g \notin sm[t].todo \/ g = f
  BY <1>1, <1>2 DEF Keep
<1>5. /\ \A g \in Files : g # f => src'[p][g] = src[p][g]
      /\ f \notin sm'[t].todo => src'[p][f] = sm[t].pick[f]
  BY <1>1, <1>2, <1>3 DEF Keep
<1>6. DOMAIN sm[t].pick \subseteq Files
  BY DEF Typed, Shaped, SnapshotsShaped, WorkShaped
<1>7. /\ In(t)' = p /\ Fresh(t)' = Fresh(t) /\ Ids(p)' = Ids(p) /\ (Level(p) => Level(p)')
  BY <1>1 DEF In, Fresh, Ids, Level
<1>8. \A g \in DOMAIN sm'[t].pick \ sm'[t].todo : src'[In(t)'][g] = sm'[t].pick[g]
  <2>1. \A g \in DOMAIN sm[t].pick \ sm[t].todo : src[p][g] = sm[t].pick[g]
    BY <1>2 DEF KnownSaves
  <2> QED
    BY <1>4, <1>5, <1>6, <1>7, <2>1
<1> DEFINE G == KnownSaves(t)'
           P == After(K, "unpack", Saves)
<1>9. G \in SUBSET DOMAIN Saves /\ P \in SUBSET DOMAIN Saves
  BY DEF KnownSaves, After
<1>10. {"restoring", "level"} \subseteq G
  BY <1>2, <1>7, <1>8 DEF KnownSaves
<1>11. P \subseteq G \cup {"restored"}
  <2>1. ASSUME NEW g \in P, g # "restored"
        PROVE  g \in G
    <3>1. g \in DOMAIN Saves /\ g \in K /\ g \in {"restoring", "index", "level", "ahead"}
      BY <2>1 DEF After, Saves
    <3> QED
      BY <1>1, <1>4, <1>7, <1>8, <3>1 DEF KnownSaves
  <2> HIDE DEF G, P
  <2> QED
    BY <2>1
<1>12. Ready(G, "unpack", Saves) /\ P \subseteq After(G, "unpack", Saves)
  <2>1. "listing" \notin P /\ "whole" \notin P /\ "kept" \notin P /\ "saved" \notin P
    BY DEF After, Saves
  <2> HIDE DEF G, P
  <2> QED
    BY <1>9, <1>10, <1>11, <2>1 DEF Ready, After, Saves
<1> HIDE DEF G, P
<1>13. Outline(<<"unpack">>, G, P, Saves)
  BY <1>9, <1>12, One DEF Steps
<1>14. Outline(agenda'[t], G, {"level"}, Saves)
  BY <1>1, <1>2, <1>13, Turn DEF P
<1>15. \A q \in Projects : Undo(q)'
  BY <1>1 DEF Saved, Undo
<1> QED
  BY <1>1, <1>2, <1>14, <1>15 DEF Saving, G

\* Every step keeps the invariant of the snapshots.
LEMMA StepSaves ==
    ASSUME Typed, Single, ~overlapped, Saved, NEW t \in Terminals, Step(t)
    PROVE  Saved'
<1>1. CASE (KeysStep(t) \/ ProjectsStep(t) \/ MoveAway(t)) /\ UNCHANGED snapshotVars
  BY <1>1, StrangersSave, StepGoes, SavesAssembled
<1>2. CASE SnapshotsStep(t)
  <2>1. CASE UnpackFails(t)
    <3>1. <<>> \in Seq(LevelSteps) /\ <<"stop", "start">> \in Seq(LevelSteps)
      BY DEF LevelSteps, Steps
    <3>2. \E m \in Seq(LevelSteps) : Fails(t, "unpack", m)
      BY <2>1, <3>1 DEF UnpackFails
    <3>3. UNCHANGED snapshotVars /\ UNCHANGED <<cmd, count>>
      BY <2>1 DEF UnpackFails, Fails
    <3> QED
      BY <3>2, <3>3, SavesEnd, StepGoes, SavesAssembled
  <2>2. CASE ~UnpackFails(t)
    BY <1>2, <2>2, ListingSaves, StoringSaves, FindingSaves, WritingSaves, UnpackingSaves,
       StepGoes, SavesAssembled DEF SnapshotsStep
  <2> QED
    BY <2>1, <2>2
<1>3. CASE WasRunning(t, svc[In(t)] # None)
  <2>1. (svc[In(t)] # None) \in BOOLEAN
    OBVIOUS
  <2> QED
    BY <1>3, <2>1, WritingSaves, StepGoes, SavesAssembled
<1> QED
  BY <1>1, <1>2, <1>3 DEF Step

\* What a command other than a snapshot and a rollback does leaves the list level.
LEMMA ProgramsLevel ==
    ASSUME NEW op \in DOMAIN Program, op \notin {"snapshot", "rollback"}
    PROVE  Program[op] \in Seq(LevelSteps)
<1> DEFINE L == Seq(LevelSteps)
<1>1. \A a, b \in L : a \o b \in L
  OBVIOUS
<1>2. /\ <<"ensure">> \in L /\ Publish \in L /\ UseKey \in L /\ DeleteSecret \in L
      /\ UseRecovery \in L /\ Move \in L /\ Deploy \in L /\ Stop \in L /\ Restart \in L
      /\ InstallEntry \in L /\ RemoveEntry \in L /\ Edit \in L
      /\ <<"readSecrets", "writeSecret">> \in L /\ <<"ensure", "readSecret">> \in L
      /\ <<"decrypt">> \in L /\ <<"ensure", "checkRecovery">> \in L
      /\ <<"writeRecovery", "printRecovery">> \in L
  BY DEF Publish, UseKey, DeleteSecret, UseRecovery, Move, Deploy, Stop, Restart, InstallEntry,
         RemoveEntry, Edit, LevelSteps, Steps
<1> HIDE DEF L
<1>3. SetSecret \in L /\ GetSecret \in L /\ CreateRecovery \in L
  BY <1>1, <1>2 DEF SetSecret, GetSecret, CreateRecovery
<1>4. Program[op] \in L
  BY <1>2, <1>3 DEF Program
<1> QED
  BY <1>4 DEF L

\* The steps of a snapshot, and those of a rollback, make the list level again.
LEMMA SnapshotOutlined ==
    /\ Outline(TakeSnapshot, {"level"}, {"level"}, Saves)
    /\ Outline(TakeSnapshot, {"level"}, {"level", "saved"}, Saves)
<1> DEFINE A == {"level"}
           B == {"level", "listing"}
           C == {"level", "whole"}
           D == {"kept", "ahead"}
           E == {"kept", "ahead", "index"}
           F == {"level", "saved"}
<1>1. /\ A \in SUBSET DOMAIN Saves /\ B \in SUBSET DOMAIN Saves /\ C \in SUBSET DOMAIN Saves
      /\ D \in SUBSET DOMAIN Saves /\ E \in SUBSET DOMAIN Saves /\ F \in SUBSET DOMAIN Saves
  BY DEF Saves
<1>2. /\ "ensure" \in Steps /\ "list" \in Steps /\ "pack" \in Steps /\ "store" \in Steps
      /\ "readIndex" \in Steps /\ "saveIndex" \in Steps
  BY DEF Steps
<1>3. /\ Ready(A, "ensure", Saves) /\ A \subseteq After(A, "ensure", Saves)
      /\ Ready(A, "list", Saves) /\ B \subseteq After(A, "list", Saves)
      /\ Ready(B, "pack", Saves) /\ C \subseteq After(B, "pack", Saves)
  BY DEF Ready, After, Saves, Steps
<1>4. /\ Ready(C, "store", Saves) /\ D \subseteq After(C, "store", Saves)
      /\ Ready(D, "readIndex", Saves) /\ E \subseteq After(D, "readIndex", Saves)
      /\ Ready(E, "saveIndex", Saves) /\ F \subseteq After(E, "saveIndex", Saves)
  BY DEF Ready, After, Saves, Steps
<1>5. A \subseteq F
  OBVIOUS
<1> HIDE DEF A, B, C, D, E, F
<1>6. Outline(<<"ensure", "list", "pack">>, A, C, Saves)
  BY <1>1, <1>2, <1>3, Three
<1>7. Outline(<<"store", "readIndex", "saveIndex">>, C, F, Saves)
  BY <1>1, <1>2, <1>4, Three
<1>8. Outline(TakeSnapshot, A, F, Saves)
  BY <1>2, <1>6, <1>7, Six DEF TakeSnapshot
<1>9. Outline(TakeSnapshot, A, A, Saves)
  BY <1>5, <1>8, Wider
<1> QED
  BY <1>8, <1>9 DEF A, F

\* A rollback takes a snapshot before anything else.
LEMMA RollbackOutlined == Outline(Rollback, {"level"}, {"level"}, Saves)
<1> DEFINE A == {"level"}
           F == {"level", "saved"}
           G == {"level", "restoring"}
           H == {"level", "restored"}
<1>1. /\ A \in SUBSET DOMAIN Saves /\ F \in SUBSET DOMAIN Saves /\ G \in SUBSET DOMAIN Saves
      /\ H \in SUBSET DOMAIN Saves
  BY DEF Saves
<1>2. /\ "ensure" \in Steps /\ "find" \in Steps /\ "wasRunning" \in Steps /\ "halt" \in Steps
      /\ "unpack" \in Steps /\ "revive" \in Steps /\ "report" \in Steps
  BY DEF Steps
<1>3. /\ Ready(A, "ensure", Saves) /\ A \subseteq After(A, "ensure", Saves)
      /\ Ready(A, "find", Saves) /\ A \subseteq After(A, "find", Saves)
  BY DEF Ready, After, Saves, Steps
<1>4. /\ Ready(F, "wasRunning", Saves) /\ G \subseteq After(F, "wasRunning", Saves)
      /\ Ready(G, "halt", Saves) /\ G \subseteq After(G, "halt", Saves)
      /\ Ready(G, "unpack", Saves) /\ H \subseteq After(G, "unpack", Saves)
      /\ Ready(H, "revive", Saves) /\ H \subseteq After(H, "revive", Saves)
      /\ Ready(H, "report", Saves) /\ A \subseteq After(H, "report", Saves)
  BY DEF Ready, After, Saves, Steps
<1>5. Outline(TakeSnapshot, A, F, Saves)
  BY SnapshotOutlined
<1> HIDE DEF A, F, G, H
<1>6. Outline(<<"ensure", "find">>, A, A, Saves)
  BY <1>1, <1>2, <1>3, Two
<1>7. Outline(<<"wasRunning", "halt">>, F, G, Saves)
  BY <1>1, <1>2, <1>4, Two
<1>8. Outline(<<"unpack", "revive", "report">>, G, A, Saves)
  BY <1>1, <1>2, <1>4, Three
<1>9. Outline(<<"wasRunning", "halt", "unpack", "revive", "report">>, F, A, Saves)
  BY <1>2, <1>7, <1>8, Five
<1>10. Outline(<<"ensure", "find">> \o TakeSnapshot, A, F, Saves)
  BY <1>5, <1>6, Join
<1>11. Outline(Rollback, A, A, Saves)
  BY <1>9, <1>10, Join DEF Rollback
<1> QED
  BY <1>11 DEF A

\* Nobody is busy where a command begins, unless two have overlapped; so the command finds
\* its project as those before it have left it.
LEMMA BeginTurn ==
    ASSUME Typed, Single, NEW t \in Terminals, Begin(t), ~overlapped'
    PROVE  /\ ~overlapped /\ Single' /\ faults' = faults
           /\ \A q \in Projects : Idle(q)
           /\ \A u \in Terminals : Busy(u)' => u = t
           /\ In(t)' \in Projects /\ cmd'[t] \in Commands /\ cmd'[t].op \in DOMAIN Program
           /\ agenda'[t] = Program[cmd'[t].op]
           /\ \A q \in Projects : Idle(q)' => Idle(q)
<1> DEFINE c == Head(script[t])
<1>1. /\ ~Busy(t) /\ script[t] # <<>> /\ cmd' = [cmd EXCEPT ![t] = c]
      /\ agenda' = [agenda EXCEPT ![t] = Program[c.op]] /\ faults' = faults
      /\ ~overlapped /\ \A u \in Terminals : ~Busy(u)
  BY DEF Begin, Type
<1>2. c \in Commands
  BY <1>1 DEF Typed, Shaped
<1> HIDE DEF c
<1>3. /\ cmd'[t] = c /\ agenda'[t] = Program[c.op]
      /\ \A u \in Terminals : u # t => agenda'[u] = agenda[u]
  BY <1>1 DEF Typed, Shaped
<1>4. \A u \in Terminals : Busy(u)' => u = t
  BY <1>1, <1>3 DEF Busy
<1>5. In(t)' \in Projects
  BY <1>2, <1>3, ScriptsAreCommands DEF In
<1> QED
  BY <1>1, <1>2, <1>3, <1>4, <1>5, CommandsAreKnown DEF Single, Idle

\* A command that begins keeps the invariant.
LEMMA BeginSaves ==
    ASSUME Typed, Single, Saved, NEW t \in Terminals, Begin(t), ~overlapped'
    PROVE  Saved'
<1>1. /\ \A q \in Projects : Idle(q)
      /\ \A u \in Terminals : Busy(u)' => u = t
      /\ In(t)' \in Projects /\ cmd'[t].op \in DOMAIN Program /\ faults' = faults
      /\ agenda'[t] = Program[cmd'[t].op]
  BY BeginTurn
<1>2. UNCHANGED <<src, archives, listed, before>>
  BY DEF Begin, SnapshotsBegin, snapshotFiles
<1>3. \A q \in Projects : Level(q)' /\ Undo(q)'
  BY <1>1, <1>2 DEF Saved, Level, Undo, Ids
<1>4. Level(In(t))'
  BY <1>1, <1>3
<1>5. {"level"} \subseteq KnownSaves(t)'
  BY <1>4 DEF KnownSaves, Saves
<1>6. Outline(Program[cmd'[t].op], {"level"}, {"level"}, Saves)
  <2>1. CASE cmd'[t].op \notin {"snapshot", "rollback"}
    BY <1>1, <2>1, ProgramsLevel, LevelStays
  <2>2. CASE cmd'[t].op = "snapshot"
    BY <2>2, SnapshotOutlined DEF Program
  <2>3. CASE cmd'[t].op = "rollback"
    BY <2>3, RollbackOutlined DEF Program
  <2> QED
    BY <2>1, <2>2, <2>3
<1>7. Outline(agenda'[t], KnownSaves(t)', {"level"}, Saves)
  BY <1>1, <1>5, <1>6, Wider
<1> QED
  BY <1>1, <1>2, <1>3, <1>7 DEF Saved

\* So does everything that may happen.
LEMMA NextSaves ==
    ASSUME Typed, Single, ~overlapped => Saved, Next
    PROVE  Single' /\ (~overlapped' => Saved')
<1>1. PICK t \in Terminals :
        Begin(t) \/ Step(t) \/ (Interrupt(t) /\ UNCHANGED <<keyVars, projectVars, snapshotVars>>)
  BY DEF Next
<1>2. CASE Begin(t)
  <2>1. CASE ~overlapped'
    BY <1>2, <2>1, BeginTurn, BeginSaves
  <2>2. CASE overlapped'
    BY <2>2 DEF Single
  <2> QED
    BY <2>1, <2>2
<1>3. CASE Step(t) \/ (Interrupt(t) /\ UNCHANGED snapshotVars)
  <2>1. Acts(t)
    BY <1>3, StepGoes DEF Interrupt, Acts
  <2>2. overlapped' = overlapped
    BY <2>1 DEF Acts, Do, Quit, Fails
  <2>3. CASE overlapped
    BY <2>2, <2>3 DEF Single
  <2>4. CASE ~overlapped /\ Step(t)
    BY <2>1, <2>4, TurnOf, StepSaves
  <2>5. CASE ~overlapped /\ Interrupt(t) /\ UNCHANGED snapshotVars
    <3>1. <<>> \in Seq(LevelSteps)
      OBVIOUS
    <3>2. (\E x : \E m \in Seq(LevelSteps) : Fails(t, x, m)) /\ UNCHANGED <<cmd, count>>
      BY <2>5, <3>1 DEF Interrupt, Fails
    <3>3. Saving(t)
      BY <2>5, <3>2, SavesEnd
    <3> QED
      BY <2>1, <2>5, <3>3, TurnOf, SavesAssembled
  <2> QED
    BY <1>1, <1>3, <2>3, <2>4, <2>5
<1> QED
  BY <1>1, <1>2, <1>3

\* It holds at first ...
LEMMA InitSaves ==
    ASSUME Init
    PROVE  Single /\ Saved
<1>1. \A t \in Terminals : ~Busy(t)
  BY DEF Init, TerminalsInit, Busy
<1>2. DOMAIN listed = Projects /\ DOMAIN before = Projects
  BY DEF Init, SnapshotsInit
<1>3. \A p \in Projects : Undo(p) /\ Level(p)
  BY DEF Init, SnapshotsInit, Undo, Level, Ids
<1> QED
  BY <1>1, <1>2, <1>3 DEF Single, Saved

\* ... and ever after.
LEMMA SavesInvariance == Spec => [](Typed /\ Single /\ (~overlapped => Saved))
<1> DEFINE I == Typed /\ Single /\ (~overlapped => Saved)
<1>1. Init => I
  BY InitTypes, InitSaves
<1>2. I /\ [Next]_vars => I'
  <2>1. CASE Next
    BY <2>1, NextTypes, NextSaves
  <2>2. ASSUME I, UNCHANGED vars
        PROVE  I'
    <3>1. UNCHANGED <<terminalVars, snapshotVars>> /\ Typed'
      BY <2>2, StutterTypes DEF vars
    <3>2. Single'
      BY <2>2, <3>1 DEF Single, Busy, terminalVars
    <3>3. /\ UNCHANGED <<src, archives, listed, before, sm, cmd, agenda, count, overlapped, faults>>
      BY <3>1 DEF terminalVars, snapshotVars
    <3>4. \A t \in Terminals : KnownSaves(t)' = KnownSaves(t)
      BY <3>3 DEF KnownSaves, In, Fresh, Kept, Source, Present, Level, Ids
    <3>5. Saved => Saved'
      BY <3>3, <3>4 DEF Saved, Undo, Idle, Busy, In, Level, Ids
    <3> QED
      BY <2>2, <3>1, <3>2, <3>3, <3>5
  <2> QED
    BY <2>1, <2>2
<1> QED
  BY <1>1, <1>2, PTL DEF Spec

\* "Safely restore": as long as commands take turns, from the first file that a rollback
\* writes - whether it ends, fails midway or is interrupted, and whatever is typed after
\* it - a listed snapshot has exactly the source it found (snapshots.py 201-235).
THEOREM RollbacksCanBeUndone == Spec => []RollbackCanBeUndone
<1>1. (~overlapped => Saved) => RollbackCanBeUndone
  BY DEF Saved, Undo, RollbackCanBeUndone
<1> QED
  BY SavesInvariance, <1>1, PTL

\* A rollback that reports success has put every file of its snapshot back: nothing else
\* writes the source between, also when its service was stopped and started
\* (snapshots.py 218-246).
THEOREM RollbacksRestore == Spec => []RollbackRestores
<1>1. Typed /\ (~overlapped => Saved) => RollbackRestores
  <2> SUFFICES ASSUME Typed, ~overlapped => Saved, NEW t \in Terminals, At(t, "report"),
                      ~overlapped
               PROVE  \A f \in DOMAIN Work(t).pick : src[In(t)][f] = Work(t).pick[f]
    BY DEF RollbackRestores
  <2>1. "restored" \in KnownSaves(t)
    BY SavesHere
  <2> QED
    BY <2>1 DEF KnownSaves, Work
<1> QED
  BY SavesInvariance, <1>1, PTL

-----------------------------------------------------------------------------
(* The publish history *)

\* The facts about the manifest of the project a command works in.
Counts == [
    now  |-> [need |-> {"countRun", "countEnd"}, give |-> {"ensure", "create"},
              lose |-> {"countRun", "countEnd"}],
    none |-> [need |-> {"create"}, give |-> {}, lose |-> Steps],
    even |-> [need |-> Steps \ {"share", "ensure", "create", "countEnd"},
              give |-> {"create", "countEnd"}, lose |-> {"countRun"}],
    odd  |-> [need |-> {"countEnd"}, give |-> {"countRun"}, lose |-> {"countEnd"}] ]

\* Every publication of project p is counted and ended.
Even(p) == manifest[p] # None => manifest[p].runs = runs[p] /\ manifest[p].ends = runs[p]

\* The facts that hold of the command at terminal t and the project it works in.
KnownCounts(t) == {f \in DOMAIN Counts :
    /\ f = "now" => manifest[In(t)] # None /\ km[t].seen = manifest[In(t)]
    /\ f = "none" => manifest[In(t)] = None
    /\ f = "even" => Even(In(t))
    /\ f = "odd" => /\ manifest[In(t)] # None
                    /\ manifest[In(t)].runs = runs[In(t)]
                    /\ manifest[In(t)].ends + 1 = runs[In(t)]}

\* The inductive invariant, as long as commands take turns and none is interrupted.
Counted ==
    /\ \A t \in Terminals : Busy(t) => Outline(agenda[t], KnownCounts(t), {"even"}, Counts)
    /\ \A p \in Projects : (manifest[p] = None => runs[p] = 0) /\ (Idle(p) => Even(p))

\* What a step at terminal t does to the publish history.
Counting(t) ==
    /\ Outline(agenda'[t], KnownCounts(t)', {"even"}, Counts)
    /\ \A q \in Projects : manifest'[q] = None => runs'[q] = 0
    /\ \A q \in Projects : q # In(t) => manifest'[q] = manifest[q] /\ runs'[q] = runs[q]

\* The invariant is kept.
LEMMA CountsAssembled ==
    ASSUME Typed, Single, ~overlapped, Counted, NEW t \in Terminals, Acts(t), Counting(t)
    PROVE  Counted'
<1>1. /\ \A u \in Terminals : Busy(u)' => u = t
      /\ \A q \in Projects : q # In(t) => Idle(q)
      /\ \A q \in Projects : Idle(q)' => q # In(t) \/ agenda'[t] = <<>>
      /\ In(t)' = In(t)
  BY TurnOf
<1>2. ASSUME NEW q \in Projects, q # In(t)
      PROVE  Even(q)'
  <2>1. Even(q)
    BY <1>1, <1>2 DEF Counted
  <2> QED
    BY <1>2, <2>1 DEF Even, Counting
<1>3. agenda'[t] = <<>> => Even(In(t))'
  <2>1. agenda'[t] = <<>> => {"even"} \subseteq KnownCounts(t)'
    BY LeftBehind DEF Counting
  <2> QED
    BY <2>1 DEF KnownCounts
<1>4. ASSUME NEW q \in Projects, Idle(q)'
      PROVE  Even(q)'
  <2>1. CASE q # In(t)
    BY <1>2, <2>1
  <2>2. CASE q = In(t)
    BY <1>1, <1>3, <1>4, <2>2 DEF Even
  <2> QED
    BY <2>1, <2>2
<1> QED
  BY <1>1, <1>4 DEF Counted, Counting

\* The steps that need nothing but an even count, and leave it so.
EvenSteps == Steps \ {"create", "countRun", "countEnd"}

\* They have an outline from it to it.
LEMMA EvenStays ==
    ASSUME NEW m \in Seq(EvenSteps)
    PROVE  Outline(m, {"even"}, {"even"}, Counts)
<1>1. ASSUME NEW x \in EvenSteps
      PROVE  x \in Steps /\ Ready({"even"}, x, Counts) /\ \A f \in {"even"} : x \notin Counts[f].lose
  <2>1. x \in Steps /\ x \notin Counts["even"].lose
    BY DEF EvenSteps, Counts
  <2>2. ASSUME NEW f \in DOMAIN Counts, x \in Counts[f].need
        PROVE  f = "even"
    BY <2>2 DEF EvenSteps, Counts
  <2> QED
    BY <2>1, <2>2 DEF Ready
<1>2. m \in Seq(Steps) /\ \A i \in 1..Len(m) : m[i] \in EvenSteps
  BY DEF EvenSteps
<1>3. {"even"} \in SUBSET DOMAIN Counts
  BY DEF Counts
<1> QED
  BY <1>1, <1>2, <1>3, Steady

\* What a step finds.
LEMMA CountsHere ==
    ASSUME Typed, Counted, NEW t \in Terminals, NEW x, At(t, x)
    PROVE  /\ Busy(t) /\ In(t) \in Projects /\ KnownCounts(t) \in SUBSET DOMAIN Counts
           /\ Outline(agenda[t], KnownCounts(t), {"even"}, Counts)
           /\ x \in Steps \ {"share", "ensure", "create", "countEnd"} => "even" \in KnownCounts(t)
           /\ x \in {"countRun", "countEnd"} => "now" \in KnownCounts(t)
           /\ x = "create" => "none" \in KnownCounts(t)
           /\ x = "countEnd" => "odd" \in KnownCounts(t)
<1>1. Busy(t) /\ In(t) \in Projects /\ KnownCounts(t) \in SUBSET DOMAIN Counts
  BY WorksInProject DEF At, KnownCounts
<1>2. Outline(agenda[t], KnownCounts(t), {"even"}, Counts)
  BY <1>1 DEF Counted
<1>3. \A f \in DOMAIN Counts : x \in Counts[f].need => f \in KnownCounts(t)
  BY <1>2, TurnReady
<1>4. /\ x \in Steps \ {"share", "ensure", "create", "countEnd"} => "even" \in KnownCounts(t)
      /\ x \in {"countRun", "countEnd"} => "now" \in KnownCounts(t)
      /\ x = "create" => "none" \in KnownCounts(t)
      /\ x = "countEnd" => "odd" \in KnownCounts(t)
  BY <1>3 DEF Counts
<1> QED
  BY <1>1, <1>2, <1>4

\* The steps that leave the history and what is known of it as they are.
LEMMA SameCounts ==
    ASSUME Typed, Counted, NEW t \in Terminals,
           NEW x \in Steps \ {"share", "ensure", "create", "countRun", "countEnd"},
           (\E m \in Seq(EvenSteps) : Do(t, x, m)) \/ Quit(t, x),
           manifest' = manifest, runs' = runs, km'[t].seen = km[t].seen
    PROVE  Counting(t)
<1>1. At(t, x) /\ cmd' = cmd
  BY DEF Do, Quit
<1>2. /\ KnownCounts(t) \in SUBSET DOMAIN Counts /\ "even" \in KnownCounts(t)
      /\ Outline(agenda[t], KnownCounts(t), {"even"}, Counts)
  BY <1>1, CountsHere
<1>3. KnownCounts(t)' = KnownCounts(t)
  BY <1>1 DEF KnownCounts, Even, In
<1>4. Outline(agenda'[t], KnownCounts(t)', {"even"}, Counts)
  <2>1. CASE Quit(t, x)
    BY <1>2, <1>3, <2>1, TurnEnds
  <2>2. CASE \E m \in Seq(EvenSteps) : Do(t, x, m)
    <3>1. PICK m \in Seq(EvenSteps) : Do(t, x, m)
      BY <2>2
    <3>2. Foreign(x, EvenSteps, Counts)
      <4>1. EvenSteps \subseteq Steps
        BY DEF EvenSteps
      <4>2. ASSUME NEW y \in EvenSteps, NEW f \in DOMAIN Counts
            PROVE  (y \in Counts[f].need => f = "even") /\ (y \in Counts[f].lose => f = "none")
        BY DEF EvenSteps, Counts
      <4>3. /\ x \in Counts["even"].need /\ x \notin Counts["even"].lose
            /\ x \in Counts["none"].lose /\ \A f \in DOMAIN Counts : x \notin Counts[f].give
        BY DEF Counts
      <4> QED
        BY <4>1, <4>2, <4>3 DEF Foreign
    <3> QED
      BY <1>2, <1>3, <3>1, <3>2, Passes
  <2> QED
    BY <2>1, <2>2
<1> QED
  BY <1>4 DEF Counting, Counted

\* The steps on keys, secrets and recovery keys are such.
LEMMA KeysCounts ==
    ASSUME Typed, Counted, NEW t \in Terminals, KeyStep(t) \/ SecretStep(t) \/ RecoveryStep(t)
    PROVE  Counting(t)
<1> DEFINE L == Seq(EvenSteps)
           S == {"root", "makeRoot", "confirmRoot", "unlock", "wrap", "readSecrets",
                 "writeSecret", "dropSecret", "readSecret", "decrypt", "checkRecovery",
                 "writeRecovery", "printRecovery", "openRecovery"}
<1>1. <<>> \in L /\ <<"makeRoot", "confirmRoot">> \in L /\ <<"ensure", "root", "wrap">> \in L
  BY DEF EvenSteps, Steps
<1>2. S \subseteq Steps \ {"share", "ensure", "create", "countRun", "countEnd"}
  BY DEF Steps
<1>3. DOMAIN km = Terminals /\ DOMAIN km[t] = {"app", "seen", "root", "key", "lock", "held"}
  BY DEF Typed, TypeOK, KeysTypeOK, Shaped, Blank
<1> HIDE DEF L
<1>4. /\ \E x \in S : (\E m \in L : Do(t, x, m)) \/ Quit(t, x)
      /\ manifest' = manifest /\ runs' = runs /\ km'[t].seen = km[t].seen
  <2>1. CASE RootFound(t) \/ RootMissing(t) \/ MakeRoot(t) \/ ConfirmRoot(t)
    BY <1>1, <1>3, <2>1 DEF RootFound, RootMissing, MakeRoot, ConfirmRoot, AllButKeys, keyVars
  <2>2. CASE Unlock(t) \/ UnlockMisses(t) \/ Wrap(t)
    BY <1>1, <1>3, <2>2 DEF Unlock, UnlockMisses, Wrap, AllButKeys
  <2>3. CASE SecretStep(t)
    BY <1>1, <1>3, <2>3 DEF SecretStep, ReadSecrets, WriteSecret, DropSecret, ReadSecret, Decrypt,
                            AllButSecrets, keyVars
  <2>4. CASE RecoveryStep(t)
    BY <1>1, <1>3, <2>4 DEF RecoveryStep, CheckRecovery, WriteRecovery, PrintRecovery,
                            OpenRecovery, AllButRecovery, keyVars
  <2> QED
    BY <2>1, <2>2, <2>3, <2>4 DEF KeyStep
<1> HIDE DEF S
<1>5. PICK x \in S : (\E m \in L : Do(t, x, m)) \/ Quit(t, x)
  BY <1>4
<1> QED
  BY <1>2, <1>4, <1>5, SameCounts DEF L

\* Loading and making a manifest.
LEMMA EnsureCounts ==
    ASSUME Typed, Counted, NEW t \in Terminals, EnsureFinds(t) \/ EnsureMisses(t) \/ Create(t)
    PROVE  Counting(t)
<1> DEFINE p == In(t)
           K == KnownCounts(t)
<1>1. KnownCounts(t)' \in SUBSET DOMAIN Counts
  BY DEF KnownCounts
<1>2. manifest \in [Projects -> Manifests \cup {None}] /\ DOMAIN manifest = Projects
  BY DEF Typed, TypeOK, KeysTypeOK
<1>3. CASE EnsureFinds(t)
  <2>1. /\ Do(t, "ensure", <<>>) /\ At(t, "ensure") /\ cmd' = cmd /\ manifest[p] # None
        /\ Seen(t, manifest[p]) /\ manifest' = manifest /\ runs' = runs
    BY <1>3 DEF EnsureFinds, Do
  <2>2. p \in Projects /\ Outline(agenda[t], K, {"even"}, Counts) /\ K \in SUBSET DOMAIN Counts
    BY <2>1, CountsHere
  <2>3. km'[t].seen = manifest[p]
    BY <1>2, <2>1, <2>2, SeenTypes
  <2>4. ASSUME NEW f \in After(K, "ensure", Counts)
        PROVE  f \in KnownCounts(t)'
    <3>1. f \in DOMAIN Counts /\ (f = "now" \/ f \in K)
      BY DEF After, Counts
    <3> QED
      BY <2>1, <2>3, <3>1 DEF KnownCounts, Even, In
  <2>5. Outline(agenda'[t], KnownCounts(t)', {"even"}, Counts)
    BY <1>1, <2>1, <2>2, <2>4, TurnNext
  <2> QED
    BY <2>1, <2>5 DEF Counting, Counted
<1>4. CASE EnsureMisses(t)
  <2>1. /\ Do(t, "ensure", <<"create">>) /\ At(t, "ensure") /\ cmd' = cmd /\ manifest[p] = None
        /\ UNCHANGED keyVars /\ manifest' = manifest /\ runs' = runs /\ km' = km
    BY <1>4 DEF EnsureMisses, Do, keyVars
  <2>2. p \in Projects /\ Outline(agenda[t], K, {"even"}, Counts) /\ K \in SUBSET DOMAIN Counts
    BY <2>1, CountsHere
  <2>3. "none" \in KnownCounts(t)' /\ "odd" \notin K
    BY <2>1 DEF KnownCounts, In, Counts
  <2> DEFINE G == KnownCounts(t)'
             P == After(K, "ensure", Counts)
  <2>4. G \in SUBSET DOMAIN Counts /\ P \in SUBSET DOMAIN Counts /\ P \subseteq {"now", "even"}
    <3>1. G \in SUBSET DOMAIN Counts
      BY DEF KnownCounts
    <3> QED
      BY <2>3, <3>1 DEF After, Counts, Steps
  <2>5. "none" \in G
    BY <2>3
  <2> HIDE DEF G, P
  <2>6. Ready(G, "create", Counts) /\ P \subseteq After(G, "create", Counts)
    BY <2>4, <2>5 DEF Ready, After, Counts
  <2>7. Outline(<<"create">>, G, P, Counts)
    BY <2>4, <2>6, One DEF Steps
  <2>8. Outline(agenda'[t], G, {"even"}, Counts)
    BY <2>1, <2>2, <2>7, Turn DEF P
  <2> QED
    BY <2>1, <2>8 DEF Counting, Counted, G
<1>5. CASE Create(t)
  <2> DEFINE m == [id |-> Fresh(t), runs |-> 0, ends |-> 0]
  <2>1. /\ Do(t, "create", <<>>) /\ At(t, "create") /\ cmd' = cmd
        /\ manifest' = [manifest EXCEPT ![p] = m] /\ runs' = runs /\ Seen(t, manifest'[p])
    BY <1>5 DEF Create, Do
  <2>2. /\ p \in Projects /\ Outline(agenda[t], K, {"even"}, Counts) /\ K \in SUBSET DOMAIN Counts
        /\ "none" \in K
    BY <2>1, CountsHere
  <2>3. /\ manifest'[p] = m /\ m \in Manifests /\ m.runs = 0 /\ m.ends = 0
        /\ \A q \in Projects : q # p => manifest'[q] = manifest[q]
    BY <1>2, <2>1, <2>2 DEF Typed, Shaped, Manifests, Tags, Fresh
  <2>4. m # None
    BY <2>3, NoneIsNoEnvelope
  <2> HIDE DEF m
  <2>5. km'[t].seen = m
    BY <2>1, <2>3, SeenTypes
  <2>6. runs[p] = 0
    BY <2>2 DEF Counted, KnownCounts
  <2>7. In(t)' = p
    BY <2>1 DEF In
  <2>8. ASSUME NEW f \in After(K, "create", Counts)
        PROVE  f \in KnownCounts(t)'
    <3>1. f \in DOMAIN Counts /\ (f \in {"now", "even"} \/ f \in K) /\ f # "none"
      BY DEF After, Counts, Steps
    <3>2. f # "odd"
      BY <2>2, <3>1 DEF KnownCounts
    <3>3. f = "now" \/ f = "even"
      BY <3>1, <3>2 DEF Counts
    <3> QED
      BY <2>1, <2>3, <2>4, <2>5, <2>6, <2>7, <3>1, <3>3 DEF KnownCounts, Even
  <2>9. Outline(agenda'[t], KnownCounts(t)', {"even"}, Counts)
    BY <1>1, <2>1, <2>2, <2>8, TurnNext
  <2>10. \A q \in Projects : manifest'[q] = None => runs'[q] = 0
    BY <2>1, <2>3, <2>6 DEF Counted
  <2> QED
    BY <2>1, <2>3, <2>9, <2>10 DEF Counting
<1> QED
  BY <1>3, <1>4, <1>5

\* Counting a publication, and its end.
LEMMA CountCounts ==
    ASSUME Typed, Counted, NEW t \in Terminals, CountRun(t) \/ Share(t) \/ CountEnd(t)
    PROVE  Counting(t)
<1> DEFINE p == In(t)
           K == KnownCounts(t)
<1>1. KnownCounts(t)' \in SUBSET DOMAIN Counts
  BY DEF KnownCounts
<1>2. /\ manifest \in [Projects -> Manifests \cup {None}] /\ DOMAIN manifest = Projects
      /\ DOMAIN runs = Projects /\ \A q \in Projects : runs[q] \in Nat
  BY DEF Typed, TypeOK, KeysTypeOK
<1>3. CASE Share(t)
  <2>1. Do(t, "share", <<>>) /\ At(t, "share") /\ cmd' = cmd /\ UNCHANGED keyVars
    BY <1>3 DEF Share, Do
  <2>2. Outline(agenda[t], K, {"even"}, Counts) /\ K \in SUBSET DOMAIN Counts
    BY <2>1, CountsHere
  <2>3. KnownCounts(t)' = K
    BY <2>1 DEF KnownCounts, Even, In, keyVars
  <2>4. After(K, "share", Counts) \subseteq K
    BY DEF After, Counts
  <2>5. Outline(agenda'[t], KnownCounts(t)', {"even"}, Counts)
    BY <2>1, <2>2, <2>3, <2>4, TurnNext
  <2> QED
    BY <2>1, <2>5 DEF Counting, Counted, keyVars
<1>4. CASE CountRun(t)
  <2> DEFINE m == [km[t].seen EXCEPT !.runs = @ + 1]
  <2>1. /\ Do(t, "countRun", <<>>) /\ At(t, "countRun") /\ cmd' = cmd /\ km' = km
        /\ manifest' = [manifest EXCEPT ![p] = m] /\ runs' = [runs EXCEPT ![p] = runs[p] + 1]
    BY <1>2, <1>4 DEF CountRun, Do
  <2>2. /\ p \in Projects /\ Outline(agenda[t], K, {"even"}, Counts) /\ K \in SUBSET DOMAIN Counts
        /\ "now" \in K /\ "even" \in K
    BY <2>1, CountsHere DEF Steps
  <2>3. /\ manifest[p] # None /\ km[t].seen = manifest[p] /\ manifest[p] \in Manifests
        /\ manifest[p].runs = runs[p] /\ manifest[p].ends = runs[p] /\ runs[p] \in Nat
    BY <1>2, <2>2 DEF KnownCounts, Even
  <2>4. m \in Manifests /\ m.runs = runs[p] + 1 /\ m.ends = runs[p]
    BY <2>3 DEF Manifests
  <2>5. m # None
    BY <2>4, NoneIsNoEnvelope
  <2> HIDE DEF m
  <2>6. /\ manifest'[p] = m /\ runs'[p] = runs[p] + 1 /\ In(t)' = p
        /\ \A q \in Projects : q # p => manifest'[q] = manifest[q] /\ runs'[q] = runs[q]
    BY <1>2, <2>1, <2>2 DEF In
  <2>7. ASSUME NEW f \in After(K, "countRun", Counts)
        PROVE  f \in KnownCounts(t)'
    <3>1. f \in DOMAIN Counts /\ (f = "odd" \/ f \in K) /\ f \notin {"none", "now", "even"}
      BY DEF After, Counts, Steps
    <3>2. f = "odd"
      BY <3>1 DEF Counts
    <3> QED
      BY <2>3, <2>4, <2>5, <2>6, <3>1, <3>2 DEF KnownCounts
  <2>8. Outline(agenda'[t], KnownCounts(t)', {"even"}, Counts)
    BY <1>1, <2>1, <2>2, <2>7, TurnNext
  <2>9. \A q \in Projects : manifest'[q] = None => runs'[q] = 0
    BY <2>5, <2>6 DEF Counted
  <2> QED
    BY <2>6, <2>8, <2>9 DEF Counting
<1>5. CASE CountEnd(t)
  <2> DEFINE m == [km[t].seen EXCEPT !.ends = @ + 1]
  <2>1. /\ Do(t, "countEnd", <<>>) /\ At(t, "countEnd") /\ cmd' = cmd /\ km' = km
        /\ manifest' = [manifest EXCEPT ![p] = m] /\ runs' = runs
    BY <1>5 DEF CountEnd, Do
  <2>2. /\ p \in Projects /\ Outline(agenda[t], K, {"even"}, Counts) /\ K \in SUBSET DOMAIN Counts
        /\ "now" \in K /\ "odd" \in K
    BY <2>1, CountsHere
  <2>3. /\ manifest[p] # None /\ km[t].seen = manifest[p] /\ manifest[p] \in Manifests
        /\ manifest[p].runs = runs[p] /\ manifest[p].ends + 1 = runs[p]
    BY <1>2, <2>2 DEF KnownCounts
  <2>4. m \in Manifests /\ m.runs = runs[p] /\ m.ends = runs[p]
    BY <2>3 DEF Manifests
  <2>5. m # None
    BY <2>4, NoneIsNoEnvelope
  <2> HIDE DEF m
  <2>6. /\ manifest'[p] = m /\ In(t)' = p
        /\ \A q \in Projects : q # p => manifest'[q] = manifest[q]
    BY <1>2, <2>1, <2>2 DEF In
  <2>7. ASSUME NEW f \in After(K, "countEnd", Counts)
        PROVE  f \in KnownCounts(t)'
    <3>1. f \in DOMAIN Counts /\ f \notin {"none", "now", "odd"}
      BY DEF After, Counts, Steps
    <3>2. f = "even"
      BY <3>1 DEF Counts
    <3> QED
      BY <2>1, <2>4, <2>6, <3>1, <3>2 DEF KnownCounts, Even
  <2>8. Outline(agenda'[t], KnownCounts(t)', {"even"}, Counts)
    BY <1>1, <2>1, <2>2, <2>7, TurnNext
  <2>9. \A q \in Projects : manifest'[q] = None => runs'[q] = 0
    BY <2>1, <2>5, <2>6 DEF Counted
  <2> QED
    BY <2>1, <2>6, <2>8, <2>9 DEF Counting
<1> QED
  BY <1>3, <1>4, <1>5

\* Every step that does not fail keeps the invariant of the history.
LEMMA StepCounts ==
    ASSUME Typed, Single, ~overlapped, Counted, NEW t \in Terminals, Step(t), faults' = 0
    PROVE  Counted'
<1>1. ASSUME NEW x, NEW m, Fails(t, x, m)
      PROVE  FALSE
  <2>1. faults \in Nat
    BY FaultsAreNatural DEF Typed, TypeOK, TerminalsTypeOK
  <2> QED
    BY <1>1, <2>1 DEF Fails
<1> DEFINE S == Steps \ {"share", "ensure", "create", "countRun", "countEnd"}
           L == Seq(EvenSteps)
<1>2. ASSUME \E x \in S : (\E m \in L : Do(t, x, m)) \/ Quit(t, x), UNCHANGED keyVars
      PROVE  Counting(t)
  <2>1. manifest' = manifest /\ runs' = runs /\ km'[t].seen = km[t].seen
    BY <1>2 DEF keyVars
  <2> QED
    BY <1>2, <2>1, SameCounts
<1>3. CASE KeysStep(t)
  <2>1. CASE CountFails(t)
    BY <1>1, <2>1 DEF CountFails
  <2>2. CASE ~CountFails(t)
    BY <1>3, <2>2, KeysCounts, EnsureCounts, CountCounts, StepGoes, CountsAssembled
       DEF KeysStep, ManifestStep
  <2> QED
    BY <2>1, <2>2
<1>4. CASE ProjectsStep(t) /\ UNCHANGED keyVars
  <2>1. ServiceSteps \subseteq S /\ Seq(ServiceSteps \cup {"ensure"}) \subseteq L
    <3>1. ServiceSteps \cup {"ensure"} \subseteq EvenSteps /\ ServiceSteps \subseteq S
      BY DEF ServiceSteps, EvenSteps, Steps
    <3> QED
      BY <3>1
  <2>2. \E x \in S : (\E m \in L : Do(t, x, m)) \/ Quit(t, x)
    <3> HIDE DEF S, L
    <3> QED
      BY <1>1, <1>4, <2>1, ProjectsAgenda
  <2> QED
    BY <1>2, <1>4, <2>2, StepGoes, CountsAssembled
<1>5. CASE /\ SnapshotsStep(t) \/ WasRunning(t, svc[In(t)] # None)
           /\ UNCHANGED keyVars
  <2>1. SnapshotSteps \subseteq S /\ SnapshotLists \subseteq L
    BY DEF SnapshotSteps, SnapshotLists, EvenSteps, Steps
  <2>2. (svc[In(t)] # None) \in BOOLEAN
    OBVIOUS
  <2>3. \E x \in S : (\E m \in L : Do(t, x, m)) \/ Quit(t, x)
    <3> HIDE DEF S, L
    <3> QED
      BY <1>1, <1>5, <2>1, <2>2, SnapshotAgenda
  <2> QED
    BY <1>2, <1>5, <2>3, StepGoes, CountsAssembled
<1>6. CASE MoveAway(t)
  <2>1. Do(t, "move", <<>>) /\ manifest' = manifest /\ runs' = runs /\ km' = km
    BY <1>6 DEF MoveAway
  <2>2. "move" \in S /\ <<>> \in L
    BY DEF Steps
  <2> QED
    BY <2>1, <2>2, SameCounts, StepGoes, CountsAssembled
<1> QED
  BY <1>3, <1>4, <1>5, <1>6 DEF Step

\* The steps of every command leave an even count.
LEMMA ProgramsEven ==
    ASSUME NEW op \in DOMAIN Program
    PROVE  Outline(Program[op], {"even"}, {"even"}, Counts)
<1> DEFINE L == Seq(EvenSteps)
<1>1. CASE op # "publish"
  <2>1. \A a, b \in L : a \o b \in L
    OBVIOUS
  <2>2. /\ <<"ensure">> \in L /\ UseKey \in L /\ DeleteSecret \in L
        /\ UseRecovery \in L /\ Move \in L /\ Deploy \in L /\ Stop \in L /\ Restart \in L
        /\ InstallEntry \in L /\ RemoveEntry \in L /\ Edit \in L /\ TakeSnapshot \in L
        /\ <<"readSecrets", "writeSecret">> \in L /\ <<"ensure", "readSecret">> \in L
        /\ <<"decrypt">> \in L /\ <<"ensure", "checkRecovery">> \in L
        /\ <<"writeRecovery", "printRecovery">> \in L /\ <<"ensure", "find">> \in L
        /\ <<"wasRunning", "halt", "unpack", "revive", "report">> \in L
    BY DEF UseKey, DeleteSecret, UseRecovery, Move, Deploy, Stop, Restart, InstallEntry,
           RemoveEntry, Edit, TakeSnapshot, EvenSteps, Steps
  <2> HIDE DEF L
  <2>3. SetSecret \in L /\ GetSecret \in L /\ CreateRecovery \in L /\ Rollback \in L
    BY <2>1, <2>2 DEF SetSecret, GetSecret, CreateRecovery, Rollback
  <2>4. Program[op] \in L
    BY <1>1, <2>2, <2>3 DEF Program
  <2> QED
    BY <2>4, EvenStays DEF L
<1>2. CASE op = "publish"
  <2> DEFINE A == {"even"}
             B == {"even", "now"}
             C == {"odd"}
             D == {"odd", "now"}
  <2>1. /\ A \in SUBSET DOMAIN Counts /\ B \in SUBSET DOMAIN Counts
        /\ C \in SUBSET DOMAIN Counts /\ D \in SUBSET DOMAIN Counts
        /\ "ensure" \in Steps /\ "countRun" \in Steps /\ "share" \in Steps /\ "countEnd" \in Steps
    BY DEF Counts, Steps
  <2>2. /\ Ready(A, "ensure", Counts) /\ B \subseteq After(A, "ensure", Counts)
        /\ Ready(B, "ensure", Counts) /\ B \subseteq After(B, "ensure", Counts)
        /\ Ready(B, "countRun", Counts) /\ C \subseteq After(B, "countRun", Counts)
        /\ Ready(C, "share", Counts) /\ C \subseteq After(C, "share", Counts)
        /\ Ready(C, "ensure", Counts) /\ D \subseteq After(C, "ensure", Counts)
        /\ Ready(D, "countEnd", Counts) /\ A \subseteq After(D, "countEnd", Counts)
    BY DEF Ready, After, Counts, Steps
  <2> HIDE DEF A, B, C, D
  <2>3. Outline(<<"ensure", "ensure", "countRun">>, A, C, Counts)
    BY <2>1, <2>2, Three
  <2>4. Outline(<<"share", "ensure", "countEnd">>, C, A, Counts)
    BY <2>1, <2>2, Three
  <2>5. Outline(Publish, A, A, Counts)
    BY <2>1, <2>3, <2>4, Six DEF Publish
  <2> QED
    BY <1>2, <2>5 DEF A, Program
<1> QED
  BY <1>1, <1>2

\* A command that begins keeps the invariant.
LEMMA BeginCounts ==
    ASSUME Typed, Single, Counted, NEW t \in Terminals, Begin(t), ~overlapped'
    PROVE  Counted'
<1>1. /\ \A q \in Projects : Idle(q)
      /\ \A u \in Terminals : Busy(u)' => u = t
      /\ In(t)' \in Projects /\ cmd'[t].op \in DOMAIN Program
      /\ agenda'[t] = Program[cmd'[t].op]
  BY BeginTurn
<1>2. UNCHANGED <<manifest, runs>>
  BY DEF Begin, KeysBegin
<1>3. \A q \in Projects : Even(q)'
  BY <1>1, <1>2 DEF Counted, Even
<1>4. Even(In(t))'
  BY <1>1, <1>3
<1>5. {"even"} \subseteq KnownCounts(t)'
  BY <1>4 DEF KnownCounts, Counts
<1>6. Outline(agenda'[t], KnownCounts(t)', {"even"}, Counts)
  BY <1>1, <1>5, ProgramsEven, Wider
<1> QED
  BY <1>1, <1>2, <1>3, <1>6 DEF Counted

-----------------------------------------------------------------------------
(* Services, the registry and the login entry *)

\* The facts about the service of the project a command works in.
Serves == [
    registered |-> [need |-> Steps \ {"start", "readEntry", "readRegistry", "saveRegistry"},
                    give |-> {"saveRegistry"}, lose |-> {"configure"}],
    honest     |-> [need |-> Steps \ {"readSpec", "clearSpec"},
                    give |-> {"configure", "clearSpec"}, lose |-> {"removeUnit"}],
    good       |-> [need |-> {"running", "configure"}, give |-> {"probe"},
                    lose |-> Steps \ (KeySteps \cup {"open"})],
    taken      |-> [need |-> {"probe"}, give |-> {"reserve"}, lose |-> Steps],
    newspec    |-> [need |-> {"probe"}, give |-> {}, lose |-> Steps \ {"reserve"}],
    unbound    |-> [need |-> {"configure"}, give |-> {"open"}, lose |-> Steps \ KeySteps],
    startable  |-> [need |-> {"start"}, give |-> {"configure"}, lose |-> Steps \ {"stop"}],
    set        |-> [need |-> {"saveRegistry"}, give |-> {"readEntry"},
                    lose |-> Steps \ {"readRegistry"}],
    apps       |-> [need |-> {"saveRegistry"}, give |-> {"readRegistry"}, lose |-> Steps],
    unit       |-> [need |-> {"markSpec"}, give |-> {"writeUnit"}, lose |-> Steps \ {"readSpec"}],
    read       |-> [need |-> {"markSpec", "clearSpec"}, give |-> {"readSpec"}, lose |-> Steps] ]

\* A project that has a specification is registered.
Registered(p) == moved \/ spec[p] = None \/ registry[p] # None

\* A specification that says there is a login entry is right.
Honest(p) == moved \/ (spec[p] # None /\ spec[p].autostart => unit[p])

\* The port that the command at terminal t has chosen is that of no other project that
\* chose its own.
Good(t) == moved \/ In(t) \in requested \/
    /\ spec[In(t)] # None => spec[In(t)].port = pm[t].port
    /\ \A q \in Projects \ ({In(t)} \cup requested) : spec[q] # None => spec[q].port # pm[t].port

\* If the service cannot be started, its project is registered.
Startable(t) == Registered(In(t)) \/
    /\ spec[In(t)] # None /\ spec[In(t)].port = pm[t].port /\ ~Bound(pm[t].port)
    /\ svc[In(t)] # None => registry[In(t)] # None \/ moved

\* The facts that hold of the command at terminal t and the project it works in.
KnownServes(t) == {f \in DOMAIN Serves :
    /\ f = "registered" => Registered(In(t))
    /\ f = "honest" => Honest(In(t))
    /\ f = "good" => Good(t)
    /\ f = "taken" => Reserved(In(t)) \subseteq pm[t].taken
    /\ f = "newspec" => spec[In(t)] = None
    /\ f = "unbound" => ~Bound(pm[t].port)
    /\ f = "startable" => Startable(t)
    /\ f = "set" => spec[In(t)] # None /\ spec[In(t)].port = pm[t].port
    /\ f = "apps" => pm[t].apps = registry
    /\ f = "unit" => moved \/ unit[In(t)]
    /\ f = "read" => spec[In(t)] # None /\ pm[t].spec = spec[In(t)]}

\* What a command leaves behind.
Orderly == {"registered", "honest"}

\* What is true of the services also while a command runs: what runs is specified, and
\* projects that chose their ports have different ones, and registered them.
Services ==
    /\ \A p \in Projects : svc[p] # None => spec[p] # None
    /\ ~moved => \A p \in Projects \ requested :
            registry[p] # None => spec[p] # None /\ registry[p] = spec[p].port
    /\ ~moved => \A p, q \in Projects \ requested :
            p # q /\ spec[p] # None /\ spec[q] # None => spec[p].port # spec[q].port

\* The inductive invariant, as long as commands take turns and none is interrupted.
Served ==
    /\ Services
    /\ \A t \in Terminals : Busy(t) => Outline(agenda[t], KnownServes(t), Orderly, Serves)
    /\ \A p \in Projects : Idle(p) => Registered(p) /\ Honest(p)

\* What a step at terminal t does to the services.
Serving(t) ==
    /\ Services'
    /\ Outline(agenda'[t], KnownServes(t)', Orderly, Serves)
    /\ \A q \in Projects : q # In(t) => Registered(q)' /\ Honest(q)'

\* The invariant is kept.
LEMMA ServesAssembled ==
    ASSUME Typed, Single, ~overlapped, Served, NEW t \in Terminals, Acts(t), Serving(t)
    PROVE  Served'
<1>1. /\ \A u \in Terminals : Busy(u)' => u = t
      /\ \A q \in Projects : Idle(q)' => q # In(t) \/ agenda'[t] = <<>>
      /\ In(t)' = In(t) /\ In(t) \in Projects
  BY TurnOf
<1>2. agenda'[t] = <<>> => Registered(In(t))' /\ Honest(In(t))'
  <2>1. agenda'[t] = <<>> => Orderly \subseteq KnownServes(t)'
    BY LeftBehind DEF Serving
  <2> QED
    BY <2>1 DEF KnownServes, Orderly
<1>3. ASSUME NEW q \in Projects, Idle(q)'
      PROVE  Registered(q)' /\ Honest(q)'
  <2>1. CASE q # In(t)
    BY <2>1 DEF Serving
  <2>2. CASE q = In(t)
    BY <1>1, <1>2, <1>3, <2>2 DEF Registered, Honest
  <2> QED
    BY <2>1, <2>2
<1> QED
  BY <1>1, <1>3 DEF Served, Serving

\* What a step finds.
LEMMA ServesHere ==
    ASSUME Typed, Single, ~overlapped, Served, NEW t \in Terminals, NEW x, At(t, x)
    PROVE  /\ Busy(t) /\ In(t) \in Projects /\ KnownServes(t) \in SUBSET DOMAIN Serves
           /\ Outline(agenda[t], KnownServes(t), Orderly, Serves)
           /\ DOMAIN spec = Projects /\ DOMAIN svc = Projects /\ DOMAIN unit = Projects
           /\ DOMAIN registry = Projects /\ DOMAIN pm = Terminals
           /\ DOMAIN pm[t] = {"port", "taken", "spec", "apps"}
           /\ \A q \in Projects : q # In(t) => Registered(q) /\ Honest(q)
           /\ x \in Steps \ {"start", "readEntry", "readRegistry", "saveRegistry"} =>
                Registered(In(t))
           /\ x \in Steps \ {"readSpec", "clearSpec"} => Honest(In(t))
           /\ \A f \in DOMAIN Serves : x \in Serves[f].need => f \in KnownServes(t)
<1>1. Busy(t) /\ In(t) \in Projects /\ KnownServes(t) \in SUBSET DOMAIN Serves
  BY WorksInProject DEF At, KnownServes
<1>2. Outline(agenda[t], KnownServes(t), Orderly, Serves)
  BY <1>1 DEF Served
<1>3. \A f \in DOMAIN Serves : x \in Serves[f].need => f \in KnownServes(t)
  BY <1>2, TurnReady
<1>4. /\ x \in Steps \ {"start", "readEntry", "readRegistry", "saveRegistry"} =>
            "registered" \in KnownServes(t)
      /\ x \in Steps \ {"readSpec", "clearSpec"} => "honest" \in KnownServes(t)
  BY <1>3 DEF Serves
<1>5. /\ "registered" \in KnownServes(t) => Registered(In(t))
      /\ "honest" \in KnownServes(t) => Honest(In(t))
  BY DEF KnownServes
<1>6. \A q \in Projects : q # In(t) => Idle(q)
  BY <1>1 DEF Single, Idle
<1>7. \A q \in Projects : q # In(t) => Registered(q) /\ Honest(q)
  BY <1>6 DEF Served
<1>8. /\ DOMAIN spec = Projects /\ DOMAIN svc = Projects /\ DOMAIN unit = Projects
      /\ DOMAIN registry = Projects /\ DOMAIN pm = Terminals
      /\ DOMAIN pm[t] = {"port", "taken", "spec", "apps"}
  BY DEF Typed, TypeOK, ProjectsTypeOK, Shaped, NoMemory
<1> QED
  BY <1>1, <1>2, <1>3, <1>4, <1>5, <1>7, <1>8

\* Steps that leave the services as they are know what they knew.
LEMMA SameServes ==
    ASSUME Typed, Single, ~overlapped, Served, NEW t \in Terminals, NEW x, At(t, x),
           UNCHANGED <<spec, svc, unit, registry, requested, moved>>, cmd' = cmd
    PROVE  /\ Services' /\ In(t)' = In(t)
           /\ \A q \in Projects : q # In(t) => Registered(q)' /\ Honest(q)'
           /\ Registered(In(t)) <=> Registered(In(t))'
           /\ Honest(In(t)) <=> Honest(In(t))'
           /\ pm' = pm => KnownServes(t)' = KnownServes(t)
<1>1. \A q \in Projects : q # In(t) => Registered(q) /\ Honest(q)
  BY ServesHere
<1>2. In(t)' = In(t)
  BY DEF In
<1>3. pm' = pm => KnownServes(t)' = KnownServes(t)
  BY <1>2 DEF KnownServes, Registered, Honest, Good, Reserved, Bound, Startable
<1> QED
  BY <1>1, <1>2, <1>3 DEF Served, Services, Registered, Honest

\* A command that ends where its project is registered and its entry as specified.
LEMMA ServesEnd ==
    ASSUME Typed, Single, ~overlapped, Served, NEW t \in Terminals, NEW x, Quit(t, x),
           UNCHANGED <<spec, svc, unit, registry, requested, moved>>,
           Registered(In(t)), Honest(In(t))
    PROVE  Serving(t)
<1>1. At(t, x) /\ cmd' = cmd
  BY DEF Quit
<1>2. Registered(In(t))' /\ Honest(In(t))'
  BY <1>1, SameServes
<1>3. Orderly \subseteq KnownServes(t)' /\ KnownServes(t)' \in SUBSET DOMAIN Serves
  BY <1>2 DEF Orderly, KnownServes, Serves
<1>4. Outline(agenda'[t], KnownServes(t)', Orderly, Serves)
  BY <1>3, TurnEnds
<1> QED
  BY <1>1, <1>4, SameServes DEF Serving

\* The steps on keys leave the services as they are.
LEMMA KeysServe ==
    ASSUME Typed, Single, ~overlapped, Served, NEW t \in Terminals, UNCHANGED projectVars,
           (\E x \in KeySteps : \E m \in Seq(KeySteps) : Do(t, x, m))
              \/ (\E x \in KeySteps : Quit(t, x))
    PROVE  Serving(t)
<1>1. UNCHANGED <<spec, svc, unit, registry, requested, moved>> /\ pm' = pm
  BY DEF projectVars
<1>2. KeySteps \subseteq Steps \ {"start", "readEntry", "readRegistry", "saveRegistry",
                                  "readSpec", "clearSpec"}
  BY DEF KeySteps, Steps
<1>3. CASE \E x \in KeySteps : Quit(t, x)
  <2>1. PICK x \in KeySteps : Quit(t, x)
    BY <1>3
  <2>2. At(t, x)
    BY <2>1 DEF Quit
  <2>3. Registered(In(t)) /\ Honest(In(t))
    BY <1>2, <2>2, ServesHere
  <2> QED
    BY <1>1, <2>1, <2>3, ServesEnd
<1>4. CASE \E x \in KeySteps : \E m \in Seq(KeySteps) : Do(t, x, m)
  <2>1. PICK x \in KeySteps : \E m \in Seq(KeySteps) : Do(t, x, m)
    BY <1>4
  <2>2. PICK m \in Seq(KeySteps) : Do(t, x, m)
    BY <2>1
  <2>3. At(t, x) /\ cmd' = cmd
    BY <2>2 DEF Do
  <2>4. Foreign(x, KeySteps, Serves)
    <3>1. ASSUME NEW y \in KeySteps, NEW f \in DOMAIN Serves
          PROVE  /\ y \notin Serves[f].give
                 /\ y \in Serves[f].need <=> f \in {"registered", "honest"}
                 /\ y \in Serves[f].lose <=> f \notin {"registered", "honest", "good", "unbound"}
      <4>1. y \in Steps /\ y \notin ServiceSteps /\ y \notin {"stop", "open", "configure"}
        BY DEF KeySteps, Steps, ServiceSteps
      <4> QED
        BY <4>1 DEF Serves, ServiceSteps
    <3> QED
      BY <1>2, <3>1 DEF Foreign
  <2>5. Outline(agenda[t], KnownServes(t), Orderly, Serves)
        /\ KnownServes(t) \in SUBSET DOMAIN Serves
    BY <2>3, ServesHere
  <2>6. Outline(agenda'[t], KnownServes(t), Orderly, Serves)
    BY <2>2, <2>4, <2>5, Passes
  <2> QED
    BY <1>1, <2>3, <2>6, SameServes DEF Serving
<1> QED
  BY <1>3, <1>4

\* Registration leaves the project registered, whatever was before.
LEMMA RegisterServes == Outline(Register, {"honest"}, Orderly, Serves)
<1> DEFINE A == {"honest"}
           B == {"honest", "set"}
           C == {"honest", "set", "apps"}
<1>1. /\ A \in SUBSET DOMAIN Serves /\ B \in SUBSET DOMAIN Serves /\ C \in SUBSET DOMAIN Serves
      /\ Orderly \in SUBSET DOMAIN Serves
      /\ "readEntry" \in Steps /\ "readRegistry" \in Steps /\ "saveRegistry" \in Steps
  BY DEF Serves, Steps, Orderly
<1>2. Ready(A, "readEntry", Serves) /\ B \subseteq After(A, "readEntry", Serves)
  BY DEF Ready, After, Serves
<1>3. Ready(B, "readRegistry", Serves) /\ C \subseteq After(B, "readRegistry", Serves)
  BY DEF Ready, After, Serves
<1>4. Ready(C, "saveRegistry", Serves) /\ Orderly \subseteq After(C, "saveRegistry", Serves)
  BY DEF Ready, After, Serves, Orderly
<1> HIDE DEF A, B, C
<1>5. Outline(Register, A, Orderly, Serves)
  BY <1>1, <1>2, <1>3, <1>4, Three DEF Register
<1> QED
  BY <1>5 DEF A

\* A deployment that has its port ...
LEMMA LaunchServes ==
    Outline(Launch \o Register, {"registered", "honest", "good"}, Orderly, Serves)
<1> DEFINE A == {"registered", "honest", "good"}
           B == {"registered", "honest", "good", "unbound"}
           C == {"honest", "startable"}
           D == {"honest"}
<1>1. /\ A \in SUBSET DOMAIN Serves /\ B \in SUBSET DOMAIN Serves /\ C \in SUBSET DOMAIN Serves
      /\ D \in SUBSET DOMAIN Serves
      /\ "open" \in Steps /\ "ensure" \in Steps /\ "configure" \in Steps /\ "start" \in Steps
  BY DEF Serves, Steps
<1>2. Ready(A, "open", Serves) /\ B \subseteq After(A, "open", Serves)
  BY DEF Ready, After, Serves
<1>3. Ready(B, "ensure", Serves) /\ B \subseteq After(B, "ensure", Serves)
  BY DEF Ready, After, Serves, KeySteps
<1>4. Ready(B, "configure", Serves) /\ C \subseteq After(B, "configure", Serves)
  BY DEF Ready, After, Serves
<1>5. Ready(C, "start", Serves) /\ D \subseteq After(C, "start", Serves)
  BY DEF Ready, After, Serves
<1>6. Outline(Register, D, Orderly, Serves)
  BY RegisterServes
<1> HIDE DEF A, B, C, D
<1>7. Outline(<<"open", "ensure">>, A, B, Serves)
  BY <1>1, <1>2, <1>3, Two
<1>8. Outline(<<"configure", "start">>, B, D, Serves)
  BY <1>1, <1>4, <1>5, Two
<1>9. Outline(Launch, A, D, Serves)
  BY <1>1, <1>7, <1>8, Four DEF Launch
<1>10. Outline(Launch \o Register, A, Orderly, Serves)
  BY <1>6, <1>9, Join
<1> QED
  BY <1>10 DEF A

\* ... and one that has yet to choose it.
LEMMA ChooseServes ==
    Outline(<<"reserve", "probe">> \o Launch \o Register, {"registered", "honest", "newspec"},
            Orderly, Serves)
<1> DEFINE A == {"registered", "honest", "newspec"}
           B == {"registered", "honest", "newspec", "taken"}
           C == {"registered", "honest", "good"}
           L == Launch
           R == Register
<1>1. /\ A \in SUBSET DOMAIN Serves /\ B \in SUBSET DOMAIN Serves /\ C \in SUBSET DOMAIN Serves
      /\ "reserve" \in Steps /\ "probe" \in Steps
  BY DEF Serves, Steps
<1>2. /\ Ready(A, "reserve", Serves) /\ B \subseteq After(A, "reserve", Serves)
      /\ Ready(B, "probe", Serves) /\ C \subseteq After(B, "probe", Serves)
  <2>1. Ready(A, "reserve", Serves)
    BY DEF Ready, Serves
  <2>2. B \subseteq After(A, "reserve", Serves)
    BY DEF After, Serves
  <2>3. Ready(B, "probe", Serves)
    BY DEF Ready, Serves
  <2>4. C \subseteq After(B, "probe", Serves)
    BY DEF After, Serves
  <2> QED
    BY <2>1, <2>2, <2>3, <2>4
<1>3. Outline(L \o R, C, Orderly, Serves)
  BY LaunchServes
<1>4. Outline(<<"reserve", "probe">>, A, C, Serves)
  <2> HIDE DEF A, B, C
  <2> QED
    BY <1>1, <1>2, Two
<1>5. L \in Seq(Steps) /\ R \in Seq(Steps)
  BY DEF Launch, Register, Steps
<1> HIDE DEF A, B, C, L, R
<1>6. Outline(<<"reserve", "probe">> \o (L \o R), A, Orderly, Serves)
  BY <1>3, <1>4, Join
<1>7. <<"reserve", "probe">> \o (L \o R) = (<<"reserve", "probe">> \o L) \o R
  <2>1. <<"reserve", "probe">> \in Seq(Steps)
    BY <1>1
  <2> QED
    BY <1>5, <2>1
<1> QED
  BY <1>6, <1>7 DEF A, L, R

\* What the steps of a snapshot and of a rollback add: a service is stopped, and started.
LEMMA ListsServe ==
    ASSUME NEW m \in SnapshotLists
    PROVE  Outline(m, {"registered", "honest", "startable"}, Orderly, Serves)
<1> DEFINE A == {"registered", "honest", "startable"}
<1>1. A \in SUBSET DOMAIN Serves /\ Orderly \in SUBSET DOMAIN Serves /\ Orderly \subseteq A
  BY DEF Serves, Orderly
<1>2. \A x \in {"pack", "unpack", "stop"} :
        x \in Steps /\ Ready(A, x, Serves) /\ Orderly \subseteq After(A, x, Serves)
  BY DEF Ready, After, Serves, Steps, Orderly
<1>3. /\ A \subseteq After(A, "stop", Serves) /\ "start" \in Steps
      /\ Ready(A, "start", Serves) /\ Orderly \subseteq After(A, "start", Serves)
  BY DEF Ready, After, Serves, Steps, Orderly
<1> HIDE DEF A
<1>4. Outline(<<>>, A, Orderly, Serves)
  BY <1>1, Empty
<1>5. Outline(<<"pack">>, A, Orderly, Serves) /\ Outline(<<"unpack">>, A, Orderly, Serves)
      /\ Outline(<<"stop">>, A, Orderly, Serves)
  BY <1>1, <1>2, One
<1>6. Outline(<<"stop", "start">>, A, Orderly, Serves)
  BY <1>1, <1>2, <1>3, Two
<1> QED
  BY <1>4, <1>5, <1>6 DEF SnapshotLists, A

\* A step after which only what a command leaves behind is known puts steps with an
\* outline to that in front of the rest.
LEMMA ServesAgain ==
    ASSUME Typed, NEW t \in Terminals, NEW F \in SUBSET DOMAIN Serves,
           Outline(agenda[t], F, Orderly, Serves), NEW x, NEW m, Do(t, x, m),
           After(F, x, Serves) \subseteq Orderly, NEW G, NEW H, H \subseteq G,
           Outline(m, H, Orderly, Serves)
    PROVE  Outline(agenda'[t], G, Orderly, Serves)
<1>1. Outline(m, G, After(F, x, Serves), Serves)
  BY Wider
<1> QED
  BY <1>1, Turn

\* The steps of snapshots leave the services as they are.
LEMMA SnapshotsServe ==
    ASSUME Typed, Single, ~overlapped, Served, NEW t \in Terminals, UNCHANGED projectVars,
           (\E x \in SnapshotSteps, m \in SnapshotLists : Do(t, x, m))
              \/ (\E x \in SnapshotSteps : Quit(t, x))
    PROVE  Serving(t)
<1>1. UNCHANGED <<spec, svc, unit, registry, requested, moved>> /\ pm' = pm
  BY DEF projectVars
<1>2. PICK x \in SnapshotSteps : (\E m \in SnapshotLists : Do(t, x, m)) \/ Quit(t, x)
  OBVIOUS
<1>3. At(t, x) /\ cmd' = cmd
  BY <1>2 DEF Do, Quit
<1>4. x \in Steps \ (KeySteps \cup ServiceSteps)
  BY DEF SnapshotSteps, Steps, KeySteps, ServiceSteps
<1>5. Registered(In(t)) /\ Honest(In(t))
  <2>1. /\ x \in Steps \ {"start", "readEntry", "readRegistry", "saveRegistry"}
        /\ x \in Steps \ {"readSpec", "clearSpec"}
    BY <1>4 DEF ServiceSteps
  <2> QED
    BY <1>3, <2>1, ServesHere
<1>6. CASE Quit(t, x)
  BY <1>1, <1>5, <1>6, ServesEnd
<1>7. CASE \E m \in SnapshotLists : Do(t, x, m)
  <2>1. PICK m \in SnapshotLists : Do(t, x, m)
    BY <1>7
  <2> DEFINE F == KnownServes(t)
  <2>2. Outline(agenda[t], F, Orderly, Serves) /\ F \in SUBSET DOMAIN Serves
    BY <1>3, ServesHere
  <2> HIDE DEF F
  <2>3. After(F, x, Serves) \subseteq Orderly
    <3>1. ASSUME NEW f \in DOMAIN Serves
          PROVE  x \notin Serves[f].give /\ (f \notin Orderly => x \in Serves[f].lose)
      BY <1>4 DEF Serves, Orderly, ServiceSteps
    <3> QED
      BY <3>1 DEF After
  <2>4. {"registered", "honest", "startable"} \subseteq KnownServes(t)'
    <3>1. Registered(In(t))' /\ Honest(In(t))'
      BY <1>1, <1>3, <1>5, SameServes
    <3> QED
      BY <3>1 DEF KnownServes, Serves, Startable
  <2>5. Outline(agenda'[t], KnownServes(t)', Orderly, Serves)
    BY <2>1, <2>2, <2>3, <2>4, ListsServe, ServesAgain
  <2> QED
    BY <1>1, <1>3, <2>5, SameServes DEF Serving
<1> QED
  BY <1>2, <1>6, <1>7

\* A deployment finds out what there is.
LEMMA DetectServes ==
    ASSUME Typed, Single, ~overlapped, Served, NEW t \in Terminals,
           DetectGiven(t) \/ DetectExisting(t) \/ DetectNew(t) \/ Running(t)
    PROVE  Serving(t)
<1> DEFINE p == In(t)
           F == KnownServes(t)
           G == KnownServes(t)'
<1>1. PICK x \in {"detect", "running"} : At(t, x) /\ \E m : Do(t, x, m)
  BY DEF DetectGiven, DetectExisting, DetectNew, Running, Do, At
<1>2. /\ p \in Projects /\ F \in SUBSET DOMAIN Serves /\ Outline(agenda[t], F, Orderly, Serves)
      /\ DOMAIN pm = Terminals /\ DOMAIN pm[t] = {"port", "taken", "spec", "apps"}
      /\ Registered(p) /\ Honest(p)
      /\ \A q \in Projects : q # p => Registered(q) /\ Honest(q)
      /\ \A f \in DOMAIN Serves : x \in Serves[f].need => f \in F
  BY <1>1, ServesHere DEF Steps
<1>3. /\ UNCHANGED <<spec, svc, unit, registry, moved>> /\ cmd' = cmd /\ In(t)' = p
      /\ requested \subseteq requested'
  BY DEF DetectGiven, DetectExisting, DetectNew, Running, Do, projectVars, In
<1>4. Services' /\ (\A q \in Projects : Registered(q)' /\ Honest(q)')
  BY <1>2, <1>3 DEF Served, Services, Registered, Honest
<1>5. {"registered", "honest"} \subseteq G
  <2>1. Registered(In(t))' /\ Honest(In(t))'
    BY <1>2, <1>3 DEF Registered, Honest
  <2> QED
    BY <2>1 DEF KnownServes, Serves
<1>6. After(F, "detect", Serves) \subseteq Orderly /\ After(F, "running", Serves) \subseteq Orderly
  <2> HIDE DEF F
  <2>1. ASSUME NEW f \in DOMAIN Serves, NEW y \in {"detect", "running"}
        PROVE  y \notin Serves[f].give /\ (f \notin Orderly => y \in Serves[f].lose)
    BY DEF Serves, Orderly, Steps, KeySteps
  <2> QED
    BY <2>1 DEF After
<1>7. CASE DetectGiven(t)
  <2>1. Do(t, "detect", Launch \o Register) /\ requested' = requested \cup {p}
    BY <1>7 DEF DetectGiven
  <2>2. Good(t)'
    BY <1>3, <2>1 DEF Good
  <2>3. {"registered", "honest", "good"} \subseteq G
    BY <1>5, <2>2 DEF KnownServes, Serves
  <2> HIDE DEF F, G
  <2>4. Outline(agenda'[t], G, Orderly, Serves)
    BY <1>2, <1>6, <2>1, <2>3, LaunchServes, ServesAgain
  <2> QED
    BY <1>4, <2>4 DEF Serving, G
<1>8. CASE DetectExisting(t)
  <2>1. /\ Do(t, "detect", <<"running">>) /\ spec[p] # None /\ requested' = requested
        /\ pm' = [pm EXCEPT ![t] = [pm[t] EXCEPT !.port = spec[p].port]]
    BY <1>8 DEF DetectExisting, Remember
  <2>2. pm'[t].port = spec[p].port
    BY <1>2, <2>1
  <2>3. Good(t)'
    <3>1. CASE moved \/ p \in requested
      BY <1>3, <2>1, <3>1 DEF Good
    <3>2. CASE ~moved /\ p \notin requested
      <4>1. \A q \in Projects \ ({p} \cup requested) : spec[q] # None => spec[q].port # spec[p].port
        BY <1>2, <2>1, <3>2 DEF Served, Services
      <4> QED
        BY <1>3, <2>1, <2>2, <4>1 DEF Good
    <3> QED
      BY <3>1, <3>2
  <2>4. {"registered", "honest", "good"} \subseteq G /\ G \in SUBSET DOMAIN Serves
    BY <1>5, <2>3 DEF KnownServes, Serves
  <2> HIDE DEF F, G
  <2>5. Ready(G, "running", Serves) /\ Orderly \subseteq After(G, "running", Serves)
    BY <2>4 DEF Ready, After, Serves, Orderly
  <2>6. Outline(<<"running">>, G, Orderly, Serves)
    <3>1. Orderly \in SUBSET DOMAIN Serves /\ "running" \in Steps
      BY DEF Orderly, Serves, Steps
    <3> QED
      BY <2>4, <2>5, <3>1, One
  <2>7. Outline(agenda'[t], G, Orderly, Serves)
    BY <1>2, <1>6, <2>1, <2>6, ServesAgain
  <2> QED
    BY <1>4, <2>7 DEF Serving, G
<1>9. CASE DetectNew(t)
  <2>1. /\ Do(t, "detect", <<"reserve", "probe">> \o Launch \o Register) /\ spec[p] = None
    BY <1>9 DEF DetectNew
  <2>2. {"registered", "honest", "newspec"} \subseteq G
    BY <1>3, <1>5, <2>1 DEF KnownServes, Serves
  <2> HIDE DEF F, G
  <2>3. Outline(agenda'[t], G, Orderly, Serves)
    BY <1>2, <1>6, <2>1, <2>2, ChooseServes, ServesAgain
  <2> QED
    BY <1>4, <2>3 DEF Serving, G
<1>10. CASE Running(t)
  <2>1. /\ At(t, "running") /\ UNCHANGED projectVars
        /\ Do(t, "running", Launch \o Register) \/ Do(t, "running", Register)
    BY <1>10 DEF Running
  <2>2. "good" \in F
    <3>1. \A f \in DOMAIN Serves : "running" \in Serves[f].need => f \in F
      BY <2>1, ServesHere
    <3> QED
      BY <3>1 DEF Serves
  <2>3. Good(t)'
    BY <1>3, <2>1, <2>2 DEF KnownServes, Good, projectVars
  <2>4. {"registered", "honest", "good"} \subseteq G /\ {"honest"} \subseteq G
    BY <1>5, <2>3 DEF KnownServes, Serves
  <2> HIDE DEF F, G
  <2>5. CASE Do(t, "running", Launch \o Register)
    <3>1. Outline(agenda'[t], G, Orderly, Serves)
      BY <1>2, <1>6, <2>4, <2>5, LaunchServes, ServesAgain
    <3> QED
      BY <1>4, <3>1 DEF Serving, G
  <2>6. CASE Do(t, "running", Register)
    <3>1. Outline(agenda'[t], G, Orderly, Serves)
      BY <1>2, <1>6, <2>4, <2>6, RegisterServes, ServesAgain
    <3> QED
      BY <1>4, <3>1 DEF Serving, G
  <2> QED
    BY <2>1, <2>5, <2>6
<1> QED
  BY <1>7, <1>8, <1>9, <1>10

\* It chooses a port that no other project has registered, and that is free.
LEMMA ProbeServes ==
    ASSUME Typed, Single, ~overlapped, Served, NEW t \in Terminals,
           Reserve(t) \/ Probe(t) \/ Open(t)
    PROVE  Serving(t)
<1> DEFINE p == In(t)
           F == KnownServes(t)
           G == KnownServes(t)'
<1>1. PICK x \in {"reserve", "probe", "open"} : At(t, x) /\ (Do(t, x, <<>>) \/ Quit(t, x))
  BY DEF Reserve, Probe, Open, Do, Quit
<1>2. /\ p \in Projects /\ F \in SUBSET DOMAIN Serves /\ Outline(agenda[t], F, Orderly, Serves)
      /\ DOMAIN pm = Terminals /\ DOMAIN pm[t] = {"port", "taken", "spec", "apps"}
      /\ Registered(p) /\ Honest(p)
      /\ \A q \in Projects : q # p => Registered(q) /\ Honest(q)
      /\ \A f \in DOMAIN Serves : x \in Serves[f].need => f \in F
  BY <1>1, ServesHere DEF Steps
<1>3. /\ UNCHANGED <<spec, svc, unit, registry, requested, moved>> /\ cmd' = cmd
  BY DEF Reserve, Probe, Open, Do, Quit, projectVars
<1>4. /\ Services' /\ In(t)' = p
      /\ \A q \in Projects : q # p => Registered(q)' /\ Honest(q)'
      /\ Registered(p)' /\ Honest(p)' /\ (pm' = pm => G = F)
  BY <1>1, <1>2, <1>3, SameServes
<1>5. G \in SUBSET DOMAIN Serves
  BY DEF KnownServes
<1>6. CASE Quit(t, x)
  BY <1>2, <1>3, <1>6, ServesEnd
<1>7. CASE Reserve(t)
  <2>1. /\ Do(t, "reserve", <<>>) /\ At(t, "reserve")
        /\ pm' = [pm EXCEPT ![t] = [pm[t] EXCEPT !.taken = Reserved(p)]]
    BY <1>7 DEF Reserve, Do, Remember
  <2>2. pm'[t].taken = Reserved(p) /\ Reserved(p)' = Reserved(p)
    BY <1>2, <1>3, <1>4, <2>1 DEF Reserved
  <2>3. ASSUME NEW f \in After(F, "reserve", Serves)
        PROVE  f \in G
    <3>1. f \in DOMAIN Serves /\ (f = "taken" \/ (f \in F /\ f \in {"registered", "honest", "newspec"}))
      BY DEF After, Serves, Steps, KeySteps
    <3> QED
      BY <1>3, <1>4, <2>2, <3>1 DEF KnownServes, Registered, Honest
  <2>4. Outline(agenda'[t], G, Orderly, Serves)
    BY <1>2, <1>5, <2>1, <2>3, TurnNext
  <2> QED
    BY <1>4, <2>4 DEF Serving
<1>8. CASE Probe(t) /\ ~Quit(t, x)
  <2>1. At(t, "probe") /\ x = "probe"
    BY <1>1, <1>8 DEF Probe, Do, Quit, At
  <2> DEFINE port == CHOOSE n \in Free(t) : \A other \in Free(t) : n <= other
  <2>2. /\ Free(t) # {} /\ pm' = [pm EXCEPT ![t] = [pm[t] EXCEPT !.port = port]]
        /\ Do(t, "probe", <<>>)
    BY <1>8, <2>1 DEF Probe, Remember
  <2>3. port \in Free(t)
    <3>1. Free(t) \in SUBSET Nat
      BY PortsAreNatural DEF Free, Ports
    <3>2. \E n \in Free(t) : \A other \in Free(t) : n <= other
      BY <2>2, <3>1, LeastExists
    <3> QED
      BY <3>2
  <2>4. port \notin pm[t].taken
    BY <2>3 DEF Free
  <2> HIDE DEF port
  <2>5. Reserved(p) \subseteq pm[t].taken /\ spec[p] = None
    <3>1. "taken" \in F /\ "newspec" \in F
      BY <1>2, <2>1 DEF Serves
    <3> QED
      BY <3>1 DEF KnownServes
  <2>6. pm'[t].port = port
    BY <1>2, <2>2
  <2>7. Good(t)'
    <3>1. CASE moved \/ p \in requested
      BY <1>3, <1>4, <3>1 DEF Good
    <3>2. CASE ~moved /\ p \notin requested
      <4>1. ASSUME NEW q \in Projects \ ({p} \cup requested), spec[q] # None
            PROVE  spec[q].port # port
        <5>1. registry[q] # None
          BY <1>2, <3>2, <4>1 DEF Registered
        <5>2. registry[q] = spec[q].port
          BY <3>2, <4>1, <5>1 DEF Served, Services
        <5>3. registry[q] \in Reserved(p)
          BY <4>1, <5>1 DEF Reserved
        <5> QED
          BY <2>4, <2>5, <5>2, <5>3
      <4> QED
        BY <1>3, <1>4, <2>5, <2>6, <4>1 DEF Good
    <3> QED
      BY <3>1, <3>2
  <2>8. ASSUME NEW f \in After(F, "probe", Serves)
        PROVE  f \in G
    <3>1. f \in DOMAIN Serves /\ f \in {"good", "registered", "honest"}
      BY DEF After, Serves, Steps, KeySteps
    <3> QED
      BY <1>4, <2>7, <3>1 DEF KnownServes, Registered, Honest
  <2>9. Outline(agenda'[t], G, Orderly, Serves)
    BY <1>2, <1>5, <2>2, <2>8, TurnNext
  <2> QED
    BY <1>4, <2>9 DEF Serving
<1>9. CASE Open(t) /\ ~Quit(t, x)
  <2>1. At(t, "open") /\ x = "open" /\ pm' = pm
    BY <1>1, <1>9 DEF Open, Do, Quit, At, projectVars
  <2>2. ~Bound(pm[t].port) /\ Do(t, "open", <<>>)
    BY <1>9, <2>1 DEF Open
  <2>3. ASSUME NEW f \in After(F, "open", Serves)
        PROVE  f \in G
    <3>1. f \in DOMAIN Serves /\ (f = "unbound" \/ f \in F)
      BY DEF After, Serves
    <3>2. f = "unbound" => f \in F
      BY <2>2, <3>1 DEF KnownServes
    <3> QED
      BY <1>4, <2>1, <3>1, <3>2
  <2>4. Outline(agenda'[t], G, Orderly, Serves)
    BY <1>2, <1>5, <2>2, <2>3, TurnNext
  <2> QED
    BY <1>4, <2>4 DEF Serving
<1> QED
  BY <1>1, <1>6, <1>7, <1>8, <1>9

\* The specification is written ...
LEMMA ConfigureServes ==
    ASSUME Typed, Single, ~overlapped, Served, NEW t \in Terminals, Configure(t)
    PROVE  Serving(t)
<1> DEFINE p == In(t)
           F == KnownServes(t)
           G == KnownServes(t)'
           s == [port |-> pm[t].port, autostart |-> FALSE]
<1>1. /\ Do(t, "configure", <<>>) /\ At(t, "configure") /\ cmd' = cmd
      /\ spec' = [spec EXCEPT ![p] = s] /\ UNCHANGED <<svc, unit, registry, requested, moved, pm>>
  BY DEF Configure, Do
<1>2. /\ p \in Projects /\ F \in SUBSET DOMAIN Serves /\ Outline(agenda[t], F, Orderly, Serves)
      /\ DOMAIN spec = Projects /\ Registered(p) /\ Honest(p)
      /\ \A q \in Projects : q # p => Registered(q) /\ Honest(q)
      /\ \A f \in DOMAIN Serves : "configure" \in Serves[f].need => f \in F
  BY <1>1, ServesHere DEF Steps
<1>3. Good(t) /\ ~Bound(pm[t].port)
  <2>1. "good" \in F /\ "unbound" \in F
    BY <1>2 DEF Serves
  <2> QED
    BY <2>1 DEF KnownServes
<1>4. pm[t].port \in Ports /\ s # None
  <2>1. pm[t].port \in Ports
    BY <1>1, TypesNeeded
  <2>2. s \in Specs
    BY <2>1 DEF Specs
  <2> HIDE DEF s
  <2> QED
    BY <2>1, <2>2, NoneIsNoPort
<1>5. /\ spec'[p] # None /\ spec'[p].port = pm[t].port /\ spec'[p].autostart = FALSE
      /\ \A q \in Projects : q # p => spec'[q] = spec[q]
  BY <1>1, <1>2, <1>4
<1> HIDE DEF s
<1>6. In(t)' = p
  BY <1>1 DEF In
<1>7. Services'
  <2>1. \A q \in Projects : svc'[q] # None => spec'[q] # None
    BY <1>1, <1>5 DEF Served, Services
  <2>2. ASSUME ~moved, NEW q \in Projects \ requested, registry[q] # None
        PROVE  spec'[q] # None /\ registry[q] = spec'[q].port
    <3>1. spec[q] # None /\ registry[q] = spec[q].port
      BY <2>2 DEF Served, Services
    <3>2. CASE q = p
      BY <1>3, <1>5, <2>2, <3>1, <3>2 DEF Good
    <3>3. CASE q # p
      BY <1>5, <3>1, <3>3
    <3> QED
      BY <3>2, <3>3
  <2>3. ASSUME ~moved, NEW q \in Projects \ requested, NEW r \in Projects \ requested, q # r,
               spec'[q] # None, spec'[r] # None
        PROVE  spec'[q].port # spec'[r].port
    <3>1. CASE q = p
      BY <1>3, <1>5, <2>3, <3>1 DEF Good
    <3>2. CASE r = p
      BY <1>3, <1>5, <2>3, <3>2 DEF Good
    <3>3. CASE q # p /\ r # p
      BY <1>5, <2>3, <3>3 DEF Served, Services
    <3> QED
      BY <3>1, <3>2, <3>3
  <2> QED
    BY <1>1, <2>1, <2>2, <2>3 DEF Services
<1>8. \A q \in Projects : q # p => Registered(q)' /\ Honest(q)'
  BY <1>1, <1>2, <1>5 DEF Registered, Honest
<1>9. Startable(t)'
  <2>1. ~Bound(pm[t].port)'
    BY <1>1, <1>3 DEF Bound
  <2>2. svc[p] # None => registry[p] # None \/ moved
    BY <1>2 DEF Served, Services, Registered
  <2> QED
    BY <1>1, <1>5, <1>6, <2>1, <2>2 DEF Startable
<1>10. ASSUME NEW f \in After(F, "configure", Serves)
       PROVE  f \in G
  <2>1. f \in DOMAIN Serves /\ f \in {"honest", "startable"}
    BY DEF After, Serves, Steps, KeySteps
  <2> QED
    BY <1>5, <1>6, <1>9, <2>1 DEF KnownServes, Honest
<1>11. Outline(agenda'[t], G, Orderly, Serves)
  <2>1. G \in SUBSET DOMAIN Serves
    BY DEF KnownServes
  <2> QED
    BY <1>1, <1>2, <1>10, <2>1, TurnNext
<1> QED
  BY <1>7, <1>8, <1>11 DEF Serving

\* ... and what it says is started, or stopped.
LEMMA StartServes ==
    ASSUME Typed, Single, ~overlapped, Served, NEW t \in Terminals, Start(t) \/ StopService(t)
    PROVE  Serving(t)
<1> DEFINE p == In(t)
           F == KnownServes(t)
           G == KnownServes(t)'
<1>1. PICK x \in {"start", "stop"} : At(t, x)
  BY DEF Start, StopService, Do
<1>2. /\ p \in Projects /\ F \in SUBSET DOMAIN Serves /\ Outline(agenda[t], F, Orderly, Serves)
      /\ DOMAIN svc = Projects /\ Honest(p)
      /\ \A q \in Projects : q # p => Registered(q) /\ Honest(q)
  BY <1>1, ServesHere DEF Steps
<1>3. /\ UNCHANGED <<spec, unit, registry, requested, moved, pm>> /\ cmd' = cmd /\ In(t)' = p
  BY DEF Start, StopService, Do, Quit, In
<1>4. /\ \A q \in Projects : Registered(q)' <=> Registered(q)
      /\ \A q \in Projects : Honest(q)' <=> Honest(q)
  BY <1>3 DEF Registered, Honest
<1>5. G \in SUBSET DOMAIN Serves
  BY DEF KnownServes
<1>6. CASE Quit(t, "start") /\ Start(t) /\ svc' = svc
           /\ (spec[p] # None /\ svc[p] = None => Bound(spec[p].port))
  <2>1. Startable(t)
    <3>1. At(t, "start")
      BY <1>6 DEF Quit
    <3>2. \A f \in DOMAIN Serves : "start" \in Serves[f].need => f \in F
      BY <3>1, ServesHere
    <3>3. "startable" \in F
      BY <3>2 DEF Serves
    <3> QED
      BY <3>3 DEF KnownServes
  <2>2. Registered(p)
    BY <1>6, <2>1 DEF Startable, Registered
  <2> QED
    BY <1>2, <1>3, <1>6, <2>2, ServesEnd
<1>7. CASE Do(t, "start", <<>>) /\ spec[p] # None /\ svc' = [svc EXCEPT ![p] = spec[p].port]
  <2>1. Services'
    BY <1>2, <1>3, <1>7 DEF Served, Services
  <2>2. ASSUME NEW f \in After(F, "start", Serves)
        PROVE  f \in G
    <3>1. f \in DOMAIN Serves /\ f \in F /\ f \in {"registered", "honest"}
      BY DEF After, Serves, Steps, KeySteps
    <3> QED
      BY <1>2, <1>3, <1>4, <3>1 DEF KnownServes, Registered, Honest
  <2>3. Outline(agenda'[t], G, Orderly, Serves)
    BY <1>2, <1>5, <1>7, <2>2, TurnNext
  <2> QED
    BY <1>2, <1>4, <2>1, <2>3 DEF Serving
<1>8. CASE StopService(t)
  <2>1. Do(t, "stop", <<>>) /\ At(t, "stop") /\ svc' = [svc EXCEPT ![p] = None]
    BY <1>8 DEF StopService, Do
  <2>2. /\ \A q \in Projects : svc'[q] # None => svc[q] # None /\ svc'[q] = svc[q]
        /\ svc'[p] = None
    BY <1>2, <2>1
  <2>3. Services'
    BY <1>3, <2>2 DEF Served, Services
  <2>4. "startable" \in F => Startable(t)'
    <3>1. ASSUME Startable(t)
          PROVE  Startable(t)'
      <4>1. CASE Registered(p)
        BY <1>3, <4>1 DEF Startable, Registered
      <4>2. CASE /\ spec[p] # None /\ spec[p].port = pm[t].port /\ ~Bound(pm[t].port)
        <5>1. ~Bound(pm[t].port)'
          <6>1. pm[t].port # None
            BY <4>2, NoneIsNoPort, <1>2 DEF Typed, TypeOK, ProjectsTypeOK, Specs
          <6> QED
            BY <1>3, <2>2, <4>2, <6>1 DEF Bound
        <5> QED
          BY <1>3, <2>2, <4>2, <5>1 DEF Startable
      <4> QED
        BY <3>1, <4>1, <4>2 DEF Startable
    <3> QED
      BY <3>1 DEF KnownServes
  <2>5. ASSUME NEW f \in After(F, "stop", Serves)
        PROVE  f \in G
    <3>1. f \in DOMAIN Serves /\ f \in F /\ f \in {"registered", "honest", "startable"}
      BY DEF After, Serves, Steps, KeySteps
    <3> QED
      BY <1>2, <1>3, <1>4, <2>4, <3>1 DEF KnownServes, Registered, Honest
  <2>6. Outline(agenda'[t], G, Orderly, Serves)
    BY <1>2, <1>5, <2>1, <2>5, TurnNext
  <2> QED
    BY <1>2, <1>4, <2>3, <2>6 DEF Serving
<1> QED
  BY <1>6, <1>7, <1>8 DEF Start

\* The project is registered with the port of its specification.
LEMMA EntryServes ==
    ASSUME Typed, Single, ~overlapped, Served, NEW t \in Terminals,
           ReadEntry(t) \/ ReadRegistry(t) \/ SaveRegistry(t)
    PROVE  Serving(t)
<1> DEFINE p == In(t)
           F == KnownServes(t)
           G == KnownServes(t)'
<1>1. PICK x \in {"readEntry", "readRegistry", "saveRegistry"} : At(t, x)
  BY DEF ReadEntry, ReadRegistry, SaveRegistry, Do
<1>2. /\ p \in Projects /\ F \in SUBSET DOMAIN Serves /\ Outline(agenda[t], F, Orderly, Serves)
      /\ DOMAIN pm = Terminals /\ DOMAIN pm[t] = {"port", "taken", "spec", "apps"}
      /\ DOMAIN registry = Projects /\ Honest(p)
      /\ \A q \in Projects : q # p => Registered(q) /\ Honest(q)
  BY <1>1, ServesHere DEF Steps
<1>3. /\ UNCHANGED <<spec, svc, unit, requested, moved>> /\ cmd' = cmd /\ In(t)' = p
  BY DEF ReadEntry, ReadRegistry, SaveRegistry, Do, Quit, In
<1>4. G \in SUBSET DOMAIN Serves /\ Honest(In(t))'
  BY <1>2, <1>3 DEF KnownServes, Honest
<1>5. CASE ReadEntry(t) /\ spec[p] = None
  <2>1. Quit(t, "readEntry") /\ registry' = registry /\ Registered(p)
    BY <1>5 DEF ReadEntry, Registered
  <2> QED
    BY <1>2, <1>3, <2>1, ServesEnd
<1>6. CASE ReadEntry(t) /\ spec[p] # None
  <2>1. /\ Do(t, "readEntry", <<>>) /\ At(t, "readEntry") /\ registry' = registry
        /\ pm' = [pm EXCEPT ![t] = [pm[t] EXCEPT !.port = spec[p].port]]
    BY <1>6 DEF ReadEntry, Do, Remember
  <2>2. pm'[t].port = spec[p].port
    BY <1>2, <2>1
  <2>3. ASSUME NEW f \in After(F, "readEntry", Serves)
        PROVE  f \in G
    <3>1. f \in DOMAIN Serves /\ (f = "set" \/ (f \in F /\ f \in {"registered", "honest"}))
      BY DEF After, Serves, Steps, KeySteps
    <3> QED
      BY <1>3, <1>4, <1>6, <2>1, <2>2, <3>1 DEF KnownServes, Registered
  <2>4. Outline(agenda'[t], G, Orderly, Serves)
    BY <1>2, <1>4, <2>1, <2>3, TurnNext
  <2> QED
    BY <1>3, <2>1, <2>4, SameServes DEF Serving
<1>7. CASE ReadRegistry(t)
  <2>1. /\ Do(t, "readRegistry", <<>>) /\ At(t, "readRegistry") /\ registry' = registry
        /\ pm' = [pm EXCEPT ![t] = [pm[t] EXCEPT !.apps = registry]]
    BY <1>7 DEF ReadRegistry, Do, Remember
  <2>2. pm'[t].apps = registry /\ pm'[t].port = pm[t].port
    BY <1>2, <2>1
  <2>3. ASSUME NEW f \in After(F, "readRegistry", Serves)
        PROVE  f \in G
    <3>1. f \in DOMAIN Serves /\ (f = "apps" \/ (f \in F /\ f \in {"registered", "honest", "set"}))
      BY DEF After, Serves, Steps, KeySteps
    <3> QED
      BY <1>3, <1>4, <2>1, <2>2, <3>1 DEF KnownServes, Registered
  <2>4. Outline(agenda'[t], G, Orderly, Serves)
    BY <1>2, <1>4, <2>1, <2>3, TurnNext
  <2> QED
    BY <1>3, <2>1, <2>4, SameServes DEF Serving
<1>8. CASE SaveRegistry(t)
  <2>1. /\ Do(t, "saveRegistry", <<>>) /\ At(t, "saveRegistry") /\ pm' = pm
        /\ registry' = [pm[t].apps EXCEPT ![p] = pm[t].port]
    BY <1>8 DEF SaveRegistry, Do
  <2>2. pm[t].apps = registry /\ spec[p] # None /\ spec[p].port = pm[t].port
    <3>1. \A f \in DOMAIN Serves : "saveRegistry" \in Serves[f].need => f \in F
      BY <2>1, ServesHere
    <3>2. "apps" \in F /\ "set" \in F
      BY <3>1 DEF Serves
    <3> QED
      BY <3>2 DEF KnownServes
  <2>3. pm[t].port # None
    BY <2>1, TypesNeeded, NoneIsNoPort
  <2>4. registry'[p] = pm[t].port /\ \A q \in Projects : q # p => registry'[q] = registry[q]
    BY <1>2, <2>1, <2>2
  <2>5. Services'
    <3>1. ASSUME ~moved, NEW q \in Projects \ requested, registry'[q] # None
          PROVE  spec[q] # None /\ registry'[q] = spec[q].port
      BY <2>2, <2>4, <3>1 DEF Served, Services
    <3> QED
      BY <1>3, <3>1 DEF Served, Services
  <2>6. \A q \in Projects : q # p => Registered(q)' /\ Honest(q)'
    BY <1>2, <1>3, <2>4 DEF Registered, Honest
  <2>7. ASSUME NEW f \in After(F, "saveRegistry", Serves)
        PROVE  f \in G
    <3>1. f \in DOMAIN Serves /\ f \in {"registered", "honest"}
      BY DEF After, Serves, Steps, KeySteps
    <3> QED
      BY <1>3, <1>4, <2>3, <2>4, <3>1 DEF KnownServes, Registered
  <2>8. Outline(agenda'[t], G, Orderly, Serves)
    BY <1>2, <1>4, <2>1, <2>7, TurnNext
  <2> QED
    BY <2>5, <2>6, <2>8 DEF Serving
<1> QED
  BY <1>5, <1>6, <1>7, <1>8

\* The login entry: the specification is read again before it is written.
LEMMA EntriesServe ==
    ASSUME Typed, Single, ~overlapped, Served, NEW t \in Terminals,
           ReadSpec(t) \/ WriteUnit(t) \/ RemoveUnit(t)
    PROVE  Serving(t)
<1> DEFINE p == In(t)
           F == KnownServes(t)
           G == KnownServes(t)'
<1>1. PICK x \in {"readSpec", "writeUnit", "removeUnit"} : At(t, x)
  BY DEF ReadSpec, WriteUnit, RemoveUnit, Do
<1>2. /\ p \in Projects /\ F \in SUBSET DOMAIN Serves /\ Outline(agenda[t], F, Orderly, Serves)
      /\ DOMAIN pm = Terminals /\ DOMAIN pm[t] = {"port", "taken", "spec", "apps"}
      /\ DOMAIN unit = Projects /\ Registered(p)
      /\ \A q \in Projects : q # p => Registered(q) /\ Honest(q)
  BY <1>1, ServesHere DEF Steps
<1>3. UNCHANGED <<spec, svc, registry, requested, moved>> /\ cmd' = cmd /\ In(t)' = p
  BY DEF ReadSpec, WriteUnit, RemoveUnit, Do, Quit, In
<1>4. G \in SUBSET DOMAIN Serves /\ Registered(In(t))'
  BY <1>2, <1>3 DEF KnownServes, Registered
<1>5. Services'
  BY <1>3 DEF Served, Services
<1>6. CASE ReadSpec(t) /\ spec[p] = None
  <2>1. Quit(t, "readSpec") /\ unit' = unit /\ Honest(p)
    BY <1>6 DEF ReadSpec, Honest
  <2> QED
    BY <1>2, <1>3, <2>1, ServesEnd
<1>7. CASE ReadSpec(t) /\ spec[p] # None
  <2>1. /\ Do(t, "readSpec", <<>>) /\ At(t, "readSpec") /\ unit' = unit
        /\ pm' = [pm EXCEPT ![t] = [pm[t] EXCEPT !.spec = spec[p]]]
    BY <1>7 DEF ReadSpec, Do, Remember
  <2>2. pm'[t].spec = spec[p]
    BY <1>2, <2>1
  <2>3. ASSUME NEW f \in After(F, "readSpec", Serves)
        PROVE  f \in G
    <3>1. f \in DOMAIN Serves /\ (f = "read" \/ (f \in F /\ f \in {"registered", "honest", "unit"}))
      BY DEF After, Serves, Steps, KeySteps
    <3>2. f \in {"honest", "unit"} /\ f \in F => f \in G
      BY <1>3, <2>1, <3>1 DEF KnownServes, Honest
    <3>3. f = "registered" => f \in G
      BY <1>4, <3>1 DEF KnownServes
    <3>4. f = "read" => f \in G
      BY <1>3, <1>7, <2>2, <3>1 DEF KnownServes
    <3> QED
      BY <3>1, <3>2, <3>3, <3>4
  <2>4. Outline(agenda'[t], G, Orderly, Serves)
    BY <1>2, <1>4, <2>1, <2>3, TurnNext
  <2> QED
    BY <1>3, <2>1, <2>4, SameServes DEF Serving
<1>8. CASE WriteUnit(t)
  <2>1. /\ Do(t, "writeUnit", <<>>) /\ At(t, "writeUnit")
        /\ unit' = [unit EXCEPT ![p] = TRUE]
    BY <1>8 DEF WriteUnit, Do
  <2>2. unit'[p] = TRUE /\ \A q \in Projects : q # p => unit'[q] = unit[q]
    BY <1>2, <2>1
  <2>3. \A q \in Projects : q # p => Registered(q)' /\ Honest(q)'
    BY <1>2, <1>3, <2>2 DEF Registered, Honest
  <2>4. ASSUME NEW f \in After(F, "writeUnit", Serves)
        PROVE  f \in G
    <3>1. f \in DOMAIN Serves /\ f \in {"registered", "honest", "unit"}
      BY DEF After, Serves, Steps, KeySteps
    <3>2. f = "registered" => f \in G
      BY <1>4, <3>1 DEF KnownServes
    <3>3. f \in {"honest", "unit"} => f \in G
      BY <1>3, <2>2, <3>1 DEF KnownServes, Honest
    <3> QED
      BY <3>1, <3>2, <3>3
  <2>5. Outline(agenda'[t], G, Orderly, Serves)
    BY <1>2, <1>4, <2>1, <2>4, TurnNext
  <2> QED
    BY <1>5, <2>3, <2>5 DEF Serving
<1>9. CASE RemoveUnit(t)
  <2>1. /\ Do(t, "removeUnit", <<>>) /\ At(t, "removeUnit")
        /\ unit' = [unit EXCEPT ![p] = FALSE]
    BY <1>9 DEF RemoveUnit, Do
  <2>2. \A q \in Projects : q # p => unit'[q] = unit[q]
    BY <1>2, <2>1
  <2>3. \A q \in Projects : q # p => Registered(q)' /\ Honest(q)'
    BY <1>2, <1>3, <2>2 DEF Registered, Honest
  <2>4. ASSUME NEW f \in After(F, "removeUnit", Serves)
        PROVE  f \in G
    <3>1. f \in DOMAIN Serves /\ f = "registered"
      BY DEF After, Serves, Steps, KeySteps
    <3> QED
      BY <1>4, <3>1 DEF KnownServes
  <2>5. Outline(agenda'[t], G, Orderly, Serves)
    BY <1>2, <1>4, <2>1, <2>4, TurnNext
  <2> QED
    BY <1>5, <2>3, <2>5 DEF Serving
<1> QED
  BY <1>6, <1>7, <1>8, <1>9

\* What is written is the specification as it is, but for what it says of the entry.
LEMMA MarkServes ==
    ASSUME Typed, Single, ~overlapped, Served, NEW t \in Terminals, MarkSpec(t) \/ ClearSpec(t)
    PROVE  Serving(t)
<1> DEFINE p == In(t)
           F == KnownServes(t)
           G == KnownServes(t)'
<1>1. PICK x \in {"markSpec", "clearSpec"} :
        /\ At(t, x) /\ Do(t, x, <<>>)
        /\ \E s : /\ spec' = [spec EXCEPT ![p] = s]
                  /\ s = [pm[t].spec EXCEPT !.autostart = (x = "markSpec")]
  BY DEF MarkSpec, ClearSpec, Do
<1>2. /\ p \in Projects /\ F \in SUBSET DOMAIN Serves /\ Outline(agenda[t], F, Orderly, Serves)
      /\ DOMAIN spec = Projects /\ Registered(p)
      /\ \A q \in Projects : q # p => Registered(q) /\ Honest(q)
      /\ \A f \in DOMAIN Serves : x \in Serves[f].need => f \in F
  BY <1>1, ServesHere DEF Steps
<1>3. UNCHANGED <<svc, unit, registry, requested, moved, pm>> /\ cmd' = cmd /\ In(t)' = p
  BY DEF MarkSpec, ClearSpec, Do, In
<1>4. /\ spec[p] # None /\ pm[t].spec = spec[p] /\ pm[t].spec \in Specs
      /\ x = "markSpec" => moved \/ unit[p]
  <2>1. "read" \in F /\ (x = "markSpec" => "unit" \in F)
    BY <1>2 DEF Serves
  <2>2. pm[t].spec \in Specs
    BY <1>1, TypesNeeded
  <2> QED
    BY <2>1, <2>2 DEF KnownServes
<1>5. /\ spec'[p] # None /\ spec'[p].port = spec[p].port
      /\ spec'[p].autostart = (x = "markSpec")
      /\ \A q \in Projects : q # p => spec'[q] = spec[q]
  <2>1. PICK s : /\ spec' = [spec EXCEPT ![p] = s]
                 /\ s = [pm[t].spec EXCEPT !.autostart = (x = "markSpec")]
    BY <1>1
  <2>2. s \in Specs /\ s.port = pm[t].spec.port /\ s.autostart = (x = "markSpec")
    BY <1>4, <2>1 DEF Specs
  <2>3. s # None
    BY <2>2, NoneIsNoPort
  <2> QED
    BY <1>2, <1>4, <2>1, <2>2, <2>3
<1>6. Services'
  BY <1>3, <1>4, <1>5 DEF Served, Services
<1>7. \A q \in Projects : q # p => Registered(q)' /\ Honest(q)'
  BY <1>2, <1>3, <1>5 DEF Registered, Honest
<1>8. G \in SUBSET DOMAIN Serves /\ Registered(In(t))' /\ Honest(In(t))'
  <2>1. Registered(In(t))'
    BY <1>2, <1>3, <1>4 DEF Registered
  <2>2. Honest(In(t))'
    BY <1>1, <1>3, <1>4, <1>5 DEF Honest
  <2> QED
    BY <2>1, <2>2 DEF KnownServes
<1>9. ASSUME NEW f \in After(F, x, Serves)
      PROVE  f \in G
  <2>1. f \in DOMAIN Serves /\ f \in {"registered", "honest"}
    BY DEF After, Serves, Steps, KeySteps
  <2> QED
    BY <1>8, <2>1 DEF KnownServes
<1>10. Outline(agenda'[t], G, Orderly, Serves)
  BY <1>1, <1>2, <1>8, <1>9, TurnNext
<1> QED
  BY <1>6, <1>7, <1>10 DEF Serving

\* After a move there is nothing to keep.
LEMMA MoveServes ==
    ASSUME Typed, Single, ~overlapped, Served, NEW t \in Terminals, MoveAway(t), ProjectsMove
    PROVE  Serving(t)
<1> DEFINE F == KnownServes(t)
           G == KnownServes(t)'
<1>1. Do(t, "move", <<>>) /\ At(t, "move") /\ moved' /\ \A q \in Projects : svc'[q] = None
  BY DEF MoveAway, ProjectsMove, Do
<1>2. F \in SUBSET DOMAIN Serves /\ Outline(agenda[t], F, Orderly, Serves)
  BY <1>1, ServesHere
<1>3. Services'
  BY <1>1 DEF Services
<1>4. (\A q \in Projects : Registered(q)' /\ Honest(q)') /\ Registered(In(t))' /\ Honest(In(t))'
  BY <1>1 DEF Registered, Honest
<1>5. G \in SUBSET DOMAIN Serves
  BY DEF KnownServes
<1>6. ASSUME NEW f \in After(F, "move", Serves)
      PROVE  f \in G
  <2>1. f \in DOMAIN Serves /\ f \in {"registered", "honest"}
    BY DEF After, Serves, Steps, KeySteps
  <2> QED
    BY <1>4, <2>1 DEF KnownServes
<1>7. Outline(agenda'[t], G, Orderly, Serves)
  BY <1>1, <1>2, <1>5, <1>6, TurnNext
<1> QED
  BY <1>3, <1>4, <1>7 DEF Serving

\* Every step that does not fail keeps the invariant of the services.
LEMMA StepServes ==
    ASSUME Typed, Single, ~overlapped, Served, NEW t \in Terminals, Step(t), faults' = 0
    PROVE  Served'
<1>1. ASSUME NEW x, NEW m, Fails(t, x, m)
      PROVE  FALSE
  <2>1. faults \in Nat
    BY FaultsAreNatural DEF Typed, TypeOK, TerminalsTypeOK
  <2> QED
    BY <1>1, <2>1 DEF Fails
<1>2. Acts(t)
  BY StepGoes
<1>3. CASE KeysStep(t) /\ UNCHANGED projectVars
  <2>1. \/ \E x \in KeySteps : \E m \in Seq(KeySteps) : Do(t, x, m)
        \/ \E x \in KeySteps : Quit(t, x)
    BY <1>1, <1>3, KeysAgenda
  <2> QED
    BY <1>2, <1>3, <2>1, KeysServe, ServesAssembled
<1>4. CASE /\ SnapshotsStep(t) \/ WasRunning(t, svc[In(t)] # None)
           /\ UNCHANGED projectVars
  <2>1. (svc[In(t)] # None) \in BOOLEAN
    OBVIOUS
  <2>2. \/ \E x \in SnapshotSteps, m \in SnapshotLists : Do(t, x, m)
        \/ \E x \in SnapshotSteps : Quit(t, x)
    BY <1>1, <1>4, <2>1, SnapshotAgenda
  <2> QED
    BY <1>2, <1>4, <2>2, SnapshotsServe, ServesAssembled
<1>5. CASE ProjectsStep(t)
  <2>1. ~StartTimesOut(t)
    BY <1>1 DEF StartTimesOut
  <2>2. Serving(t)
    <3>1. CASE DetectGiven(t) \/ DetectExisting(t) \/ DetectNew(t) \/ Running(t)
      BY <3>1, DetectServes
    <3>2. CASE Reserve(t) \/ Probe(t) \/ Open(t)
      BY <3>2, ProbeServes
    <3>3. CASE Configure(t)
      BY <3>3, ConfigureServes
    <3>4. CASE Start(t) \/ StopService(t)
      BY <3>4, StartServes
    <3>5. CASE ReadEntry(t) \/ ReadRegistry(t) \/ SaveRegistry(t)
      BY <3>5, EntryServes
    <3>6. CASE ReadSpec(t) \/ WriteUnit(t) \/ RemoveUnit(t)
      BY <3>6, EntriesServe
    <3>7. CASE MarkSpec(t) \/ ClearSpec(t)
      BY <3>7, MarkServes
    <3> QED
      BY <1>5, <2>1, <3>1, <3>2, <3>3, <3>4, <3>5, <3>6, <3>7 DEF ProjectsStep
  <2> QED
    BY <1>2, <2>2, ServesAssembled
<1>6. CASE MoveAway(t) /\ ProjectsMove
  BY <1>2, <1>6, MoveServes, ServesAssembled
<1> QED
  BY <1>3, <1>4, <1>5, <1>6 DEF Step

\* The steps that need no more than what every command leaves behind, and keep it.
OrderlySteps == Steps \ {"configure", "running", "probe", "saveRegistry", "start", "markSpec",
                         "clearSpec", "removeUnit"}

\* They have an outline from it to it.
LEMMA OrderlyStays ==
    ASSUME NEW m \in Seq(OrderlySteps)
    PROVE  Outline(m, Orderly, Orderly, Serves)
<1>1. ASSUME NEW x \in OrderlySteps
      PROVE  /\ x \in Steps /\ Ready(Orderly, x, Serves)
             /\ \A f \in Orderly : x \notin Serves[f].lose
  <2>1. x \in Steps /\ \A f \in Orderly : x \notin Serves[f].lose
    BY DEF OrderlySteps, Serves, Orderly
  <2>2. ASSUME NEW f \in DOMAIN Serves, x \in Serves[f].need
        PROVE  f \in Orderly
    BY <2>2 DEF OrderlySteps, Serves, Orderly
  <2> QED
    BY <2>1, <2>2 DEF Ready
<1>2. m \in Seq(Steps) /\ \A i \in 1..Len(m) : m[i] \in OrderlySteps
  BY DEF OrderlySteps
<1>3. Orderly \in SUBSET DOMAIN Serves
  BY DEF Serves, Orderly
<1> QED
  BY <1>1, <1>2, <1>3, Steady

\* The login entry is installed before the specification says so ...
LEMMA InstallServes == Outline(InstallEntry, Orderly, Orderly, Serves)
<1> DEFINE A == {"registered", "honest"}
           B == {"registered", "honest", "read"}
           C == {"registered", "honest", "unit"}
           D == {"registered", "honest", "unit", "read"}
<1>1. /\ A \in SUBSET DOMAIN Serves /\ B \in SUBSET DOMAIN Serves
      /\ C \in SUBSET DOMAIN Serves /\ D \in SUBSET DOMAIN Serves
      /\ "readSpec" \in Steps /\ "writeUnit" \in Steps /\ "markSpec" \in Steps
  BY DEF Serves, Steps
<1>2. Ready(A, "readSpec", Serves) /\ B \subseteq After(A, "readSpec", Serves)
  BY DEF Ready, After, Serves
<1>3. Ready(B, "writeUnit", Serves) /\ C \subseteq After(B, "writeUnit", Serves)
  BY DEF Ready, After, Serves
<1>4. Ready(C, "readSpec", Serves) /\ D \subseteq After(C, "readSpec", Serves)
  BY DEF Ready, After, Serves
<1>5. Ready(D, "markSpec", Serves) /\ A \subseteq After(D, "markSpec", Serves)
  BY DEF Ready, After, Serves
<1> HIDE DEF A, B, C, D
<1>6. Outline(<<"readSpec", "writeUnit">>, A, C, Serves)
  BY <1>1, <1>2, <1>3, Two
<1>7. Outline(<<"readSpec", "markSpec">>, C, A, Serves)
  BY <1>1, <1>4, <1>5, Two
<1>8. Outline(InstallEntry, A, A, Serves)
  BY <1>1, <1>6, <1>7, Four DEF InstallEntry
<1> QED
  BY <1>8 DEF A, Orderly

\* ... and is removed before the specification says that.
LEMMA RemoveServes == Outline(RemoveEntry, Orderly, Orderly, Serves)
<1> DEFINE A == {"registered", "honest"}
           B == {"registered", "honest", "read"}
           C == {"registered"}
           D == {"registered", "read"}
<1>1. /\ A \in SUBSET DOMAIN Serves /\ B \in SUBSET DOMAIN Serves
      /\ C \in SUBSET DOMAIN Serves /\ D \in SUBSET DOMAIN Serves
      /\ "readSpec" \in Steps /\ "removeUnit" \in Steps /\ "clearSpec" \in Steps
  BY DEF Serves, Steps
<1>2. Ready(A, "readSpec", Serves) /\ B \subseteq After(A, "readSpec", Serves)
  BY DEF Ready, After, Serves
<1>3. Ready(B, "removeUnit", Serves) /\ C \subseteq After(B, "removeUnit", Serves)
  BY DEF Ready, After, Serves
<1>4. Ready(C, "readSpec", Serves) /\ D \subseteq After(C, "readSpec", Serves)
  BY DEF Ready, After, Serves
<1>5. Ready(D, "clearSpec", Serves) /\ A \subseteq After(D, "clearSpec", Serves)
  BY DEF Ready, After, Serves
<1> HIDE DEF A, B, C, D
<1>6. Outline(<<"readSpec", "removeUnit">>, A, C, Serves)
  BY <1>1, <1>2, <1>3, Two
<1>7. Outline(<<"readSpec", "clearSpec">>, C, A, Serves)
  BY <1>1, <1>4, <1>5, Two
<1>8. Outline(RemoveEntry, A, A, Serves)
  BY <1>1, <1>6, <1>7, Four DEF RemoveEntry
<1> QED
  BY <1>8 DEF A, Orderly

\* The steps of every command leave projects registered, and entries as specified.
LEMMA ProgramsServe ==
    ASSUME NEW op \in DOMAIN Program
    PROVE  Outline(Program[op], {"registered", "honest", "startable"}, Orderly, Serves)
<1> DEFINE L == Seq(OrderlySteps)
<1>1. Orderly \subseteq {"registered", "honest", "startable"} /\ Orderly \subseteq Orderly
  BY DEF Orderly
<1>2. CASE op \notin {"restart", "installEntry", "removeEntry"}
  <2>1. \A a, b \in L : a \o b \in L
    OBVIOUS
  <2>2. /\ <<"ensure">> \in L /\ UseKey \in L /\ DeleteSecret \in L /\ Publish \in L
        /\ UseRecovery \in L /\ Move \in L /\ Deploy \in L /\ Stop \in L
        /\ Edit \in L /\ TakeSnapshot \in L
        /\ <<"readSecrets", "writeSecret">> \in L /\ <<"ensure", "readSecret">> \in L
        /\ <<"decrypt">> \in L /\ <<"ensure", "checkRecovery">> \in L
        /\ <<"writeRecovery", "printRecovery">> \in L /\ <<"ensure", "find">> \in L
        /\ <<"wasRunning", "halt", "unpack", "revive", "report">> \in L
    BY DEF UseKey, DeleteSecret, Publish, UseRecovery, Move, Deploy, Stop, Edit, TakeSnapshot,
           OrderlySteps, Steps
  <2> HIDE DEF L
  <2>3. SetSecret \in L /\ GetSecret \in L /\ CreateRecovery \in L /\ Rollback \in L
    BY <2>1, <2>2 DEF SetSecret, GetSecret, CreateRecovery, Rollback
  <2>4. Program[op] \in L
    BY <1>2, <2>2, <2>3 DEF Program
  <2>5. Outline(Program[op], Orderly, Orderly, Serves)
    BY <2>4, OrderlyStays DEF L
  <2> QED
    BY <1>1, <2>5, Wider
<1> HIDE DEF L
<1>3. CASE op = "restart"
  <2>1. <<"stop", "start">> \in SnapshotLists /\ Program[op] = <<"stop", "start">>
    BY <1>3 DEF SnapshotLists, Program, Restart
  <2> QED
    BY <2>1, ListsServe
<1>4. CASE op \in {"installEntry", "removeEntry"}
  <2>1. Program[op] = InstallEntry \/ Program[op] = RemoveEntry
    BY <1>4 DEF Program
  <2> QED
    BY <1>1, <2>1, InstallServes, RemoveServes, Wider
<1> QED
  BY <1>2, <1>3, <1>4

\* A command that begins keeps the invariant.
LEMMA BeginServes ==
    ASSUME Typed, Single, Served, NEW t \in Terminals, Begin(t), ~overlapped'
    PROVE  Served'
<1>1. /\ \A q \in Projects : Idle(q)
      /\ \A u \in Terminals : Busy(u)' => u = t
      /\ In(t)' \in Projects /\ cmd'[t].op \in DOMAIN Program
      /\ agenda'[t] = Program[cmd'[t].op]
  BY BeginTurn
<1>2. UNCHANGED <<spec, svc, unit, registry, requested, moved>>
  BY DEF Begin, ProjectsBegin
<1>3. Services'
  BY <1>2 DEF Served, Services
<1>4. \A q \in Projects : Registered(q)' /\ Honest(q)'
  BY <1>1, <1>2 DEF Served, Registered, Honest
<1>5. Registered(In(t))' /\ Honest(In(t))'
  BY <1>1, <1>4 DEF Registered, Honest
<1>6. {"registered", "honest", "startable"} \subseteq KnownServes(t)'
  BY <1>5 DEF KnownServes, Serves, Startable
<1>7. Outline(agenda'[t], KnownServes(t)', Orderly, Serves)
  BY <1>1, <1>6, ProgramsServe, Wider
<1> QED
  BY <1>1, <1>3, <1>4, <1>7 DEF Served

-----------------------------------------------------------------------------
(* Together *)

\* The invariant of the history and of the services: commands take turns, and none is
\* interrupted.
Kempt == ~overlapped /\ faults = 0 => Counted /\ Served

\* Everything that may happen keeps it.
LEMMA NextTurns ==
    ASSUME Typed, Single, Kempt, Next
    PROVE  Kempt'
<1> SUFFICES ASSUME ~overlapped', faults' = 0
             PROVE  Counted' /\ Served'
  BY DEF Kempt
<1>1. PICK t \in Terminals :
        Begin(t) \/ Step(t) \/ (Interrupt(t) /\ UNCHANGED <<keyVars, projectVars, snapshotVars>>)
  BY DEF Next
<1>2. CASE Begin(t)
  <2>1. ~overlapped /\ faults = 0
    BY <1>2, BeginTurn
  <2> QED
    BY <1>2, <2>1, BeginCounts, BeginServes DEF Kempt
<1>3. CASE Step(t)
  <2>1. Acts(t)
    BY <1>3, StepGoes
  <2>2. ~overlapped
    BY <2>1 DEF Acts, Do, Quit, Fails
  <2>3. faults = 0
    BY <2>1, <2>2, TurnOf
  <2> QED
    BY <1>3, <2>2, <2>3, StepCounts, StepServes DEF Kempt
<1>4. ~Interrupt(t)
  <2>1. faults \in Nat
    BY FaultsAreNatural DEF Typed, TypeOK, TerminalsTypeOK
  <2> QED
    BY <2>1 DEF Interrupt, Fails
<1> QED
  BY <1>1, <1>2, <1>3, <1>4

\* It holds at first, when nothing is there ...
LEMMA InitTurns ==
    ASSUME Init
    PROVE  Kempt
<1>1. \A t \in Terminals : ~Busy(t)
  BY DEF Init, TerminalsInit, Busy
<1>2. Counted
  BY <1>1 DEF Init, KeysInit, Counted, Even
<1>3. Served
  BY <1>1 DEF Init, ProjectsInit, Served, Services, Registered, Honest
<1> QED
  BY <1>2, <1>3 DEF Kempt

\* ... when nothing happens ...
LEMMA StutterTurns ==
    ASSUME Kempt, UNCHANGED vars
    PROVE  Kempt'
<1>1. UNCHANGED <<terminalVars, keyVars, projectVars>>
  BY DEF vars
<1>2. /\ UNCHANGED <<cmd, agenda, count, overlapped, faults, manifest, runs, km>>
      /\ UNCHANGED <<spec, svc, unit, registry, requested, moved, pm>>
  BY <1>1 DEF terminalVars, keyVars, projectVars
<1>3. \A t \in Terminals : KnownCounts(t)' = KnownCounts(t)
  BY <1>2 DEF KnownCounts, In, Even
<1>4. \A t \in Terminals : KnownServes(t)' = KnownServes(t)
  BY <1>2 DEF KnownServes, In, Registered, Honest, Good, Reserved, Bound, Startable
<1>5. Counted => Counted'
  BY <1>2, <1>3 DEF Counted, Even, Idle, Busy, In
<1>6. Served => Served'
  BY <1>2, <1>4 DEF Served, Services, Registered, Honest, Idle, Busy, In
<1> QED
  BY <1>2, <1>5, <1>6 DEF Kempt

\* ... and ever after.
LEMMA TurnsInvariance == Spec => []Kempt
<1> DEFINE J == Typed /\ Single /\ (~overlapped => Saved)
<1>1. Spec => []J
  BY SavesInvariance
<1>2. Init => Kempt
  BY InitTurns
<1>3. J /\ Kempt /\ [Next]_vars => Kempt'
  BY NextTurns, StutterTurns
<1> HIDE DEF J
<1> QED
  BY <1>1, <1>2, <1>3, PTL DEF Spec

\* deploy reserves the port of every registered project, running or stopped, and probes
\* the rest, so projects whose port nobody gave have different ones: for any number of
\* projects and ports (ports.py 26-79, main.py 119-166).
THEOREM PortsStayDifferent == Spec => []PortsDiffer
<1>1. Kempt => PortsDiffer
  <2> SUFFICES ASSUME Served, ~moved, NEW p \in Projects, NEW q \in Projects, p # q,
                      registry[p] = registry[q], registry[p] # None,
                      requested \cap {p, q} = {}
               PROVE  FALSE
    BY DEF Kempt, PortsDiffer
  <2>1. p \in Projects \ requested /\ q \in Projects \ requested
    OBVIOUS
  <2>2. /\ spec[p] # None /\ registry[p] = spec[p].port
        /\ spec[q] # None /\ registry[q] = spec[q].port
    BY <2>1 DEF Served, Services
  <2> QED
    BY <2>1, <2>2 DEF Served, Services
<1> QED
  BY TurnsInvariance, <1>1, PTL

\* Where service.json says that the app starts at login there is an entry for it: the
\* entry is written first and removed first, and deploy writes a specification that asks
\* for none (autostart.py 127-196).
THEOREM AutostartStaysInstalled == Spec => []AutostartIsInstalled
<1>1. Kempt => AutostartIsInstalled
  BY DEF Kempt, Served, AutostartIsInstalled, Calm, Idle, Honest
<1> QED
  BY TurnsInvariance, <1>1, PTL

\* Every snapshot is listed, every service that runs is registered, and every publication
\* is counted and ended: what one command has read no other one changes before it writes,
\* and each writes before it ends (snapshots.py 162-164, registry.py 55-77,
\* state.py 81-112).
THEOREM NothingGetsLost == Spec => []NothingIsLost
<1>1. Typed /\ (~overlapped => Saved) /\ Kempt => NothingIsLost
  <2> SUFFICES ASSUME Typed, ~overlapped => Saved, Kempt, Calm, NEW p \in Projects
               PROVE  /\ {a.id : a \in archives[p]} = listed[p]
                      /\ svc[p] # None => registry[p] # None \/ moved
                      /\ manifest[p] # None => manifest[p].runs = runs[p] /\ manifest[p].ends = runs[p]
    BY DEF NothingIsLost
  <2>1. Idle(p) /\ Saved /\ Counted /\ Served /\ faults = 0
    BY DEF Calm, Kempt, Idle
  <2>2. {a.id : a \in archives[p]} = listed[p]
    BY <2>1 DEF Saved, Level, Ids
  <2>3. svc[p] # None => registry[p] # None \/ moved
    BY <2>1 DEF Served, Services, Registered
  <2>4. manifest[p] # None => manifest[p].runs = runs[p] /\ manifest[p].ends = runs[p]
    BY <2>1 DEF Counted, Even
  <2> QED
    BY <2>2, <2>3, <2>4
<1> QED
  BY SavesInvariance, TurnsInvariance, <1>1, PTL
=============================================================================

-------------------------- MODULE WorkspaceProofs --------------------------
(***************************************************************************)
(* Proofs about Workspace, for every number of terminals, projects and     *)
(* files, whatever is typed and however often it is interrupted: what the  *)
(* list of snapshots names is stored, and no recovery envelope is kept     *)
(* whose key was not shown.                                                *)
(*                                                                         *)
(* Both rest on the order of the steps of a command, which its agenda is.  *)
(***************************************************************************)
EXTENDS Workspace, TLAPS

\* The steps that the two properties are about.
Marked == {"store", "saveIndex", "writeRecovery", "printRecovery"}

\* The names of the steps.
Steps == {"ensure", "root", "unlock", "readSecrets", "writeSecret", "readSecret",
          "decrypt", "dropSecret", "checkRecovery", "writeRecovery", "printRecovery",
          "openRecovery", "wrap", "countRun", "share", "countEnd", "move", "create",
          "makeRoot", "confirmRoot", "open", "configure", "start", "readEntry",
          "readRegistry", "saveRegistry", "detect", "stop", "readSpec", "writeUnit",
          "markSpec", "removeUnit", "clearSpec", "running", "reserve", "probe", "list",
          "pack", "store", "readIndex", "saveIndex", "find", "wasRunning", "halt",
          "unpack", "revive", "report", "edit"}

\* Steps that are added to an agenda are not among them.
Plain(m) == m \in Seq(Steps) /\ \A i \in 1..Len(m) : m[i] \notin Marked

\* A snapshot is stored once and before it is listed, and a recovery key is shown as
\* soon as its envelope is written; done: the command has stored its snapshot.
InOrder(s, done) ==
    /\ s \in Seq(Steps)
    /\ \A i \in 1..Len(s) : s[i] = "store" =>
        ~done /\ \A j \in 1..Len(s) : s[j] = "store" => j = i
    /\ \A i \in 1..Len(s) : s[i] = "saveIndex" =>
        done \/ \E j \in 1..(i-1) : s[j] = "store"
    /\ \A i \in 1..Len(s) : s[i] = "writeRecovery" =>
        i + 1 \in 1..Len(s) /\ s[i+1] = "printRecovery"

\* Plain steps may come in front.
LEMMA PlainInFront ==
    ASSUME NEW m, Plain(m), NEW s, NEW done \in BOOLEAN, InOrder(s, done),
           NEW r, r = m \o s
    PROVE  InOrder(r, done)
<1> DEFINE n == Len(m)
<1>1. m \in Seq(Steps) /\ s \in Seq(Steps) /\ r \in Seq(Steps) /\ n \in Nat /\ Len(s) \in Nat
      /\ Len(r) = n + Len(s)
  BY DEF Plain, InOrder
<1>2. \A i \in 1..Len(r) : i <= n => r[i] = m[i] /\ r[i] \notin Marked
  BY <1>1 DEF Plain
<1>3. \A i \in 1..Len(r) : i > n => i - n \in 1..Len(s) /\ r[i] = s[i-n]
  BY <1>1
<1>4. \A i \in 1..Len(s) : i + n \in 1..Len(r) /\ r[i+n] = s[i]
  BY <1>1
<1>5. \A i \in 1..Len(r) : r[i] \in Marked => i > n /\ i - n \in 1..Len(s) /\ s[i-n] = r[i]
  BY <1>1, <1>2, <1>3
<1> HIDE DEF n
<1>6. ASSUME NEW i \in 1..Len(r), r[i] = "store"
      PROVE  ~done /\ \A j \in 1..Len(r) : r[j] = "store" => j = i
  <2>1. ~done /\ \A j \in 1..Len(s) : s[j] = "store" => j = i - n
    BY <1>5, <1>6 DEF InOrder, Marked
  <2>2. ASSUME NEW j \in 1..Len(r), r[j] = "store"
        PROVE  j = i
    <3>1. j - n = i - n
      BY <1>5, <2>1, <2>2 DEF Marked
    <3> QED
      BY <1>1, <3>1
  <2> QED
    BY <2>1, <2>2
<1>7. ASSUME NEW i \in 1..Len(r), r[i] = "saveIndex"
      PROVE  done \/ \E j \in 1..(i-1) : r[j] = "store"
  <2>1. i - n \in 1..Len(s) /\ s[i-n] = "saveIndex"
    BY <1>5, <1>7 DEF Marked
  <2>2. CASE done
    BY <2>2
  <2>3. CASE ~done
    <3>1. PICK j \in 1..(i-n-1) : s[j] = "store"
      BY <2>1, <2>3 DEF InOrder
    <3>2. j \in 1..Len(s) /\ j + n \in 1..(i-1)
      BY <1>1, <2>1, <3>1
    <3> QED
      BY <1>4, <3>1, <3>2
  <2> QED
    BY <2>2, <2>3
<1>8. ASSUME NEW i \in 1..Len(r), r[i] = "writeRecovery"
      PROVE  i + 1 \in 1..Len(r) /\ r[i+1] = "printRecovery"
  <2>1. i - n \in 1..Len(s) /\ s[i-n] = "writeRecovery"
    BY <1>5, <1>8 DEF Marked
  <2>2. i - n + 1 \in 1..Len(s) /\ s[i-n+1] = "printRecovery"
    BY <2>1 DEF InOrder
  <2>3. (i - n + 1) + n = i + 1
    BY <1>1
  <2> QED
    BY <1>4, <2>2, <2>3
<1> QED
  BY <1>1, <1>6, <1>7, <1>8 DEF InOrder

\* When the first step is done the rest is in order.
LEMMA RestInOrder ==
    ASSUME NEW s, NEW done \in BOOLEAN, InOrder(s, done), s # <<>>,
           NEW r, r = Tail(s)
    PROVE  InOrder(r, done \/ Head(s) = "store")
<1>1. s \in Seq(Steps) /\ r \in Seq(Steps) /\ Len(s) \in Nat /\ Len(s) > 0 /\ Len(r) = Len(s) - 1
      /\ Head(s) = s[1]
  BY DEF InOrder
<1>2. \A i \in 1..Len(r) : i + 1 \in 1..Len(s) /\ r[i] = s[i+1]
  BY <1>1
<1>3. ASSUME NEW i \in 1..Len(r), r[i] = "store"
      PROVE  ~(done \/ Head(s) = "store") /\ \A j \in 1..Len(r) : r[j] = "store" => j = i
  <2>1. i + 1 \in 1..Len(s) /\ s[i+1] = "store" /\ 1 \in 1..Len(s) /\ i + 1 # 1
    BY <1>1, <1>2, <1>3
  <2>2. ~done /\ \A j \in 1..Len(s) : s[j] = "store" => j = i + 1
    BY <2>1 DEF InOrder
  <2>3. ASSUME NEW j \in 1..Len(r), r[j] = "store"
        PROVE  j = i
    <3>1. j + 1 = i + 1
      BY <1>2, <2>2, <2>3
    <3> QED
      BY <1>1, <3>1
  <2> QED
    BY <1>1, <2>1, <2>2, <2>3
<1>4. ASSUME NEW i \in 1..Len(r), r[i] = "saveIndex"
      PROVE  done \/ Head(s) = "store" \/ \E j \in 1..(i-1) : r[j] = "store"
  <2>1. i + 1 \in 1..Len(s) /\ s[i+1] = "saveIndex"
    BY <1>2, <1>4
  <2>2. CASE done
    BY <2>2
  <2>3. CASE ~done
    <3>1. PICK j \in 1..i : s[j] = "store"
      BY <1>1, <2>1, <2>3 DEF InOrder
    <3>2. CASE j = 1
      BY <1>1, <3>1, <3>2
    <3>3. CASE j # 1
      <4>1. j - 1 \in 1..(i-1) /\ j - 1 \in 1..Len(r) /\ (j - 1) + 1 = j
        BY <1>1, <3>1, <3>3
      <4>2. r[j-1] = "store"
        BY <1>2, <3>1, <4>1
      <4> QED
        BY <4>1, <4>2
    <3> QED
      BY <3>2, <3>3
  <2> QED
    BY <2>2, <2>3
<1>5. ASSUME NEW i \in 1..Len(r), r[i] = "writeRecovery"
      PROVE  i + 1 \in 1..Len(r) /\ r[i+1] = "printRecovery"
  <2>1. i + 2 \in 1..Len(s) /\ s[i+2] = "printRecovery"
    BY <1>1, <1>2, <1>5 DEF InOrder
  <2>2. i + 1 \in 1..Len(r) /\ (i + 1) + 1 = i + 2
    BY <1>1, <2>1
  <2> QED
    BY <1>2, <2>1, <2>2
<1> QED
  BY <1>1, <1>3, <1>4, <1>5 DEF InOrder

\* Plain steps may come behind.
LEMMA PlainBehind ==
    ASSUME NEW m, Plain(m), NEW s, NEW done \in BOOLEAN, InOrder(s, done),
           NEW r, r = s \o m
    PROVE  InOrder(r, done)
<1> DEFINE n == Len(s)
<1>1. m \in Seq(Steps) /\ s \in Seq(Steps) /\ r \in Seq(Steps) /\ n \in Nat /\ Len(m) \in Nat
      /\ Len(r) = n + Len(m)
  BY DEF Plain, InOrder
<1>2. \A i \in 1..Len(r) : i <= n => i \in 1..n /\ r[i] = s[i]
  BY <1>1
<1>3. \A i \in 1..Len(r) : i > n => i - n \in 1..Len(m) /\ r[i] = m[i-n]
  BY <1>1
<1>4. \A i \in 1..n : i \in 1..Len(r) /\ r[i] = s[i]
  BY <1>1, <1>2
<1>5. \A i \in 1..Len(r) : r[i] \in Marked => i \in 1..n /\ s[i] = r[i]
  BY <1>1, <1>2, <1>3 DEF Plain
<1> HIDE DEF n
<1>6. \A i \in 1..n : s[i] = "writeRecovery" => i + 1 \in 1..n /\ s[i+1] = "printRecovery"
  BY DEF InOrder, n
<1>7. \A i \in 1..n : s[i] = "saveIndex" => done \/ \E j \in 1..(i-1) : s[j] = "store"
  BY DEF InOrder, n
<1>8. \A i \in 1..n : s[i] = "store" => ~done /\ \A j \in 1..n : s[j] = "store" => j = i
  BY DEF InOrder, n
<1>9. \A i \in 1..Len(r) : r[i] = "store" => ~done /\ \A j \in 1..Len(r) : r[j] = "store" => j = i
  BY <1>5, <1>8 DEF Marked
<1>10. ASSUME NEW i \in 1..Len(r), r[i] = "saveIndex"
       PROVE  done \/ \E j \in 1..(i-1) : r[j] = "store"
  <2>1. \A j \in 1..(i-1) : j \in 1..n
    BY <1>1, <1>5, <1>10 DEF Marked
  <2> QED
    BY <1>4, <1>5, <1>7, <1>10, <2>1 DEF Marked
<1>11. \A i \in 1..Len(r) : r[i] = "writeRecovery" => i + 1 \in 1..Len(r) /\ r[i+1] = "printRecovery"
  BY <1>4, <1>5, <1>6 DEF Marked
<1> QED
  BY <1>1, <1>9, <1>10, <1>11 DEF InOrder

\* Plain steps are plain together.
LEMMA PlainTogether ==
    ASSUME NEW m, Plain(m), NEW s, Plain(s)
    PROVE  Plain(m \o s)
<1>1. m \in Seq(Steps) /\ s \in Seq(Steps) /\ m \o s \in Seq(Steps)
      /\ Len(m) \in Nat /\ Len(s) \in Nat /\ Len(m \o s) = Len(m) + Len(s)
  BY DEF Plain
<1>2. ASSUME NEW i \in 1..Len(m \o s)
      PROVE  (m \o s)[i] \notin Marked
  <2>1. CASE i <= Len(m)
    BY <1>1, <2>1 DEF Plain
  <2>2. CASE i > Len(m)
    <3>1. i - Len(m) \in 1..Len(s) /\ (m \o s)[i] = s[i - Len(m)]
      BY <1>1, <2>2
    <3> QED
      BY <3>1 DEF Plain
  <2> QED
    BY <1>1, <2>1, <2>2
<1> QED
  BY <1>1, <1>2 DEF Plain

\* Plain steps are in order.
LEMMA PlainInOrder ==
    ASSUME NEW m, Plain(m), NEW done \in BOOLEAN
    PROVE  InOrder(m, done)
BY DEF Plain, InOrder, Marked

\* What the steps of the modules add to an agenda is plain.
LEMMA AddedIsPlain ==
    /\ Plain(<<>>) /\ Plain(<<"create">>) /\ Plain(<<"share">>)
    /\ Plain(<<"makeRoot", "confirmRoot">>) /\ Plain(<<"ensure", "root", "wrap">>)
    /\ Plain(<<"running">>) /\ Plain(<<"pack">>) /\ Plain(<<"unpack">>)
    /\ Plain(<<"stop">>) /\ Plain(<<"stop", "start">>)
    /\ Plain(Launch) /\ Plain(Register) /\ Plain(Launch \o Register)
    /\ Plain(<<"reserve", "probe">> \o Launch \o Register)
<1>1. /\ Plain(<<>>) /\ Plain(<<"create">>) /\ Plain(<<"share">>)
      /\ Plain(<<"running">>) /\ Plain(<<"pack">>) /\ Plain(<<"unpack">>) /\ Plain(<<"stop">>)
  BY DEF Plain, Marked, Steps
<1>2. /\ Plain(<<"makeRoot", "confirmRoot">>) /\ Plain(<<"ensure", "root", "wrap">>)
      /\ Plain(<<"stop", "start">>)
  BY DEF Plain, Marked, Steps
<1>3. Plain(Launch) /\ Plain(Register)
  BY DEF Plain, Marked, Steps, Launch, Register
<1>4. Plain(<<"reserve", "probe">>)
  BY DEF Plain, Marked, Steps
<1>5. Plain(Launch \o Register)
  BY <1>3, PlainTogether
<1>6. Plain((<<"reserve", "probe">> \o Launch) \o Register)
  <2>1. Plain(<<"reserve", "probe">> \o Launch)
    BY <1>3, <1>4, PlainTogether
  <2> QED
    BY <1>3, <2>1, PlainTogether
<1> QED
  BY <1>1, <1>2, <1>3, <1>5, <1>6

\* The steps of every command are in order.
LEMMA ProgramsAreInOrder ==
    ASSUME NEW op \in DOMAIN Program
    PROVE  InOrder(Program[op], FALSE)
<1>1. /\ Plain(<<"ensure">>) /\ Plain(UseKey) /\ Plain(DeleteSecret) /\ Plain(UseRecovery)
      /\ Plain(Move) /\ Plain(Deploy) /\ Plain(Stop) /\ Plain(Restart) /\ Plain(InstallEntry)
      /\ Plain(RemoveEntry) /\ Plain(Edit) /\ Plain(Publish)
  BY DEF Plain, Marked, Steps, UseKey, DeleteSecret, UseRecovery, Move, Deploy, Stop, Restart,
         InstallEntry, RemoveEntry, Edit, Publish
<1>2. Plain(SetSecret)
  <2>1. Plain(<<"readSecrets", "writeSecret">>) /\ Plain(<<"ensure">> \o UseKey)
    BY <1>1, PlainTogether DEF Plain, Marked, Steps
  <2> QED
    BY <2>1, PlainTogether DEF SetSecret
<1>3. Plain(GetSecret)
  <2>1. Plain(<<"ensure", "readSecret">>) /\ Plain(<<"decrypt">>)
    BY DEF Plain, Marked, Steps
  <2>2. Plain(<<"ensure", "readSecret">> \o UseKey)
    BY <1>1, <2>1, PlainTogether
  <2> QED
    BY <2>1, <2>2, PlainTogether DEF GetSecret
<1>4. InOrder(CreateRecovery, FALSE)
  <2>1. InOrder(<<"writeRecovery", "printRecovery">>, FALSE)
    BY DEF InOrder, Steps
  <2>2. Plain(<<"ensure", "checkRecovery">> \o UseKey)
    <3>1. Plain(<<"ensure", "checkRecovery">>)
      BY DEF Plain, Marked, Steps
    <3> QED
      BY <1>1, <3>1, PlainTogether
  <2> QED
    BY <2>1, <2>2, PlainInFront DEF CreateRecovery
<1>5. InOrder(TakeSnapshot, FALSE)
  BY DEF InOrder, Steps, TakeSnapshot
<1>6. InOrder(Rollback, FALSE)
  <2>1. Plain(<<"ensure", "find">>)
    BY DEF Plain, Marked, Steps
  <2>2. Plain(<<"wasRunning", "halt", "unpack", "revive", "report">>)
    BY DEF Plain, Marked, Steps
  <2>3. InOrder(<<"ensure", "find">> \o TakeSnapshot, FALSE)
    BY <1>5, <2>1, PlainInFront
  <2> QED
    BY <2>2, <2>3, PlainBehind DEF Rollback
<1>7. InOrder(<<"ensure">>, FALSE) /\ InOrder(UseKey, FALSE) /\ InOrder(DeleteSecret, FALSE)
      /\ InOrder(UseRecovery, FALSE) /\ InOrder(Move, FALSE) /\ InOrder(Deploy, FALSE)
      /\ InOrder(Stop, FALSE) /\ InOrder(Restart, FALSE) /\ InOrder(InstallEntry, FALSE)
      /\ InOrder(RemoveEntry, FALSE) /\ InOrder(Edit, FALSE) /\ InOrder(Publish, FALSE)
      /\ InOrder(SetSecret, FALSE) /\ InOrder(GetSecret, FALSE)
  BY <1>1, <1>2, <1>3, PlainInOrder
<1>8. op \in {"init", "publish", "secureInit", "setSecret", "getSecret", "deleteSecret",
               "createRecovery", "useRecovery", "move", "deploy", "stop", "restart",
               "installEntry", "removeEntry", "snapshot", "rollback", "edit"}
  BY DEF Program
<1>9. /\ op = "createRecovery" => Program[op] = CreateRecovery
      /\ op = "snapshot" => Program[op] = TakeSnapshot
      /\ op = "rollback" => Program[op] = Rollback
  BY DEF Program
<1>10. op \notin {"createRecovery", "snapshot", "rollback"} =>
        Program[op] \in {<<"ensure">>, Publish, UseKey, SetSecret, GetSecret, DeleteSecret,
                         UseRecovery, Move, Deploy, Stop, Restart, InstallEntry, RemoveEntry,
                         Edit}
  BY <1>8 DEF Program
<1> QED
  BY <1>4, <1>5, <1>6, <1>7, <1>9, <1>10

-----------------------------------------------------------------------------
(* The invariant *)

\* The shapes that the steps rely on.
Shapes ==
    /\ script \in [Terminals -> Seq(Commands)]
    /\ count \in [Terminals -> Nat]
    /\ faults \in Nat
    /\ DOMAIN agenda = Terminals /\ DOMAIN cmd = Terminals
    /\ DOMAIN archives = Projects /\ DOMAIN listed = Projects /\ DOMAIN recovery = Projects
    /\ \A t \in Terminals : Busy(t) => cmd[t] \in Commands

Memories ==
    /\ DOMAIN km = Terminals /\ DOMAIN sm = Terminals
    /\ \A t \in Terminals : DOMAIN km[t] = DOMAIN Blank /\ DOMAIN sm[t] = DOMAIN NoWork

Ids(p) == {a.id : a \in archives[p]}

\* A snapshot has the id of a command that has begun, and no other snapshot has it.
IdsAreOld ==
    \A p \in Projects : \A a \in archives[p] :
        /\ \E u \in Terminals : \E n \in 0..count[u] : a.id = <<u, n>>
        /\ \A b \in archives[p] : a.id = b.id => a = b

Stored(t) == \E a \in archives[In(t)] : a.id = Fresh(t)

AgendasInOrder == \A t \in Terminals : InOrder(agenda[t], Stored(t))

IndexesAreStored ==
    /\ \A p \in Projects : listed[p] \subseteq Ids(p)
    /\ \A t \in Terminals : Busy(t) => sm[t].index \subseteq Ids(In(t))

Held(p) ==
    \/ [in |-> p, lock |-> recovery[p].lock] \in printed
    \/ faults > 0
    \/ \E t \in Terminals :
        At(t, "printRecovery") /\ In(t) = p /\ km[t].lock = recovery[p].lock

AllHeld == \A p \in Projects : recovery[p] # None => Held(p)

WInv == Shapes /\ Memories /\ IdsAreOld /\ AgendasInOrder /\ IndexesAreStored /\ AllHeld

-----------------------------------------------------------------------------
(* Most steps are quiet: they change nothing that the invariant is about but the agenda  *)
(* of one terminal, and that in one of two ways.                                         *)

\* A step that is not marked is done, or the rest is given up.
Moves(t) ==
    /\ Busy(t)
    /\ UNCHANGED <<script, cmd, count>>
    /\ faults' \in Nat /\ faults' >= faults
    /\ \E m : /\ Plain(m)
              /\ \/ /\ Head(agenda[t]) \notin Marked
                    /\ agenda' = [agenda EXCEPT ![t] = m \o Tail(@)]
                 \/ /\ Head(agenda[t]) \notin Marked \/ faults' > 0
                    /\ agenda' = [agenda EXCEPT ![t] = m]

\* What was kept for the lists of snapshots and the recovery keys is kept.
Keeps ==
    /\ UNCHANGED <<archives, listed, recovery, printed>>
    /\ Memories'
    /\ \A t \in Terminals : km'[t].lock = km[t].lock /\ sm'[t].index = sm[t].index

Quiet(t) == Moves(t) /\ Keeps

\* Do, Quit and Fails move, as their definitions say (Terminals).
LEMMA DoMoves ==
    ASSUME NEW t, NEW step, step \notin Marked, NEW m, Plain(m), faults \in Nat, Do(t, step, m)
    PROVE  Moves(t)
<1>1. Busy(t) /\ Head(agenda[t]) \notin Marked /\ UNCHANGED <<script, cmd, count>>
      /\ agenda' = [agenda EXCEPT ![t] = m \o Tail(@)]
  BY DEF Do, At
<1>2. faults' \in Nat /\ faults' >= faults
  BY DEF Do
<1> QED
  BY <1>1, <1>2, Zenon DEF Moves

LEMMA QuitMoves ==
    ASSUME NEW t, NEW step, step \notin Marked, faults \in Nat, Quit(t, step)
    PROVE  Moves(t)
<1>1. Busy(t) /\ Head(agenda[t]) \notin Marked /\ UNCHANGED <<script, cmd, count>>
      /\ agenda' = [agenda EXCEPT ![t] = <<>>]
  BY DEF Quit, At
<1>2. faults' \in Nat /\ faults' >= faults
  BY DEF Quit
<1>3. Plain(<<>>)
  BY AddedIsPlain
<1> QED
  BY <1>1, <1>2, <1>3, Zenon DEF Moves

LEMMA FailsMoves ==
    ASSUME NEW t, NEW step, NEW m, Plain(m), faults \in Nat, Fails(t, step, m)
    PROVE  Moves(t)
<1>1. Busy(t) /\ UNCHANGED <<script, cmd, count>> /\ agenda' = [agenda EXCEPT ![t] = m]
  BY DEF Fails, At
<1>2. faults' \in Nat /\ faults' >= faults /\ faults' > 0
  BY DEF Fails
<1> QED
  BY <1>1, <1>2, Zenon DEF Moves

\* What the key commands remember keeps its shape, and the recovery keys are kept.
KeysKept ==
    /\ UNCHANGED <<recovery, printed>>
    /\ DOMAIN km' = Terminals
    /\ \A u \in Terminals : DOMAIN km'[u] = DOMAIN Blank /\ km'[u].lock = km[u].lock

\* The steps on the manifest.
LEMMA ManifestIsQuiet ==
    ASSUME Memories, faults \in Nat, NEW t \in Terminals, ManifestStep(t)
    PROVE  Moves(t) /\ KeysKept
<1>1. CASE EnsureFinds(t)
  <2>1. Moves(t)
    BY <1>1, AddedIsPlain, DoMoves DEF EnsureFinds, Marked, Seen
  <2>2. KeysKept
    BY <1>1 DEF EnsureFinds, KeysKept, Memories, Blank, keyVars, keyFiles, Seen
  <2> QED
    BY <2>1, <2>2
<1>2. CASE EnsureMisses(t)
  <2>1. Moves(t)
    BY <1>2, AddedIsPlain, DoMoves DEF EnsureMisses, Marked
  <2>2. KeysKept
    BY <1>2 DEF EnsureMisses, KeysKept, Memories, Blank, keyVars, keyFiles
  <2> QED
    BY <2>1, <2>2
<1>3. CASE Create(t)
  <2>1. Moves(t)
    BY <1>3, AddedIsPlain, DoMoves DEF Create, Marked, Seen
  <2>2. KeysKept
    BY <1>3 DEF Create, KeysKept, Memories, Blank, keyVars, keyFiles, Seen
  <2> QED
    BY <2>1, <2>2
<1>4. CASE CountRun(t)
  <2>1. Moves(t)
    BY <1>4, AddedIsPlain, DoMoves DEF CountRun, Marked
  <2>2. KeysKept
    BY <1>4 DEF CountRun, KeysKept, Memories, Blank, keyVars, keyFiles
  <2> QED
    BY <2>1, <2>2
<1>5. CASE CountFails(t)
  <2>1. Moves(t)
    BY <1>5, AddedIsPlain, FailsMoves DEF CountFails, Marked
  <2>2. KeysKept
    BY <1>5 DEF CountFails, KeysKept, Memories, Blank, keyVars, keyFiles
  <2> QED
    BY <2>1, <2>2
<1>6. CASE Share(t)
  <2>1. Moves(t)
    BY <1>6, AddedIsPlain, DoMoves DEF Share, Marked
  <2>2. KeysKept
    BY <1>6 DEF Share, KeysKept, Memories, Blank, keyVars, keyFiles
  <2> QED
    BY <2>1, <2>2
<1>7. CASE CountEnd(t)
  <2>1. Moves(t)
    BY <1>7, AddedIsPlain, DoMoves DEF CountEnd, Marked
  <2>2. KeysKept
    BY <1>7 DEF CountEnd, KeysKept, Memories, Blank, keyVars, keyFiles
  <2> QED
    BY <2>1, <2>2
<1> QED
  BY <1>1, <1>2, <1>3, <1>4, <1>5, <1>6, <1>7 DEF ManifestStep

\* The steps on the root key and the app key.
LEMMA KeysAreQuiet ==
    ASSUME Memories, faults \in Nat, NEW t \in Terminals, KeyStep(t)
    PROVE  Moves(t) /\ KeysKept
<1>1. CASE RootFound(t)
  <2>1. Moves(t)
    BY <1>1, AddedIsPlain, DoMoves DEF RootFound, Marked, AllButKeys
  <2>2. KeysKept
    BY <1>1 DEF RootFound, KeysKept, Memories, Blank, keyVars, keyFiles, AllButKeys
  <2> QED
    BY <2>1, <2>2
<1>2. CASE RootMissing(t)
  <2>1. Moves(t)
    BY <1>2, AddedIsPlain, DoMoves DEF RootMissing, Marked, AllButKeys
  <2>2. KeysKept
    BY <1>2 DEF RootMissing, KeysKept, Memories, Blank, keyVars, keyFiles, AllButKeys
  <2> QED
    BY <2>1, <2>2
<1>3. CASE MakeRoot(t)
  <2>1. Moves(t)
    BY <1>3, AddedIsPlain, DoMoves DEF MakeRoot, Marked, AllButKeys
  <2>2. KeysKept
    BY <1>3 DEF MakeRoot, KeysKept, Memories, Blank, keyVars, keyFiles, AllButKeys
  <2> QED
    BY <2>1, <2>2
<1>4. CASE ConfirmRoot(t)
  <2>1. Moves(t)
    BY <1>4, AddedIsPlain, DoMoves, QuitMoves DEF ConfirmRoot, Marked
  <2>2. KeysKept
    BY <1>4 DEF ConfirmRoot, KeysKept, Memories, Blank, keyVars, keyFiles
  <2> QED
    BY <2>1, <2>2
<1>5. CASE Unlock(t)
  <2>1. Moves(t)
    BY <1>5, AddedIsPlain, DoMoves, QuitMoves DEF Unlock, Marked, AllButKeys
  <2>2. KeysKept
    BY <1>5 DEF Unlock, KeysKept, Memories, Blank, keyVars, keyFiles, AllButKeys
  <2> QED
    BY <2>1, <2>2
<1>6. CASE UnlockMisses(t)
  <2>1. Moves(t)
    BY <1>6, AddedIsPlain, DoMoves DEF UnlockMisses, Marked, AllButKeys
  <2>2. KeysKept
    BY <1>6 DEF UnlockMisses, KeysKept, Memories, Blank, keyVars, keyFiles, AllButKeys
  <2> QED
    BY <2>1, <2>2
<1>7. CASE Wrap(t)
  <2>1. Moves(t)
    BY <1>7, AddedIsPlain, DoMoves DEF Wrap, Marked, AllButKeys
  <2>2. KeysKept
    BY <1>7 DEF Wrap, KeysKept, Memories, Blank, keyVars, keyFiles, AllButKeys
  <2> QED
    BY <2>1, <2>2
<1> QED
  BY <1>1, <1>2, <1>3, <1>4, <1>5, <1>6, <1>7 DEF KeyStep

\* The steps on the secrets.
LEMMA SecretsAreQuiet ==
    ASSUME Memories, faults \in Nat, NEW t \in Terminals, SecretStep(t)
    PROVE  Moves(t) /\ KeysKept
<1>1. CASE ReadSecrets(t)
  <2>1. Moves(t)
    BY <1>1, AddedIsPlain, DoMoves DEF ReadSecrets, Marked, AllButSecrets
  <2>2. KeysKept
    BY <1>1 DEF ReadSecrets, KeysKept, Memories, Blank, keyVars, keyFiles, AllButSecrets
  <2> QED
    BY <2>1, <2>2
<1>2. CASE WriteSecret(t)
  <2>1. Moves(t)
    BY <1>2, AddedIsPlain, DoMoves DEF WriteSecret, Marked, AllButSecrets
  <2>2. KeysKept
    BY <1>2 DEF WriteSecret, KeysKept, Memories, Blank, keyVars, keyFiles, AllButSecrets
  <2> QED
    BY <2>1, <2>2
<1>3. CASE DropSecret(t)
  <2>1. Moves(t)
    BY <1>3, AddedIsPlain, DoMoves DEF DropSecret, Marked, AllButSecrets
  <2>2. KeysKept
    BY <1>3 DEF DropSecret, KeysKept, Memories, Blank, keyVars, keyFiles, AllButSecrets
  <2> QED
    BY <2>1, <2>2
<1>4. CASE ReadSecret(t)
  <2>1. Moves(t)
    BY <1>4, AddedIsPlain, DoMoves, QuitMoves DEF ReadSecret, Marked, AllButSecrets
  <2>2. KeysKept
    BY <1>4 DEF ReadSecret, KeysKept, Memories, Blank, keyVars, keyFiles, AllButSecrets
  <2> QED
    BY <2>1, <2>2
<1>5. CASE Decrypt(t)
  <2>1. Moves(t)
    BY <1>5, AddedIsPlain, DoMoves, QuitMoves DEF Decrypt, Marked
  <2>2. KeysKept
    BY <1>5 DEF Decrypt, KeysKept, Memories, Blank, keyVars, keyFiles
  <2> QED
    BY <2>1, <2>2
<1> QED
  BY <1>1, <1>2, <1>3, <1>4, <1>5 DEF SecretStep

\* The steps on recovery keys other than the two that are marked, and the move.
LEMMA RecoveryIsQuiet ==
    ASSUME Memories, faults \in Nat, NEW t \in Terminals,
           CheckRecovery(t) \/ OpenRecovery(t) \/ MoveAway(t)
    PROVE  Moves(t) /\ KeysKept
<1>1. CASE CheckRecovery(t)
  <2>1. Moves(t)
    BY <1>1, AddedIsPlain, DoMoves, QuitMoves DEF CheckRecovery, Marked
  <2>2. KeysKept
    BY <1>1 DEF CheckRecovery, KeysKept, Memories, Blank, keyVars, keyFiles
  <2> QED
    BY <2>1, <2>2
<1>2. CASE OpenRecovery(t)
  <2>1. Moves(t)
    BY <1>2, AddedIsPlain, DoMoves, QuitMoves DEF OpenRecovery, Marked, AllButRecovery
  <2>2. KeysKept
    BY <1>2 DEF OpenRecovery, KeysKept, Memories, Blank, keyVars, keyFiles, AllButRecovery
  <2> QED
    BY <2>1, <2>2
<1>3. CASE MoveAway(t)
  <2>1. Moves(t)
    BY <1>3, AddedIsPlain, DoMoves DEF MoveAway, Marked
  <2>2. KeysKept
    BY <1>3 DEF MoveAway, KeysKept, Memories, Blank, keyVars, keyFiles
  <2> QED
    BY <2>1, <2>2
<1> QED
  BY <1>1, <1>2, <1>3

\* The steps on services, ports and login entries.
LEMMA ProjectsAreQuiet ==
    ASSUME faults \in Nat, NEW t \in Terminals,
           ProjectsStep(t)
    PROVE  Moves(t)
<1>1. CASE DetectGiven(t)
  BY <1>1, AddedIsPlain, DoMoves DEF DetectGiven, Marked
<1>2. CASE DetectExisting(t)
  BY <1>2, AddedIsPlain, DoMoves DEF DetectExisting, Marked
<1>3. CASE DetectNew(t)
  BY <1>3, AddedIsPlain, DoMoves DEF DetectNew, Marked
<1>4. CASE Running(t)
  BY <1>4, AddedIsPlain, DoMoves DEF Running, Marked
<1>5. CASE Reserve(t)
  BY <1>5, AddedIsPlain, DoMoves DEF Reserve, Marked
<1>6. CASE Probe(t)
  BY <1>6, AddedIsPlain, DoMoves, QuitMoves DEF Probe, Marked
<1>7. CASE Open(t)
  BY <1>7, AddedIsPlain, DoMoves, QuitMoves DEF Open, Marked
<1>8. CASE Configure(t)
  BY <1>8, AddedIsPlain, DoMoves DEF Configure, Marked
<1>9. CASE Start(t)
  BY <1>9, AddedIsPlain, DoMoves, QuitMoves DEF Start, Marked
<1>10. CASE StartTimesOut(t)
  BY <1>10, AddedIsPlain, FailsMoves DEF StartTimesOut, Marked
<1>11. CASE StopService(t)
  BY <1>11, AddedIsPlain, DoMoves DEF StopService, Marked
<1>12. CASE ReadEntry(t)
  BY <1>12, AddedIsPlain, DoMoves, QuitMoves DEF ReadEntry, Marked
<1>13. CASE ReadRegistry(t)
  BY <1>13, AddedIsPlain, DoMoves DEF ReadRegistry, Marked
<1>14. CASE SaveRegistry(t)
  BY <1>14, AddedIsPlain, DoMoves DEF SaveRegistry, Marked
<1>15. CASE ReadSpec(t)
  BY <1>15, AddedIsPlain, DoMoves, QuitMoves DEF ReadSpec, Marked
<1>16. CASE WriteUnit(t)
  BY <1>16, AddedIsPlain, DoMoves DEF WriteUnit, Marked
<1>17. CASE RemoveUnit(t)
  BY <1>17, AddedIsPlain, DoMoves DEF RemoveUnit, Marked
<1>18. CASE MarkSpec(t)
  BY <1>18, AddedIsPlain, DoMoves DEF MarkSpec, Marked
<1>19. CASE ClearSpec(t)
  BY <1>19, AddedIsPlain, DoMoves DEF ClearSpec, Marked
<1> QED
  BY <1>1, <1>2, <1>3, <1>4, <1>5, <1>6, <1>7, <1>8, <1>9, <1>10, <1>11, <1>12, <1>13, <1>14, <1>15, <1>16, <1>17, <1>18, <1>19 DEF ProjectsStep

\* What the snapshot commands remember keeps its shape, and the snapshots are kept.
SnapshotsKept ==
    /\ UNCHANGED <<archives, listed>>
    /\ DOMAIN sm' = Terminals
    /\ \A u \in Terminals : DOMAIN sm'[u] = DOMAIN NoWork /\ sm'[u].index = sm[u].index

\* The snapshot steps that are neither marked nor read the index.
Idle(t) ==
    \/ List(t) \/ Pack(t) \/ Packed(t) \/ Find(t) \/ Halt(t) \/ Unpack(t) \/ Unpacked(t)
    \/ Truncate(t) \/ UnpackFails(t) \/ Revive(t) \/ Report(t) \/ EditFile(t)
    \/ At(t, "wasRunning") /\ WasRunning(t, svc[In(t)] # None)

\* The other steps on snapshots.
LEMMA SnapshotsAreQuiet ==
    ASSUME Memories, faults \in Nat, NEW t \in Terminals,
           Idle(t)
    PROVE  Moves(t) /\ SnapshotsKept
<1>1. CASE List(t)
  <2>1. Moves(t)
    BY <1>1, AddedIsPlain, DoMoves, QuitMoves DEF List, Marked, Keep, Work
  <2>2. SnapshotsKept
    BY <1>1 DEF List, SnapshotsKept, Memories, NoWork, snapshotVars, snapshotFiles, Keep, Work
  <2> QED
    BY <2>1, <2>2
<1>2. CASE Pack(t)
  <2>1. Moves(t)
    BY <1>2, AddedIsPlain, DoMoves, QuitMoves DEF Pack, Marked, Keep, Work
  <2>2. SnapshotsKept
    <3>1. UNCHANGED <<archives, listed>>
      BY <1>2 DEF Pack, snapshotFiles
    <3>2. \/ sm' = sm
          \/ \E files, zip : sm' = [sm EXCEPT ![t] = [sm[t] EXCEPT !.todo = files, !.zip = zip]]
      BY <1>2 DEF Pack, Keep, Work
    <3>3. DOMAIN sm' = Terminals
          /\ \A u \in Terminals : DOMAIN sm'[u] = DOMAIN sm[u] /\ sm'[u].index = sm[u].index
      <4>1. CASE sm' = sm
        BY <4>1 DEF Memories
      <4>2. CASE sm' # sm
        <5>1. PICK files, zip : sm' = [sm EXCEPT ![t] = [sm[t] EXCEPT !.todo = files, !.zip = zip]]
          BY <3>2, <4>2
        <5> QED
          BY <5>1 DEF Memories, NoWork
      <4> QED
        BY <4>1, <4>2
    <3> QED
      BY <3>1, <3>3 DEF SnapshotsKept, Memories
  <2> QED
    BY <2>1, <2>2
<1>3. CASE Packed(t)
  <2>1. Moves(t)
    BY <1>3, AddedIsPlain, DoMoves DEF Packed, Marked
  <2>2. SnapshotsKept
    BY <1>3 DEF Packed, SnapshotsKept, Memories, NoWork, snapshotVars, snapshotFiles
  <2> QED
    BY <2>1, <2>2
<1>4. CASE Find(t)
  <2>1. Moves(t)
    BY <1>4, AddedIsPlain, DoMoves, QuitMoves DEF Find, Marked, Keep, Work
  <2>2. SnapshotsKept
    BY <1>4 DEF Find, SnapshotsKept, Memories, NoWork, snapshotVars, snapshotFiles, Keep, Work
  <2> QED
    BY <2>1, <2>2
<1>5. CASE Halt(t)
  <2>1. Moves(t)
    BY <1>5, AddedIsPlain, DoMoves DEF Halt, Marked
  <2>2. SnapshotsKept
    BY <1>5 DEF Halt, SnapshotsKept, Memories, NoWork, snapshotVars, snapshotFiles
  <2> QED
    BY <2>1, <2>2
<1>6. CASE Unpack(t)
  <2>1. Moves(t)
    BY <1>6, AddedIsPlain, DoMoves DEF Unpack, Marked, Keep, Work
  <2>2. SnapshotsKept
    BY <1>6 DEF Unpack, SnapshotsKept, Memories, NoWork, snapshotVars, snapshotFiles, Keep, Work
  <2> QED
    BY <2>1, <2>2
<1>7. CASE Unpacked(t)
  <2>1. Moves(t)
    BY <1>7, AddedIsPlain, DoMoves DEF Unpacked, Marked
  <2>2. SnapshotsKept
    BY <1>7 DEF Unpacked, SnapshotsKept, Memories, NoWork, snapshotVars, snapshotFiles
  <2> QED
    BY <2>1, <2>2
<1>8. CASE UnpackFails(t)
  <2>1. Moves(t)
    BY <1>8, AddedIsPlain, FailsMoves DEF UnpackFails, Marked
  <2>2. SnapshotsKept
    BY <1>8 DEF UnpackFails, SnapshotsKept, Memories, NoWork, snapshotVars, snapshotFiles
  <2> QED
    BY <2>1, <2>2
<1>9. CASE Revive(t)
  <2>1. Moves(t)
    BY <1>9, AddedIsPlain, DoMoves DEF Revive, Marked
  <2>2. SnapshotsKept
    BY <1>9 DEF Revive, SnapshotsKept, Memories, NoWork, snapshotVars, snapshotFiles
  <2> QED
    BY <2>1, <2>2
<1>10. CASE Report(t)
  <2>1. Moves(t)
    BY <1>10, AddedIsPlain, DoMoves DEF Report, Marked
  <2>2. SnapshotsKept
    BY <1>10 DEF Report, SnapshotsKept, Memories, NoWork, snapshotVars, snapshotFiles
  <2> QED
    BY <2>1, <2>2
<1>11. CASE EditFile(t)
  <2>1. Moves(t)
    BY <1>11, AddedIsPlain, DoMoves DEF EditFile, Marked
  <2>2. SnapshotsKept
    BY <1>11 DEF EditFile, SnapshotsKept, Memories, NoWork, snapshotVars, snapshotFiles
  <2> QED
    BY <2>1, <2>2
<1>12. CASE WasRunning(t, svc[In(t)] # None)
  <2>1. Moves(t)
    BY <1>12, AddedIsPlain, DoMoves DEF WasRunning, Marked, Keep, Work
  <2>2. SnapshotsKept
    BY <1>12 DEF WasRunning, SnapshotsKept, Memories, NoWork, snapshotVars, snapshotFiles, Keep, Work
  <2> QED
    BY <2>1, <2>2
<1>13. CASE Truncate(t)
  <2>1. Moves(t)
    BY <1>13, AddedIsPlain, DoMoves DEF Truncate, Marked
  <2>2. SnapshotsKept
    BY <1>13 DEF Truncate, SnapshotsKept, Memories, NoWork
  <2> QED
    BY <2>1, <2>2
<1> QED
  BY <1>1, <1>2, <1>3, <1>4, <1>5, <1>6, <1>7, <1>8, <1>9, <1>10, <1>11, <1>12, <1>13
  DEF Idle

-----------------------------------------------------------------------------
(* What the steps do to the invariant *)

\* A quiet step keeps the invariant.
LEMMA QuietKeeps ==
    ASSUME WInv, NEW t \in Terminals, Quiet(t)
    PROVE  WInv'
<1> USE DEF WInv
<1>1. PICK m : /\ Plain(m)
               /\ \/ /\ Head(agenda[t]) \notin Marked
                     /\ agenda' = [agenda EXCEPT ![t] = m \o Tail(@)]
                  \/ /\ Head(agenda[t]) \notin Marked \/ faults' > 0
                     /\ agenda' = [agenda EXCEPT ![t] = m]
  BY DEF Quiet, Moves
<1>2. /\ Busy(t) /\ script' = script /\ cmd' = cmd /\ count' = count
      /\ archives' = archives /\ listed' = listed /\ recovery' = recovery /\ printed' = printed
      /\ faults' \in Nat /\ faults' >= faults /\ Memories'
      /\ \A u \in Terminals : km'[u].lock = km[u].lock /\ sm'[u].index = sm[u].index
  BY DEF Quiet, Moves, Keeps
<1>3. DOMAIN agenda' = Terminals /\ \A u \in Terminals : u # t => agenda'[u] = agenda[u]
  BY <1>1 DEF Shapes
<1>4. Shapes'
  BY <1>2, <1>3 DEF Shapes, Busy
<1>5. \A u \in Terminals : In(u)' = In(u) /\ (Stored(u)' <=> Stored(u))
  BY <1>2 DEF In, Stored, Fresh
<1>6. IdsAreOld' /\ IndexesAreStored'
  <2>1. \A u \in Terminals : Busy(u)' => Busy(u)
    BY <1>2, <1>3 DEF Busy
  <2> QED
    BY <1>2, <1>5, <2>1 DEF IdsAreOld, IndexesAreStored, Ids
<1>7. AgendasInOrder'
  <2>1. InOrder(agenda'[t], Stored(t))
    <3>1. CASE agenda' = [agenda EXCEPT ![t] = m]
      <4>1. agenda'[t] = m /\ Stored(t) \in BOOLEAN
        BY <3>1 DEF Shapes, Stored
      <4> QED
        BY <1>1, <4>1, PlainInOrder
    <3>2. CASE Head(agenda[t]) \notin Marked /\ agenda' = [agenda EXCEPT ![t] = m \o Tail(@)]
      <4>1. agenda'[t] = m \o Tail(agenda[t]) /\ Stored(t) \in BOOLEAN
        BY <3>2 DEF Shapes, Stored
      <4>2. InOrder(agenda[t], Stored(t)) /\ agenda[t] # <<>>
        BY <1>2 DEF AgendasInOrder, Busy
      <4>3. InOrder(Tail(agenda[t]), Stored(t) \/ Head(agenda[t]) = "store")
        BY <4>1, <4>2, RestInOrder
      <4>4. (Stored(t) \/ Head(agenda[t]) = "store") = Stored(t)
        BY <3>2, <4>1 DEF Marked
      <4>5. InOrder(Tail(agenda[t]), Stored(t))
        BY <4>3, <4>4
      <4> QED
        BY <1>1, <4>1, <4>5, PlainInFront
    <3> QED
      BY <1>1, <3>1, <3>2
  <2>2. ASSUME NEW u \in Terminals
        PROVE  InOrder(agenda'[u], Stored(u)')
    <3>1. InOrder(agenda'[u], Stored(u))
      BY <1>3, <2>1 DEF AgendasInOrder
    <3>2. Stored(u)' = Stored(u)
      BY <1>5 DEF Stored
    <3> QED
      BY <3>1, <3>2
  <2> QED
    BY <2>2 DEF AgendasInOrder
<1>8. AllHeld'
  <2>1. ASSUME NEW p \in Projects, recovery'[p] # None
        PROVE  Held(p)'
    <3>1. Held(p) /\ faults \in Nat
      BY <1>2, <2>1 DEF AllHeld, Shapes
    <3>2. CASE faults' > 0
      BY <3>2 DEF Held
    <3>3. CASE ~(faults' > 0)
      <4>1. Head(agenda[t]) \notin Marked \/ faults' > 0
        BY <1>1
      <4>2. ~At(t, "printRecovery")
        BY <3>3, <4>1 DEF At, Marked
      <4>3. \A u \in Terminals : At(u, "printRecovery") => At(u, "printRecovery")'
        BY <1>3, <4>2 DEF At, Busy
      <4>4. ~(faults > 0)
        BY <1>2, <3>1, <3>3
      <4> QED
        BY <1>2, <1>5, <3>1, <4>3, <4>4 DEF Held
    <3> QED
      BY <3>2, <3>3
  <2> QED
    BY <2>1 DEF AllHeld
<1> QED
  BY <1>2, <1>4, <1>6, <1>7, <1>8

\* What is left of the agenda when its first step is done.
LEMMA DoneInOrder ==
    ASSUME WInv, NEW t \in Terminals, NEW step, Do(t, step, <<>>)
    PROVE  /\ At(t, step) /\ In(t) \in Projects
           /\ agenda' = [agenda EXCEPT ![t] = Tail(agenda[t])]
           /\ script' = script /\ cmd' = cmd /\ count' = count /\ faults' = faults
           /\ InOrder(agenda'[t], Stored(t) \/ step = "store")
           /\ \A u \in Terminals : Busy(u)' => cmd'[u] \in Commands
<1>1. /\ At(t, step) /\ Busy(t) /\ Head(agenda[t]) = step
      /\ script' = script /\ cmd' = cmd /\ count' = count /\ faults' = faults
      /\ agenda' = [agenda EXCEPT ![t] = <<>> \o Tail(agenda[t])]
  BY DEF Do, At
<1>2. InOrder(agenda[t], Stored(t)) /\ agenda[t] # <<>> /\ Stored(t) \in BOOLEAN
  BY <1>1 DEF WInv, AgendasInOrder, Busy, Stored
<1>3. InOrder(Tail(agenda[t]), Stored(t) \/ step = "store")
  BY <1>1, <1>2, RestInOrder
<1>4. <<>> \o Tail(agenda[t]) = Tail(agenda[t])
  BY <1>3 DEF InOrder
<1>5. agenda' = [agenda EXCEPT ![t] = Tail(agenda[t])]
  BY <1>1, <1>4
<1>6. agenda'[t] = Tail(agenda[t]) /\ \A u \in Terminals : u # t => agenda'[u] = agenda[u]
  BY <1>5 DEF WInv, Shapes
<1>7. \A u \in Terminals : Busy(u)' => cmd'[u] \in Commands
  BY <1>1, <1>6 DEF WInv, Shapes, Busy
<1>8. In(t) \in Projects
  BY <1>1, ScriptsAreCommands DEF WInv, Shapes, In
<1> QED
  BY <1>1, <1>3, <1>5, <1>6, <1>7, <1>8

\* A marked step that stores nothing leaves the agendas in order.
LEMMA OthersInOrder ==
    ASSUME WInv, NEW t \in Terminals, NEW step, step # "store", Do(t, step, <<>>),
           archives' = archives
    PROVE  AgendasInOrder'
<1>1. /\ agenda' = [agenda EXCEPT ![t] = Tail(agenda[t])] /\ cmd' = cmd /\ count' = count
      /\ InOrder(agenda'[t], Stored(t) \/ step = "store")
  BY DoneInOrder
<1>2. ASSUME NEW u \in Terminals
      PROVE  InOrder(agenda'[u], Stored(u)')
  <2>1. Stored(u)' = Stored(u)
    BY <1>1 DEF Stored, In, Fresh
  <2>2. CASE u = t
    <3>1. (Stored(u) \/ step = "store") = Stored(u)
      BY DEF Stored
    <3> QED
      BY <1>1, <2>1, <2>2, <3>1
  <2>3. CASE u # t
    <3>1. agenda'[u] = agenda[u]
      BY <1>1, <2>3 DEF WInv, Shapes
    <3> QED
      BY <2>1, <3>1 DEF WInv, AgendasInOrder
  <2> QED
    BY <2>2, <2>3
<1> QED
  BY <1>2 DEF AgendasInOrder

\* An envelope whose key is about to be shown is so until it is shown.
LEMMA StillHeld ==
    ASSUME WInv, NEW t \in Terminals, NEW step, step # "printRecovery", Do(t, step, <<>>),
           recovery' = recovery, printed' = printed,
           \A u \in Terminals : km'[u].lock = km[u].lock
    PROVE  AllHeld'
<1>1. /\ At(t, step) /\ cmd' = cmd /\ faults' = faults
      /\ agenda' = [agenda EXCEPT ![t] = Tail(agenda[t])]
  BY DoneInOrder
<1>2. \A u \in Terminals : At(u, "printRecovery") => At(u, "printRecovery")'
  BY <1>1 DEF At, Busy, WInv, Shapes
<1> QED
  BY <1>1, <1>2 DEF WInv, AllHeld, Held, In

\* The snapshot is stored: no other has its id.
LEMMA StoreKeeps ==
    ASSUME WInv, NEW t \in Terminals, Store(t), UNCHANGED <<keyVars, projectVars>>
    PROVE  WInv'
<1> DEFINE p == In(t)
           new == [id |-> Fresh(t), files |-> Work(t).zip]
<1>1. /\ Do(t, "store", <<>>) /\ archives' = [archives EXCEPT ![p] = @ \cup {new}]
      /\ listed' = listed /\ sm' = sm
      /\ km' = km /\ recovery' = recovery /\ printed' = printed
  BY DEF Store, keyVars
<1>2. /\ At(t, "store") /\ p \in Projects
      /\ agenda' = [agenda EXCEPT ![t] = Tail(agenda[t])]
      /\ script' = script /\ cmd' = cmd /\ count' = count /\ faults' = faults
      /\ InOrder(agenda'[t], Stored(t) \/ "store" = "store")
      /\ \A u \in Terminals : Busy(u)' => cmd'[u] \in Commands
  BY <1>1, DoneInOrder
<1>3. new.id = Fresh(t) /\ archives'[p] = archives[p] \cup {new}
      /\ \A q \in Projects : q # p => archives'[q] = archives[q]
  BY <1>1, <1>2 DEF WInv, Shapes
<1> HIDE DEF new
<1>4. ~Stored(t)
  <2>1. InOrder(agenda[t], Stored(t)) /\ agenda[t] # <<>> /\ Head(agenda[t]) = "store"
    BY <1>2 DEF WInv, AgendasInOrder, At, Busy
  <2>2. 1 \in 1..Len(agenda[t]) /\ agenda[t][1] = "store"
    BY <2>1 DEF InOrder
  <2> QED
    BY <2>1, <2>2 DEF InOrder
<1>5. \A a \in archives[p] : a.id # new.id
  BY <1>3, <1>4 DEF Stored
<1>6. Shapes' /\ Memories'
  BY <1>1, <1>2 DEF WInv, Shapes, Memories
<1>7. IdsAreOld'
  <2>1. \E u \in Terminals : \E n \in 0..count[u] : new.id = <<u, n>>
    BY <1>3 DEF Fresh, WInv, Shapes
  <2>2. ASSUME NEW q \in Projects, NEW a \in archives'[q]
        PROVE  /\ \E u \in Terminals : \E n \in 0..count[u] : a.id = <<u, n>>
               /\ \A b \in archives'[q] : a.id = b.id => a = b
    BY <1>3, <1>5, <2>1, <2>2 DEF WInv, IdsAreOld
  <2> QED
    BY <1>2, <2>2 DEF IdsAreOld
<1>8. AgendasInOrder'
  <2>1. ASSUME NEW u \in Terminals, u # t
        PROVE  InOrder(agenda'[u], Stored(u)')
    <3>1. agenda'[u] = agenda[u]
      BY <1>2, <2>1 DEF WInv, Shapes
    <3>2. CASE agenda[u] = <<>>
      BY <3>1, <3>2 DEF InOrder
    <3>3. CASE agenda[u] # <<>>
      <4>1. In(u) \in Projects
        BY <3>3, ScriptsAreCommands DEF WInv, Shapes, In, Busy
      <4>2. Fresh(u) # new.id
        BY <1>3, <2>1 DEF Fresh
      <4>3. Stored(u)' = Stored(u)
        <5>1. In(u)' = In(u) /\ Fresh(u)' = Fresh(u)
          BY <1>2 DEF In, Fresh
        <5> QED
          BY <1>3, <4>1, <4>2, <5>1 DEF Stored
      <4> QED
        BY <3>1, <4>3 DEF WInv, AgendasInOrder
    <3> QED
      BY <3>2, <3>3
  <2>2. InOrder(agenda'[t], Stored(t)')
    <3>1. Stored(t)'
      BY <1>2, <1>3 DEF Stored, In, Fresh
    <3>2. Stored(t)' = TRUE /\ (Stored(t) \/ "store" = "store") = TRUE
      BY <3>1 DEF Stored
    <3> QED
      BY <1>2, <3>2
  <2> QED
    BY <2>1, <2>2 DEF AgendasInOrder
<1>9. IndexesAreStored'
  <2>1. \A q \in Projects : Ids(q) \subseteq Ids(q)'
    BY <1>3 DEF Ids
  <2>2. \A u \in Terminals : In(u)' = In(u) /\ (Busy(u)' => Busy(u))
    BY <1>2 DEF In, Busy, At, WInv, Shapes
  <2>3. ASSUME NEW u \in Terminals, Busy(u)'
        PROVE  sm'[u].index \subseteq Ids(In(u))'
    <3>1. Busy(u) /\ sm'[u].index \subseteq Ids(In(u)) /\ In(u)' = In(u)
      BY <1>1, <2>2, <2>3 DEF WInv, IndexesAreStored
    <3>2. In(u) \in Projects
      BY <3>1, ScriptsAreCommands DEF WInv, Shapes, In
    <3> QED
      BY <2>1, <3>1, <3>2
  <2> QED
    BY <1>1, <2>1, <2>3 DEF WInv, IndexesAreStored
<1>10. AllHeld'
  BY <1>1, StillHeld DEF WInv
<1> QED
  BY <1>6, <1>7, <1>8, <1>9, <1>10 DEF WInv

\* The index is read and written: what is added is stored, or will have been.
LEMMA IndexKeeps ==
    ASSUME WInv, NEW t \in Terminals, ReadIndex(t) \/ SaveIndex(t),
           UNCHANGED <<keyVars, projectVars>>
    PROVE  WInv'
<1>1. archives' = archives /\ km' = km /\ recovery' = recovery /\ printed' = printed
  BY DEF ReadIndex, SaveIndex, snapshotFiles, keyVars
<1>2. PICK step \in {"readIndex", "saveIndex"} : Do(t, step, <<>>)
  BY DEF ReadIndex, SaveIndex
<1>3. /\ At(t, step) /\ In(t) \in Projects
      /\ agenda' = [agenda EXCEPT ![t] = Tail(agenda[t])]
      /\ script' = script /\ cmd' = cmd /\ count' = count /\ faults' = faults
      /\ \A u \in Terminals : Busy(u)' => cmd'[u] \in Commands
  BY <1>2, DoneInOrder
<1>4. AgendasInOrder'
  BY <1>1, <1>2, OthersInOrder
<1>5. AllHeld'
  BY <1>1, <1>2, StillHeld
<1>6. IdsAreOld' /\ \A p \in Projects : Ids(p)' = Ids(p)
  BY <1>1, <1>3 DEF WInv, IdsAreOld, Ids
<1>7. \A u \in Terminals :
        In(u)' = In(u) /\ (Busy(u)' => Busy(u) /\ In(u) \in Projects /\ Ids(In(u))' = Ids(In(u)))
  BY <1>1, <1>3, ScriptsAreCommands DEF In, Ids, Busy, At, WInv, Shapes
<1>8. CASE ReadIndex(t)
  <2>1. listed' = listed /\ sm' = [sm EXCEPT ![t] = [sm[t] EXCEPT !.index = listed[In(t)]]]
    BY <1>8 DEF ReadIndex, Keep, Work, snapshotFiles
  <2>2. sm'[t].index = listed[In(t)] /\ Memories'
        /\ \A u \in Terminals : u # t => sm'[u].index = sm[u].index
    BY <1>1, <2>1 DEF WInv, Memories, NoWork
  <2>3. Shapes' /\ IndexesAreStored'
    BY <1>1, <1>3, <1>6, <1>7, <2>1, <2>2 DEF WInv, Shapes, IndexesAreStored
  <2> QED
    BY <1>4, <1>5, <1>6, <2>2, <2>3 DEF WInv
<1>9. CASE SaveIndex(t)
  <2>1. /\ Do(t, "saveIndex", <<>>) /\ sm' = sm
        /\ listed' = [listed EXCEPT ![In(t)] = sm[t].index \cup {Fresh(t)}]
    BY <1>9 DEF SaveIndex, Work
  <2>2. Stored(t)
    <3>1. InOrder(agenda[t], Stored(t)) /\ agenda[t] # <<>> /\ Head(agenda[t]) = "saveIndex"
      BY <2>1 DEF WInv, AgendasInOrder, Do, At, Busy
    <3>2. 1 \in 1..Len(agenda[t]) /\ agenda[t][1] = "saveIndex"
      BY <3>1 DEF InOrder
    <3>3. Stored(t) \/ \E j \in 1..(1-1) : agenda[t][j] = "store"
      BY <3>1, <3>2 DEF InOrder
    <3> QED
      BY <3>3
  <2>3. Fresh(t) \in Ids(In(t)) /\ sm[t].index \subseteq Ids(In(t))
    BY <1>3, <2>2 DEF Stored, Ids, WInv, IndexesAreStored, At
  <2>4. \A p \in Projects : listed'[p] \subseteq Ids(p)
    BY <1>3, <2>1, <2>3 DEF WInv, Shapes, IndexesAreStored
  <2>5. Shapes' /\ Memories' /\ IndexesAreStored'
    BY <1>1, <1>3, <1>6, <1>7, <2>1, <2>4 DEF WInv, Shapes, Memories, IndexesAreStored
  <2> QED
    BY <1>4, <1>5, <1>6, <2>5 DEF WInv
<1> QED
  BY <1>8, <1>9

\* An envelope is written, and its key is shown next.
LEMMA RecoveryKeeps ==
    ASSUME WInv, NEW t \in Terminals, WriteRecovery(t) \/ PrintRecovery(t),
           UNCHANGED <<projectVars, snapshotVars>>
    PROVE  WInv'
<1>1. archives' = archives /\ listed' = listed /\ sm' = sm
  BY DEF snapshotVars
<1>2. PICK step \in {"writeRecovery", "printRecovery"} : Do(t, step, <<>>)
  BY DEF WriteRecovery, PrintRecovery
<1>3. /\ At(t, step) /\ In(t) \in Projects
      /\ agenda' = [agenda EXCEPT ![t] = Tail(agenda[t])]
      /\ script' = script /\ cmd' = cmd /\ count' = count /\ faults' = faults
      /\ \A u \in Terminals : Busy(u)' => cmd'[u] \in Commands
  BY <1>2, DoneInOrder
<1>4. AgendasInOrder'
  BY <1>1, <1>2, OthersInOrder
<1>5. IdsAreOld' /\ IndexesAreStored'
  <2>1. \A u \in Terminals : In(u)' = In(u) /\ (Busy(u)' => Busy(u))
    BY <1>3 DEF In, Busy, At, WInv, Shapes
  <2> QED
    BY <1>1, <1>3, <2>1 DEF WInv, IdsAreOld, IndexesAreStored, Ids
<1>6. CASE WriteRecovery(t)
  <2>1. /\ Do(t, "writeRecovery", <<>>) /\ printed' = printed
        /\ km' = [km EXCEPT ![t].lock = Fresh(t)]
    BY <1>6 DEF WriteRecovery
  <2>2. recovery' = [recovery EXCEPT ![In(t)] =
                        [app |-> km[t].app, lock |-> Fresh(t), key |-> km[t].key]]
    BY <1>6 DEF WriteRecovery
  <2>3. /\ recovery'[In(t)].lock = Fresh(t)
        /\ \A p \in Projects : p # In(t) => recovery'[p] = recovery[p]
    BY <1>3, <2>2 DEF WInv, Shapes
  <2>4. /\ km'[t].lock = Fresh(t) /\ Memories'
        /\ \A u \in Terminals : u # t => km'[u].lock = km[u].lock
    BY <1>1, <2>1 DEF WInv, Memories, Blank
  <2>5. Shapes'
    BY <1>1, <1>3, <2>2 DEF WInv, Shapes
  <2>6. At(t, "printRecovery")'
    <3>1. /\ agenda[t] \in Seq(Steps) /\ agenda[t] # <<>> /\ Head(agenda[t]) = "writeRecovery"
          /\ InOrder(agenda[t], Stored(t))
      BY <2>1 DEF WInv, AgendasInOrder, InOrder, Do, At, Busy
    <3>2. 1 \in 1..Len(agenda[t]) /\ agenda[t][1] = "writeRecovery"
      BY <3>1
    <3>3. 1 + 1 \in 1..Len(agenda[t]) /\ agenda[t][1 + 1] = "printRecovery"
      BY <3>1, <3>2 DEF InOrder
    <3>4. Tail(agenda[t]) # <<>> /\ Head(Tail(agenda[t])) = "printRecovery"
      <4> DEFINE s == agenda[t]
                 r == Tail(s)
      <4>1. s \in Seq(Steps) /\ s # <<>> /\ Len(s) \in Nat /\ 2 \in 1..Len(s) /\ s[2] = "printRecovery"
        BY <3>1, <3>3
      <4> HIDE DEF s
      <4>2. r \in Seq(Steps) /\ Len(r) = Len(s) - 1 /\ \A i \in 1..Len(r) : r[i] = s[i+1]
        BY <4>1
      <4> HIDE DEF r
      <4>3. 1 \in 1..Len(r) /\ r[1] = "printRecovery"
        BY <4>1, <4>2
      <4>4. r # <<>> /\ Head(r) = r[1]
        BY <4>2, <4>3
      <4> QED
        BY <4>3, <4>4 DEF r, s
    <3>5. agenda'[t] = Tail(agenda[t])
      BY <1>3 DEF WInv, Shapes
    <3> QED
      BY <3>4, <3>5 DEF At, Busy
  <2>7. \A u \in Terminals : u # t /\ At(u, "printRecovery") => At(u, "printRecovery")'
    BY <1>3 DEF At, Busy, WInv, Shapes
  <2>8. ~At(t, "printRecovery")
    BY <2>1 DEF Do, At
  <2>9. ASSUME NEW p \in Projects, recovery'[p] # None
        PROVE  Held(p)'
    <3>1. CASE p = In(t)
      BY <1>3, <2>3, <2>4, <2>6, <3>1 DEF Held, In
    <3>2. CASE p # In(t)
      <4>1. recovery'[p] = recovery[p] /\ Held(p)
        BY <2>3, <2>9, <3>2 DEF WInv, AllHeld
      <4> QED
        BY <1>3, <2>1, <2>4, <2>7, <2>8, <4>1 DEF Held, In
    <3> QED
      BY <3>1, <3>2
  <2> QED
    BY <1>4, <1>5, <2>4, <2>5, <2>9 DEF WInv, AllHeld
<1>7. CASE PrintRecovery(t)
  <2>1. /\ Do(t, "printRecovery", <<>>) /\ km' = km /\ recovery' = recovery
        /\ printed' = printed \cup {[in |-> In(t), lock |-> km[t].lock]}
    BY <1>7 DEF PrintRecovery
  <2>2. Shapes' /\ Memories'
    BY <1>1, <1>3, <2>1 DEF WInv, Shapes, Memories
  <2>3. \A u \in Terminals : u # t /\ At(u, "printRecovery") => At(u, "printRecovery")'
    BY <1>3 DEF At, Busy, WInv, Shapes
  <2>4. ASSUME NEW p \in Projects, recovery'[p] # None
        PROVE  Held(p)'
    <3>1. Held(p)
      BY <2>1, <2>4 DEF WInv, AllHeld
    <3>2. CASE In(t) = p /\ km[t].lock = recovery[p].lock
      BY <2>1, <3>2 DEF Held
    <3>3. CASE ~(In(t) = p /\ km[t].lock = recovery[p].lock)
      BY <1>3, <2>1, <2>3, <3>1, <3>3 DEF Held, In
    <3> QED
      BY <3>2, <3>3
  <2> QED
    BY <1>4, <1>5, <2>2, <2>4 DEF WInv, AllHeld
<1> QED
  BY <1>6, <1>7

\* A command begins: it has stored nothing yet.
LEMMA BeginKeeps ==
    ASSUME WInv, NEW t \in Terminals, Begin(t)
    PROVE  WInv'
<1> DEFINE c == Head(script[t])
<1>1. /\ ~Busy(t) /\ script[t] # <<>>
      /\ script' = [script EXCEPT ![t] = Tail(script[t])]
      /\ cmd' = [cmd EXCEPT ![t] = c]
      /\ agenda' = [agenda EXCEPT ![t] = Program[c.op]]
      /\ count' = [count EXCEPT ![t] = count[t] + 1]
      /\ faults' = faults
  BY DEF Begin, Type
<1>2. /\ km' = [km EXCEPT ![t] = Blank] /\ recovery' = recovery /\ printed' = printed
      /\ sm' = [sm EXCEPT ![t] = NoWork] /\ archives' = archives /\ listed' = listed
  BY DEF Begin, KeysBegin, SnapshotsBegin, Keep, snapshotFiles
<1>3. c \in Commands /\ Tail(script[t]) \in Seq(Commands)
  BY <1>1 DEF WInv, Shapes
<1> HIDE DEF c
<1>4. InOrder(Program[c.op], FALSE)
  BY <1>3, CommandsAreKnown, ProgramsAreInOrder
<1>5. /\ cmd'[t] = c /\ agenda'[t] = Program[c.op] /\ count'[t] = count[t] + 1
      /\ \A u \in Terminals : u # t =>
            cmd'[u] = cmd[u] /\ agenda'[u] = agenda[u] /\ count'[u] = count[u]
      /\ count[t] \in Nat
  BY <1>1 DEF WInv, Shapes
<1>6. Shapes'
  <2>1. \A u \in Terminals : Busy(u)' => cmd'[u] \in Commands
    BY <1>3, <1>5 DEF WInv, Shapes, Busy
  <2>2. count' \in [Terminals -> Nat] /\ script' \in [Terminals -> Seq(Commands)]
    BY <1>1, <1>3 DEF WInv, Shapes
  <2> QED
    BY <1>1, <1>2, <2>1, <2>2 DEF WInv, Shapes
<1>7. Memories'
  BY <1>2 DEF WInv, Memories
<1>8. IdsAreOld'
  <2>1. ASSUME NEW u \in Terminals, NEW n \in 0..count[u]
        PROVE  n \in 0..count'[u]
    <3>1. CASE u = t
      BY <1>5, <2>1, <3>1
    <3>2. CASE u # t
      BY <1>5, <2>1, <3>2
    <3> QED
      BY <3>1, <3>2
  <2> QED
    BY <1>2, <2>1 DEF WInv, IdsAreOld
<1>9. AgendasInOrder'
  <2>1. ~Stored(t)'
    <3>1. In(t)' \in Projects /\ Fresh(t)' = <<t, count[t] + 1>>
      BY <1>3, <1>5, ScriptsAreCommands DEF In, Fresh
    <3>2. ASSUME NEW a \in archives[In(t)']
          PROVE  a.id # <<t, count[t] + 1>>
      <4>1. PICK u \in Terminals : \E n \in 0..count[u] : a.id = <<u, n>>
        BY <3>1, <3>2 DEF WInv, IdsAreOld
      <4> QED
        BY <1>5, <4>1
    <3> QED
      BY <1>2, <3>1, <3>2 DEF Stored
  <2>2. InOrder(agenda'[t], Stored(t)')
    <3>1. Stored(t)' = FALSE
      BY <2>1 DEF Stored
    <3> QED
      BY <1>4, <1>5, <3>1
  <2>3. ASSUME NEW u \in Terminals, u # t
        PROVE  InOrder(agenda'[u], Stored(u)')
    <3>1. Stored(u)' = Stored(u)
      BY <1>2, <1>5, <2>3 DEF Stored, In, Fresh
    <3> QED
      BY <1>5, <2>3, <3>1 DEF WInv, AgendasInOrder
  <2> QED
    BY <2>2, <2>3 DEF AgendasInOrder
<1>10. IndexesAreStored'
  <2>1. sm'[t].index = {} /\ \A u \in Terminals : u # t => sm'[u] = sm[u]
    BY <1>2 DEF WInv, Memories, NoWork
  <2>2. \A u \in Terminals : u # t => In(u)' = In(u) /\ (Busy(u)' <=> Busy(u))
    BY <1>5 DEF In, Busy
  <2> QED
    BY <1>2, <2>1, <2>2 DEF WInv, IndexesAreStored, Ids
<1>11. AllHeld'
  <2>1. \A u \in Terminals : At(u, "printRecovery") =>
            u # t /\ At(u, "printRecovery")' /\ In(u)' = In(u) /\ km'[u] = km[u]
    BY <1>1, <1>2, <1>5 DEF At, Busy, In, WInv, Memories
  <2> QED
    BY <1>1, <1>2, <2>1 DEF WInv, AllHeld, Held
<1> QED
  BY <1>6, <1>7, <1>8, <1>9, <1>10, <1>11 DEF WInv

\* Every step of the workspace keeps the invariant.
LEMMA NextKeeps ==
    ASSUME WInv, Next
    PROVE  WInv'
<1>1. PICK t \in Terminals :
        \/ Begin(t)
        \/ Step(t)
        \/ Interrupt(t) /\ UNCHANGED <<keyVars, projectVars, snapshotVars>>
  BY DEF Next
<1>2. faults \in Nat /\ Memories
  BY DEF WInv, Shapes
<1>3. UNCHANGED keyVars => KeysKept
  BY <1>2 DEF keyVars, KeysKept, Memories
<1>4. UNCHANGED snapshotVars => SnapshotsKept
  BY <1>2 DEF snapshotVars, SnapshotsKept, Memories
<1>5. Moves(t) /\ KeysKept /\ SnapshotsKept => WInv'
  <2>1. KeysKept /\ SnapshotsKept => Keeps
    BY DEF KeysKept, SnapshotsKept, Keeps, Memories
  <2> QED
    BY <2>1, QuietKeeps DEF Quiet
<1>6. CASE Interrupt(t) /\ UNCHANGED <<keyVars, projectVars, snapshotVars>>
  <2>1. Moves(t)
    BY <1>2, <1>6, AddedIsPlain, FailsMoves DEF Interrupt
  <2> QED
    BY <1>3, <1>4, <1>5, <1>6, <2>1
<1>7. CASE KeysStep(t) /\ UNCHANGED <<projectVars, snapshotVars>>
  <2>1. CASE WriteRecovery(t) \/ PrintRecovery(t)
    BY <1>7, <2>1, RecoveryKeeps
  <2>2. CASE ~(WriteRecovery(t) \/ PrintRecovery(t))
    <3>1. Moves(t) /\ KeysKept
      BY <1>2, <1>7, <2>2, ManifestIsQuiet, KeysAreQuiet, SecretsAreQuiet, RecoveryIsQuiet
         DEF KeysStep, RecoveryStep
    <3> QED
      BY <1>4, <1>5, <1>7, <3>1
  <2> QED
    BY <2>1, <2>2
<1>8. CASE ProjectsStep(t) /\ UNCHANGED <<keyVars, snapshotVars>>
  BY <1>2, <1>3, <1>4, <1>5, <1>8, ProjectsAreQuiet
<1>9. CASE SnapshotsStep(t) /\ UNCHANGED <<keyVars, projectVars>>
  <2>1. CASE Store(t)
    BY <1>9, <2>1, StoreKeeps
  <2>2. CASE ReadIndex(t) \/ SaveIndex(t)
    BY <1>9, <2>2, IndexKeeps
  <2>3. CASE Idle(t)
    BY <1>2, <1>3, <1>5, <1>9, <2>3, SnapshotsAreQuiet
  <2> QED
    BY <1>9, <2>1, <2>2, <2>3 DEF SnapshotsStep, Idle
<1>10. CASE At(t, "wasRunning") /\ WasRunning(t, svc[In(t)] # None)
            /\ UNCHANGED <<keyVars, projectVars>>
  <2>1. Idle(t)
    BY <1>10 DEF Idle
  <2> QED
    BY <1>2, <1>3, <1>5, <1>10, <2>1, SnapshotsAreQuiet
<1>11. CASE MoveAway(t) /\ ProjectsMove /\ UNCHANGED snapshotVars
  BY <1>2, <1>4, <1>5, <1>11, RecoveryIsQuiet
<1>12. CASE Begin(t)
  BY <1>12, BeginKeeps
<1> QED
  BY <1>1, <1>6, <1>7, <1>8, <1>9, <1>10, <1>11, <1>12 DEF Step

\* A stutter changes nothing.
LEMMA StutterKeeps ==
    ASSUME WInv, UNCHANGED vars
    PROVE  WInv'
<1>1. /\ script' = script /\ cmd' = cmd /\ agenda' = agenda /\ count' = count /\ faults' = faults
      /\ km' = km /\ recovery' = recovery /\ printed' = printed
      /\ archives' = archives /\ listed' = listed /\ sm' = sm
  BY DEF vars, terminalVars, keyVars, snapshotVars
<1>2. Shapes' /\ Memories' /\ IdsAreOld'
  BY <1>1 DEF WInv, Shapes, Memories, IdsAreOld, Busy
<1>3. AgendasInOrder' /\ IndexesAreStored'
  BY <1>1 DEF WInv, AgendasInOrder, IndexesAreStored, Stored, In, Fresh, Ids, Busy
<1>4. AllHeld'
  BY <1>1 DEF WInv, AllHeld, Held, At, Busy, In
<1> QED
  BY <1>2, <1>3, <1>4 DEF WInv

\* Nothing is stored, listed or kept at first, and nobody is at work.
LEMMA InitHolds ==
    ASSUME Init
    PROVE  WInv
<1>1. \A t \in Terminals : agenda[t] = <<>> /\ ~Busy(t)
  BY DEF Init, TerminalsInit, Busy
<1>2. Shapes
  BY <1>1, ScriptsAreCommands DEF Init, TerminalsInit, KeysInit, SnapshotsInit, Shapes
<1>3. Memories
  BY DEF Init, KeysInit, SnapshotsInit, Memories
<1>4. IdsAreOld /\ IndexesAreStored /\ AllHeld
  BY <1>1 DEF Init, KeysInit, SnapshotsInit, IdsAreOld, IndexesAreStored, AllHeld
<1>5. AgendasInOrder
  <2>1. Plain(<<>>) /\ \A t \in Terminals : Stored(t) \in BOOLEAN
    BY AddedIsPlain DEF Stored
  <2> QED
    BY <1>1, <2>1, PlainInOrder DEF AgendasInOrder
<1> QED
  BY <1>2, <1>3, <1>4, <1>5 DEF WInv

\* Every behaviour keeps the invariant.
LEMMA Invariance == Spec => []WInv
<1>1. WInv /\ [Next]_vars => WInv'
  BY NextKeeps, StutterKeeps
<1> QED
  BY InitHolds, <1>1, PTL DEF Spec

-----------------------------------------------------------------------------
(* The theorems *)

\* What `snapshot list` shows can be rolled back to, and no two snapshots have one id,
\* however many commands overlap and wherever they are interrupted (snapshots.py 146-164).
THEOREM ListedSnapshotsAreStored == Spec => []ListedIsStored
<1>1. WInv => ListedIsStored
  BY DEF WInv, IdsAreOld, IndexesAreStored, Ids, ListedIsStored
<1> QED
  BY Invariance, <1>1, PTL

\* A project keeps a recovery envelope only if the user has its key, is about to see it, or
\* was interrupted before (recovery.py 62-76).
THEOREM RecoveryKeysAreHeld == Spec => []RecoveryIsHeld
<1>1. WInv => RecoveryIsHeld
  BY DEF WInv, AllHeld, Held, RecoveryIsHeld
<1> QED
  BY Invariance, <1>1, PTL
=============================================================================

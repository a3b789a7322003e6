--------------------------- MODULE WorkspaceKeys ---------------------------
(***************************************************************************)
(* Every secret opens and every recovery key that was shown recovers, for  *)
(* every number of terminals, projects and secrets, whatever is typed and  *)
(* wherever it is interrupted, as long as no two commands make the keys of *)
(* one project at once.                                                    *)
(*                                                                         *)
(* A command writes under the identity and the app key it remembers.  The  *)
(* outlines say why these are still those of the project by then: the same *)
(* command read them or made them, and no other one can replace them.      *)
(***************************************************************************)
EXTENDS WorkspaceTypes

\* The facts about the keys that a command uses: the steps that need them, those that
\* give them, and those that lose them.
Keys == [
    creating |-> [need |-> {"checkRecovery"}, give |-> {}, lose |-> {}],
    seen     |-> [need |-> {"countRun", "countEnd", "wrap", "writeSecret", "writeRecovery"},
                  give |-> {"ensure", "create"}, lose |-> {}],
    none     |-> [need |-> {"create"}, give |-> {}, lose |-> Steps],
    root     |-> [need |-> {"wrap"}, give |-> {"root", "makeRoot"}, lose |-> {"move"}],
    noroot   |-> [need |-> {"makeRoot"}, give |-> {}, lose |-> Steps],
    wrapkey  |-> [need |-> {"wrap"}, give |-> {"openRecovery"}, lose |-> {}],
    key      |-> [need |-> {"writeSecret", "writeRecovery"},
                  give |-> {"unlock", "wrap", "openRecovery"}, lose |-> {}],
    held     |-> [need |-> {"writeSecret", "dropSecret"}, give |-> {"readSecrets"},
                  lose |-> {"readSecret"}],
    free     |-> [need |-> {"writeRecovery"}, give |-> {"checkRecovery"},
                  lose |-> {"writeRecovery"}],
    lock     |-> [need |-> {"printRecovery"}, give |-> {"writeRecovery"}, lose |-> {}] ]

\* What a secret of project p is to be.
Fits(p, e) ==
    /\ manifest[p] # None /\ appKey[p] # None
    /\ e = [app |-> manifest[p].id, key |-> appKey[p].key]

\* The facts that hold of the command at terminal t and the project it works in.
KnownKeys(t) == {f \in DOMAIN Keys :
    /\ f = "creating" => cmd[t].op = "createRecovery"
    /\ f = "seen" => /\ manifest[In(t)] # None
                     /\ km[t].seen.id = manifest[In(t)].id /\ km[t].app = manifest[In(t)].id
    /\ f = "none" => manifest[In(t)] = None
    /\ f = "root" => root # None /\ km[t].root = root
    /\ f = "noroot" => root = None
    /\ f = "wrapkey" => (appKey[In(t)] # None => appKey[In(t)].key = km[t].key)
    /\ f = "key" => appKey[In(t)] # None /\ appKey[In(t)].key = km[t].key
    /\ f = "held" => \A n \in Names : km[t].held[n] # None => Fits(In(t), km[t].held[n])
    /\ f = "free" => cmd[t].op = "createRecovery" /\ recovery[In(t)] = None
    /\ f = "lock" => recovery[In(t)] # None /\ km[t].lock = recovery[In(t)].lock}

\* Every command has an outline of what it has still to do.
KeysPlanned == \A t \in Terminals : Outline(agenda[t], KnownKeys(t), {}, Keys)

\* Two commands at once find the root key, and in one project its identity and its app
\* key: only one of them could make what both use, and raced would be TRUE.
Apart ==
    \A t, u \in Terminals : t # u /\ Busy(t) /\ Busy(u) =>
        /\ root # None
        /\ In(t) = In(u) =>
            /\ manifest[In(t)] # None /\ appKey[In(t)] # None
            /\ ~(cmd[t].op = "createRecovery" /\ cmd[u].op = "createRecovery")

\* The identity a command saw first is the one the project has.
Named(t) ==
    km[t].app = None \/ (manifest[In(t)] # None /\ km[t].app = manifest[In(t)].id)

\* What is kept in project p is bound to its identity and opens under its app key.
Opening(p) ==
    /\ appKey[p] # None =>
        /\ manifest[p] # None /\ appKey[p].app = manifest[p].id
        /\ appKey[p].root \in {root} \cup retired
    /\ \A s \in Names : secrets[p][s] # None => Fits(p, secrets[p][s])
    /\ recovery[p] # None =>
        /\ manifest[p] # None /\ appKey[p] # None
        /\ recovery[p].app = manifest[p].id /\ recovery[p].key = appKey[p].key

\* The recovery keys that were shown still are those of the envelopes.
Shown == \A k \in printed : recovery[k.in] # None /\ recovery[k.in].lock = k.lock

\* The inductive invariant, as long as no two commands raced for a key.
Fitting ==
    /\ KeysPlanned /\ Apart /\ Shown
    /\ \A t \in Terminals : Busy(t) => Named(t)
    /\ \A p \in Projects : Opening(p)

\* What a step at terminal t may change of the files that the others rely on.
Settled(t) ==
    /\ \A q \in Projects :
        /\ manifest[q] # None => manifest'[q] # None /\ manifest'[q].id = manifest[q].id
        /\ appKey[q] # None => appKey'[q] # None /\ appKey'[q].key = appKey[q].key
        /\ recovery[q] # None => recovery'[q] = recovery[q]
        /\ q # In(t) =>
            manifest'[q] = manifest[q] /\ appKey'[q] = appKey[q] /\ recovery'[q] = recovery[q]
    /\ recovery' # recovery => cmd[t].op = "createRecovery"
    /\ root' # root => \A u \in Terminals \ {t} : ~Busy(u)

\* What the other commands know stays true.
LEMMA OthersFit ==
    ASSUME Typed, Fitting, NEW t \in Terminals, Busy(t), Settled(t), cmd' = cmd,
           NEW u \in Terminals, u # t, Busy(u), km'[u] = km[u]
    PROVE  KnownKeys(u) \subseteq KnownKeys(u)' /\ Named(u)'
<1>1. In(u) \in Projects /\ In(t) \in Projects /\ In(u)' = In(u)
  BY ScriptsAreCommands DEF Typed, Shaped, In
<1>2. root' = root /\ root # None
  BY DEF Settled, Fitting, Apart
<1>3. CASE In(u) # In(t)
  <2>1. manifest'[In(u)] = manifest[In(u)] /\ appKey'[In(u)] = appKey[In(u)]
        /\ recovery'[In(u)] = recovery[In(u)]
    BY <1>1, <1>3 DEF Settled
  <2>2. KnownKeys(u)' = KnownKeys(u)
    BY <1>1, <1>2, <2>1 DEF KnownKeys, Fits
  <2>3. Named(u)'
    BY <1>1, <2>1 DEF Fitting, Named
  <2> QED
    BY <2>2, <2>3
<1>4. CASE In(u) = In(t)
  <2>1. /\ manifest[In(u)] # None /\ manifest'[In(u)] # None
        /\ manifest'[In(u)].id = manifest[In(u)].id
        /\ appKey[In(u)] # None /\ appKey'[In(u)] # None
        /\ appKey'[In(u)].key = appKey[In(u)].key
        /\ ~(cmd[t].op = "createRecovery" /\ cmd[u].op = "createRecovery")
    BY <1>1, <1>4 DEF Settled, Fitting, Apart
  <2>2. Named(u)'
    BY <1>1, <2>1 DEF Fitting, Named
  <2>3. /\ recovery[In(u)] # None => recovery'[In(u)] = recovery[In(u)]
        /\ cmd[u].op = "createRecovery" => recovery' = recovery
    BY <1>1, <2>1 DEF Settled
  <2>4. ASSUME NEW f \in KnownKeys(u)
        PROVE  f \in KnownKeys(u)'
    BY <1>1, <1>2, <2>1, <2>3, <2>4 DEF KnownKeys, Fits
  <2> QED
    BY <2>2, <2>4
<1> QED
  BY <1>3, <1>4

\* A step that is done, and puts the steps m in front of the rest.
LEMMA KeysDone ==
    ASSUME Typed, KeysPlanned, NEW t \in Terminals, NEW x, NEW m, Do(t, x, m),
           Outline(m, KnownKeys(t)', After(KnownKeys(t), x, Keys), Keys)
    PROVE  Outline(agenda'[t], KnownKeys(t)', {}, Keys)
<1>1. agenda[t] # <<>> /\ Head(agenda[t]) = x /\ agenda'[t] = m \o Tail(agenda[t])
  BY DEF Do, At, Busy, Typed, Shaped
<1>2. Outline(agenda[t], KnownKeys(t), {}, Keys) /\ KnownKeys(t) \in SUBSET DOMAIN Keys
  BY DEF KeysPlanned, KnownKeys
<1> QED
  BY <1>1, <1>2, Goes

\* A step that is done, and adds none.
LEMMA KeysNext ==
    ASSUME Typed, KeysPlanned, NEW t \in Terminals, NEW x, Do(t, x, <<>>),
           After(KnownKeys(t), x, Keys) \subseteq KnownKeys(t)'
    PROVE  Outline(agenda'[t], KnownKeys(t)', {}, Keys)
<1>1. KnownKeys(t)' \in SUBSET DOMAIN Keys
  BY DEF KnownKeys
<1>2. Outline(<<>>, KnownKeys(t)', After(KnownKeys(t), x, Keys), Keys)
  BY <1>1, Empty
<1> QED
  BY <1>2, KeysDone

\* A command that ends has nothing left to do.
LEMMA KeysQuit ==
    ASSUME Typed, NEW t \in Terminals, NEW x, Quit(t, x)
    PROVE  Outline(agenda'[t], KnownKeys(t)', {}, Keys)
<1>1. KnownKeys(t)' \in SUBSET DOMAIN Keys
  BY DEF KnownKeys
<1>2. agenda'[t] = <<>>
  BY DEF Quit, Typed, Shaped
<1> QED
  BY <1>1, <1>2, Empty

\* A step that is next has what it needs ...
LEMMA KeysReady ==
    ASSUME KeysPlanned, NEW t \in Terminals, NEW x, At(t, x)
    PROVE  \A f \in DOMAIN Keys : x \in Keys[f].need => f \in KnownKeys(t)
<1>1. agenda[t] # <<>> /\ Head(agenda[t]) = x
  BY DEF At, Busy
<1>2. Outline(agenda[t], KnownKeys(t), {}, Keys)
  BY DEF KeysPlanned
<1> QED
  BY <1>1, <1>2, Rest DEF Ready

\* ... which is this.
LEMMA KeysNeeded ==
    ASSUME KeysPlanned, NEW t \in Terminals, NEW x, At(t, x)
    PROVE  /\ x = "checkRecovery" => cmd[t].op = "createRecovery"
           /\ x \in {"countRun", "countEnd", "wrap", "writeSecret", "writeRecovery"} =>
                /\ manifest[In(t)] # None
                /\ km[t].seen.id = manifest[In(t)].id /\ km[t].app = manifest[In(t)].id
           /\ x = "create" => manifest[In(t)] = None
           /\ x = "wrap" => /\ root # None /\ km[t].root = root
                            /\ appKey[In(t)] # None => appKey[In(t)].key = km[t].key
           /\ x = "makeRoot" => root = None
           /\ x \in {"writeSecret", "writeRecovery"} =>
                appKey[In(t)] # None /\ appKey[In(t)].key = km[t].key
           /\ x \in {"writeSecret", "dropSecret"} =>
                \A n \in Names : km[t].held[n] # None => Fits(In(t), km[t].held[n])
           /\ x = "writeRecovery" => cmd[t].op = "createRecovery" /\ recovery[In(t)] = None
           /\ x = "printRecovery" => recovery[In(t)] # None /\ km[t].lock = recovery[In(t)].lock
BY KeysReady DEF Keys, KnownKeys

\* The invariant is kept if the step keeps it in its own project.
LEMMA Assembled ==
    ASSUME Typed, Fitting, NEW t \in Terminals, Acts(t), Settled(t),
           \A u \in Terminals : u # t => km'[u] = km[u],
           Outline(agenda'[t], KnownKeys(t)', {}, Keys), Busy(t)' => Named(t)', Shown',
           \A p \in Projects : Opening(p)'
    PROVE  Fitting'
<1>1. /\ Busy(t) /\ cmd' = cmd /\ \A u \in Terminals : In(u)' = In(u)
      /\ \A u \in Terminals : u # t => agenda'[u] = agenda[u]
      /\ \A u \in Terminals : Busy(u)' => Busy(u)
      /\ \A u \in Terminals : Busy(u) => In(u) \in Projects
  <2>1. Busy(t)
    BY DEF Acts, Do, Quit, Fails, At
  <2>2. cmd' = cmd /\ \A u \in Terminals : u # t => agenda'[u] = agenda[u]
    BY TerminalsGo
  <2> QED
    BY <2>1, <2>2, ScriptsAreCommands DEF Busy, In, Typed, Shaped
<1>2. KeysPlanned'
  <2>1. ASSUME NEW u \in Terminals, u # t
        PROVE  Outline(agenda'[u], KnownKeys(u)', {}, Keys)
    <3>1. CASE Busy(u)
      BY <1>1, <2>1, <3>1, OthersFit, Wider DEF Fitting, KeysPlanned
    <3>2. CASE ~Busy(u)
      <4>1. agenda'[u] = <<>> /\ KnownKeys(u)' \in SUBSET DOMAIN Keys
        BY <1>1, <2>1, <3>2 DEF Busy, KnownKeys
      <4> QED
        BY <4>1, Empty
    <3> QED
      BY <3>1, <3>2
  <2> QED
    BY <2>1 DEF KeysPlanned
<1>3. Apart'
  <2>1. ASSUME NEW u \in Terminals, NEW v \in Terminals, u # v, Busy(u)', Busy(v)'
        PROVE  /\ root' # None
               /\ In(u)' = In(v)' =>
                    /\ manifest'[In(u)'] # None /\ appKey'[In(u)'] # None
                    /\ ~(cmd'[u].op = "createRecovery" /\ cmd'[v].op = "createRecovery")
    <3>1. Busy(u) /\ Busy(v) /\ root # None /\ In(u) \in Projects
          /\ (In(u) = In(v) => /\ manifest[In(u)] # None /\ appKey[In(u)] # None
                    /\ ~(cmd[u].op = "createRecovery" /\ cmd[v].op = "createRecovery"))
      BY <1>1, <2>1 DEF Fitting, Apart
    <3>2. root' = root
      BY <2>1, <3>1 DEF Settled
    <3> QED
      BY <1>1, <3>1, <3>2 DEF Settled
  <2> QED
    BY <2>1 DEF Apart
<1>4. \A u \in Terminals : Busy(u)' => Named(u)'
  BY <1>1, OthersFit
<1> QED
  BY <1>2, <1>3, <1>4 DEF Fitting

\* A step that Assembled applies to.
Advanced(t) ==
    /\ Settled(t) /\ Shown'
    /\ Outline(agenda'[t], KnownKeys(t)', {}, Keys)
    /\ Busy(t)' => Named(t)'
    /\ \A p \in Projects : Opening(p)'

\* A step that leaves the files as they are, ...
LEMMA SameFiles ==
    ASSUME Fitting, NEW t \in Terminals,
           UNCHANGED <<manifest, root, retired, appKey, secrets, recovery, printed>>
    PROVE  Settled(t) /\ Shown' /\ \A p \in Projects : Opening(p)'
BY DEF Fitting, Settled, Shown, Opening, Fits

\* ... one that leaves the memory too, ...
LEMMA SameKeys ==
    ASSUME Typed, Fitting, NEW t \in Terminals, Busy(t), UNCHANGED keyVars, cmd' = cmd
    PROVE  Settled(t) /\ Shown' /\ Named(t)' /\ KnownKeys(t)' = KnownKeys(t)
           /\ \A p \in Projects : Opening(p)'
<1>1. UNCHANGED <<manifest, root, retired, appKey, secrets, recovery, printed, km, cmd>>
  BY DEF keyVars
<1>2. Named(t)' /\ KnownKeys(t)' = KnownKeys(t)
  BY <1>1 DEF Fitting, Named, KnownKeys, Fits, In
<1> QED
  BY <1>1, <1>2, SameFiles

\* ... and one that in addition neither gives nor adds anything.
LEMMA SameStep ==
    ASSUME Typed, Fitting, NEW t \in Terminals, NEW x \in Steps, UNCHANGED keyVars,
           x \notin {"ensure", "create", "root", "makeRoot", "unlock", "wrap", "openRecovery",
                     "readSecrets", "checkRecovery", "writeRecovery"},
           Do(t, x, <<>>) \/ Quit(t, x)
    PROVE  Advanced(t)
<1>1. cmd' = cmd /\ Busy(t) /\ Fitting
  BY DEF Do, Quit, At
<1>2. Settled(t) /\ Shown' /\ Named(t)' /\ KnownKeys(t)' = KnownKeys(t)
      /\ \A p \in Projects : Opening(p)'
  BY <1>1, SameKeys
<1>3. After(KnownKeys(t), x, Keys) \subseteq KnownKeys(t)
  BY DEF After, Keys
<1>4. Outline(agenda'[t], KnownKeys(t)', {}, Keys)
  BY <1>2, <1>3, KeysNext, KeysQuit DEF Fitting
<1> QED
  BY <1>2, <1>4 DEF Advanced

\* The steps on the manifest.
LEMMA ManifestKeys ==
    ASSUME Typed, Fitting, NEW t \in Terminals, ManifestStep(t)
    PROVE  Advanced(t)
<1>1. KeysTypeOK /\ DOMAIN km = Terminals /\ KeysPlanned
  BY DEF Typed, TypeOK, Shaped, Fitting
<1>2. CASE EnsureFinds(t)
  <2> DEFINE m == manifest[In(t)]
  <2>1. /\ Do(t, "ensure", <<>>) /\ At(t, "ensure") /\ cmd' = cmd /\ Busy(t)
        /\ m # None /\ UNCHANGED <<manifest, runs, keyFiles>>
    BY <1>2 DEF EnsureFinds, Do, At
  <2>2. m \in Manifests /\ In(t)' = In(t) /\ In(t) \in Projects
    BY <1>1, <2>1, WorksInProject DEF KeysTypeOK, In
  <2>3. Seen(t, m) /\ UNCHANGED <<manifest, root, retired, appKey, secrets, recovery, printed>>
    BY <1>2, <2>1 DEF EnsureFinds, keyFiles
  <2>4. km[t].app = None \/ km[t].app = m.id
    BY <2>1 DEF Fitting, Named
  <2>5. /\ km'[t].seen = m /\ km'[t].app = m.id /\ m' = m
        /\ km'[t].root = km[t].root /\ km'[t].key = km[t].key /\ km'[t].lock = km[t].lock
        /\ km'[t].held = km[t].held
    BY <2>2, <2>3, <2>4, SeenTypes
  <2>6. After(KnownKeys(t), "ensure", Keys) \subseteq KnownKeys(t)'
    BY <2>1, <2>2, <2>3, <2>5 DEF After, KnownKeys, Keys, Fits, Steps
  <2>7. Named(t)'
    BY <2>1, <2>2, <2>3, <2>5 DEF Named
  <2> QED
    BY <1>1, <2>1, <2>3, <2>6, <2>7, SameFiles, KeysNext DEF Advanced
<1>3. CASE EnsureMisses(t)
  <2>1. Do(t, "ensure", <<"create">>) /\ UNCHANGED keyVars /\ cmd' = cmd /\ Busy(t)
        /\ manifest[In(t)] = None
    BY <1>3 DEF EnsureMisses, Do, At
  <2>2. Settled(t) /\ Shown' /\ Named(t)' /\ KnownKeys(t)' = KnownKeys(t)
        /\ \A p \in Projects : Opening(p)'
    BY <2>1, SameKeys
  <2> DEFINE F == KnownKeys(t)
             P == After(F, "ensure", Keys)
  <2>3. "none" \in F /\ F \in SUBSET DOMAIN Keys /\ P \in SUBSET DOMAIN Keys
    BY <2>1 DEF KnownKeys, After, Keys
  <2>4. P \subseteq F \cup {"seen"} /\ "none" \notin P /\ "noroot" \notin P
    BY DEF After, Keys, Steps
  <2> HIDE DEF F, P
  <2>5. Ready(F, "create", Keys) /\ P \subseteq After(F, "create", Keys)
    BY <2>3, <2>4 DEF Ready, After, Keys
  <2>6. Outline(<<"create">>, F, P, Keys)
    BY <2>3, <2>5, One DEF Steps
  <2> QED
    BY <1>1, <2>1, <2>2, <2>6, KeysDone DEF Advanced, F, P
<1>4. CASE Create(t)
  <2> DEFINE m == [id |-> Fresh(t), runs |-> 0, ends |-> 0]
             p == In(t)
  <2>1. /\ Do(t, "create", <<>>) /\ At(t, "create") /\ cmd' = cmd /\ Busy(t)
        /\ manifest' = [manifest EXCEPT ![p] = m]
        /\ UNCHANGED <<root, retired, appKey, secrets, recovery, printed>>
    BY <1>4 DEF Create, Do, At, keyFiles
  <2>2. m \in Manifests /\ m.id \in Tags /\ p \in Projects /\ In(t)' = p
    BY <2>1, WorksInProject DEF Typed, Shaped, Manifests, Tags, Fresh, In
  <2>3. manifest'[p] = m /\ m # None
        /\ \A q \in Projects : q # p => manifest'[q] = manifest[q]
    BY <1>1, <2>1, <2>2, NoneIsNoEnvelope DEF KeysTypeOK
  <2> HIDE DEF m
  <2>4. Seen(t, m)
    BY <1>4, <2>3 DEF Create
  <2>5. manifest[p] = None /\ km[t].app = None
    BY <1>1, <2>1, KeysNeeded DEF Fitting, Named
  <2>6. appKey[p] = None /\ recovery[p] = None /\ \A n \in Names : secrets[p][n] = None
    BY <2>2, <2>5 DEF Fitting, Opening, Fits
  <2>7. /\ km'[t].seen = m /\ km'[t].app = m.id
        /\ km'[t].root = km[t].root /\ km'[t].key = km[t].key /\ km'[t].lock = km[t].lock
        /\ km'[t].held = km[t].held
    BY <2>2, <2>4, <2>5, SeenTypes
  <2>8. After(KnownKeys(t), "create", Keys) \subseteq KnownKeys(t)'
    <3>1. ASSUME NEW f \in After(KnownKeys(t), "create", Keys)
          PROVE  f \in KnownKeys(t)'
      <4>1. f = "seen" \/ (f \in KnownKeys(t) /\ f # "none" /\ f # "noroot")
        BY <3>1 DEF After, Keys, Steps
      <4>2. f \in DOMAIN Keys
        BY <3>1 DEF After
      <4> QED
        BY <2>1, <2>2, <2>3, <2>5, <2>6, <2>7, <4>1, <4>2 DEF KnownKeys, Fits
    <3> QED
      BY <3>1
  <2>9. Named(t)' /\ Shown'
    BY <2>1, <2>2, <2>3, <2>7 DEF Named, Shown, Fitting
  <2>10. Settled(t)
    BY <2>1, <2>2, <2>3, <2>5 DEF Settled
  <2>11. \A q \in Projects : Opening(q)'
    BY <2>1, <2>2, <2>3, <2>6 DEF Fitting, Opening, Fits
  <2> QED
    BY <1>1, <2>1, <2>8, <2>9, <2>10, <2>11, KeysNext DEF Advanced
<1>5. CASE CountRun(t) \/ CountEnd(t)
  <2> DEFINE p == In(t)
  <2>0. PICK x \in {"countRun", "countEnd"} : \E m :
            /\ Do(t, x, <<>>) /\ At(t, x) /\ manifest' = [manifest EXCEPT ![p] = m]
            /\ m \in {[km[t].seen EXCEPT !.runs = @ + 1], [km[t].seen EXCEPT !.ends = @ + 1]}
    BY <1>5 DEF CountRun, CountEnd, Do
  <2>1. PICK m :
            /\ Do(t, x, <<>>) /\ At(t, x) /\ manifest' = [manifest EXCEPT ![p] = m]
            /\ m \in {[km[t].seen EXCEPT !.runs = @ + 1], [km[t].seen EXCEPT !.ends = @ + 1]}
    BY <2>0
  <2>2. UNCHANGED <<root, retired, appKey, secrets, recovery, printed, km, cmd>>
    BY <1>5 DEF CountRun, CountEnd, keyFiles, Do
  <2>3. km[t].seen \in Manifests /\ p \in Projects /\ Busy(t) /\ In(t)' = p
    BY <2>1, <2>2, TypesNeeded, WorksInProject DEF At, In
  <2>4. manifest[p] # None /\ km[t].seen.id = manifest[p].id
    BY <1>1, <2>1, KeysNeeded
  <2>5. m \in Manifests /\ m.id = km[t].seen.id
    BY <2>1, <2>3 DEF Manifests
  <2>6. /\ manifest'[p] # None /\ manifest'[p].id = manifest[p].id
        /\ \A q \in Projects : q # p => manifest'[q] = manifest[q]
    BY <1>1, <2>1, <2>3, <2>4, <2>5, NoneIsNoEnvelope DEF KeysTypeOK
  <2>7. /\ \A q \in Projects : manifest'[q] # None <=> manifest[q] # None
        /\ \A q \in Projects : manifest[q] # None => manifest'[q].id = manifest[q].id
    BY <2>4, <2>6
  <2>8. Settled(t)
    BY <2>2, <2>3, <2>6, <2>7 DEF Settled
  <2>9. Shown' /\ Named(t)'
    BY <2>2, <2>3, <2>6, <2>7 DEF Shown, Fitting, Named
  <2>10. \A q \in Projects : Opening(q)'
    BY <2>2, <2>7 DEF Fitting, Opening, Fits
  <2>11. After(KnownKeys(t), x, Keys) \subseteq KnownKeys(t)
    BY <2>1 DEF After, Keys
  <2>12. KnownKeys(t)' = KnownKeys(t)
    BY <2>2, <2>3, <2>7 DEF KnownKeys, Fits
  <2> QED
    BY <1>1, <2>1, <2>8, <2>9, <2>10, <2>11, <2>12, KeysNext DEF Advanced
<1>6. CASE CountFails(t)
  <2>1. Fails(t, "countRun", <<"share">>) /\ UNCHANGED keyVars
    BY <1>6 DEF CountFails
  <2>2. agenda'[t] = <<"share">> /\ cmd' = cmd /\ Busy(t)
    BY <2>1 DEF Fails, Typed, Shaped, At
  <2>3. Outline(<<"share">>, KnownKeys(t)', {}, Keys)
    <3>1. Ready(KnownKeys(t)', "share", Keys) /\ KnownKeys(t)' \in SUBSET DOMAIN Keys
      BY DEF Ready, Keys, KnownKeys
    <3> QED
      BY <3>1, One DEF Steps
  <2> QED
    BY <2>1, <2>2, <2>3, SameKeys DEF Advanced
<1>7. CASE Share(t)
  <2>1. Do(t, "share", <<>>) /\ UNCHANGED keyVars /\ "share" \in Steps
    BY <1>7 DEF Share, Steps
  <2> QED
    BY <2>1, SameStep
<1> QED
  BY <1>2, <1>3, <1>4, <1>5, <1>6, <1>7 DEF ManifestStep

\* The steps that wrap an app key: the one there is, or one where there is none.
LEMMA RewrapKeys ==
    ASSUME NEW F \in SUBSET DOMAIN Keys, "wrapkey" \in F, NEW P \in SUBSET DOMAIN Keys,
           P \subseteq (F \cup {"key"}) \ {"none", "noroot"}
    PROVE  Outline(<<"ensure", "root", "wrap">>, F, P, Keys)
<1> DEFINE G == (F \ {"none", "noroot"}) \cup {"seen"}
           H == G \cup {"root"}
<1>1. G \in SUBSET DOMAIN Keys /\ H \in SUBSET DOMAIN Keys
  BY DEF Keys
<1>2. Ready(F, "ensure", Keys) /\ G \subseteq After(F, "ensure", Keys)
  BY <1>1 DEF Ready, After, Keys
<1>3. Ready(G, "root", Keys) /\ H \subseteq After(G, "root", Keys)
  BY <1>1 DEF Ready, After, Keys
<1>4. Ready(H, "wrap", Keys) /\ P \subseteq After(H, "wrap", Keys)
  BY <1>1 DEF Ready, After, Keys
<1>5. "ensure" \in Steps /\ "root" \in Steps /\ "wrap" \in Steps
  BY DEF Steps
<1> HIDE DEF G, H
<1> QED
  BY <1>1, <1>2, <1>3, <1>4, <1>5, Three

\* The steps on the root key and the app key.
LEMMA KeyKeys ==
    ASSUME Typed, Fitting, NEW t \in Terminals, KeyStep(t)
    PROVE  Advanced(t)
<1>1. KeysTypeOK /\ DOMAIN km = Terminals /\ KeysPlanned
  BY DEF Typed, TypeOK, Shaped, Fitting
<1>2. DOMAIN km[t] = {"app", "seen", "root", "key", "lock", "held"}
  BY <1>1 DEF KeysTypeOK, Blank
<1> DEFINE F == KnownKeys(t)
           G == KnownKeys(t)'
<1>3. F \in SUBSET DOMAIN Keys /\ G \in SUBSET DOMAIN Keys
  BY DEF KnownKeys
<1>4. CASE RootFound(t) \/ RootMissing(t)
  <2>1. PICK r : km' = [km EXCEPT ![t].root = r] /\ UNCHANGED <<root, appKey, AllButKeys>>
                 /\ (RootFound(t) => r = root)
    BY <1>4 DEF RootFound, RootMissing
  <2>2. /\ km'[t].root = r /\ km'[t].app = km[t].app /\ km'[t].seen = km[t].seen
        /\ km'[t].key = km[t].key /\ km'[t].lock = km[t].lock /\ km'[t].held = km[t].held
    BY <1>1, <1>2, <2>1
  <2>3. cmd' = cmd /\ At(t, "root") /\ Busy(t) /\ In(t)' = In(t)
        /\ UNCHANGED <<manifest, root, retired, appKey, secrets, recovery, printed>>
    BY <1>4, <2>1 DEF RootFound, RootMissing, Do, At, AllButKeys, In
  <2>4. Settled(t) /\ Shown' /\ Named(t)' /\ \A p \in Projects : Opening(p)'
    BY <2>2, <2>3, SameFiles DEF Fitting, Named
  <2>5. CASE RootFound(t)
    <3>1. Do(t, "root", <<>>) /\ root # None
      BY <2>5 DEF RootFound
    <3>2. After(F, "root", Keys) \subseteq G
      BY <2>1, <2>2, <2>3, <2>5, <3>1 DEF After, KnownKeys, Keys, Fits, Steps
    <3> QED
      BY <1>1, <2>4, <3>1, <3>2, KeysNext DEF Advanced
  <2>6. CASE RootMissing(t)
    <3> DEFINE P == After(F, "root", Keys)
               H == (G \cup {"root"}) \ {"none", "noroot"}
    <3>1. Do(t, "root", <<"makeRoot", "confirmRoot">>) /\ root = None
      BY <2>6 DEF RootMissing
    <3>2. "noroot" \in G
      BY <2>3, <3>1 DEF KnownKeys, Keys
    <3>3. P \subseteq (F \cup {"root"}) \ {"none", "noroot"} /\ P \in SUBSET DOMAIN Keys
      BY DEF After, Keys, Steps
    <3>4. F \subseteq G
      BY <2>2, <2>3, <3>1 DEF KnownKeys, Fits
    <3>5. P \subseteq H /\ "noroot" \in G /\ G \in SUBSET DOMAIN Keys
      BY <1>3, <3>2, <3>3, <3>4
    <3> HIDE DEF P, G
    <3>6. H \in SUBSET DOMAIN Keys /\ Ready(G, "makeRoot", Keys)
          /\ Ready(H, "confirmRoot", Keys)
      BY <3>5 DEF Ready, Keys
    <3>10. H \subseteq After(G, "makeRoot", Keys)
      BY <3>5 DEF After, Keys
    <3>7. P \subseteq After(H, "confirmRoot", Keys)
      BY <3>3, <3>5 DEF After, Keys
    <3>8. "makeRoot" \in Steps /\ "confirmRoot" \in Steps
      BY DEF Steps
    <3> HIDE DEF H
    <3>9. Outline(<<"makeRoot", "confirmRoot">>, G, P, Keys)
      BY <3>3, <3>5, <3>6, <3>7, <3>8, <3>10, Two
    <3> QED
      BY <1>1, <2>4, <3>1, <3>9, KeysDone DEF Advanced, P, G
  <2> QED
    BY <1>4, <2>5, <2>6
<1>5. CASE MakeRoot(t)
  <2>1. /\ Do(t, "makeRoot", <<>>) /\ At(t, "makeRoot") /\ Busy(t) /\ cmd' = cmd
        /\ root' = km[t].root /\ km' = km /\ In(t)' = In(t)
        /\ UNCHANGED <<manifest, retired, appKey, secrets, recovery, printed>>
    BY <1>5 DEF MakeRoot, Do, At, AllButKeys, In
  <2>2. root = None /\ km[t].root \in Tags /\ km[t].root # None
    BY <1>1, <2>1, KeysNeeded, TypesNeeded, NoneIsNoTag
  <2>3. \A u \in Terminals \ {t} : ~Busy(u)
    BY <2>1, <2>2 DEF Fitting, Apart
  <2>4. Settled(t) /\ Shown' /\ Named(t)'
    BY <2>1, <2>3 DEF Settled, Fitting, Shown, Named
  <2>5. ASSUME NEW p \in Projects
        PROVE  Opening(p)'
    <3>1. appKey[p] # None => appKey[p].root # None
      BY <1>1, NoneIsNoTag DEF KeysTypeOK, WrappedKeys
    <3> QED
      BY <2>1, <2>2, <3>1 DEF Fitting, Opening, Fits
  <2>6. After(F, "makeRoot", Keys) \subseteq G
    BY <2>1, <2>2 DEF After, KnownKeys, Keys, Fits, Steps
  <2> QED
    BY <1>1, <2>1, <2>4, <2>5, <2>6, KeysNext DEF Advanced
<1>6. CASE ConfirmRoot(t)
  <2>1. UNCHANGED keyVars /\ (Do(t, "confirmRoot", <<>>) \/ Quit(t, "confirmRoot"))
        /\ "confirmRoot" \in Steps
    BY <1>6 DEF ConfirmRoot, Steps
  <2> QED
    BY <2>1, SameStep
<1>7. CASE Unlock(t) \/ UnlockMisses(t)
  <2>1. /\ At(t, "unlock") /\ Busy(t) /\ cmd' = cmd /\ In(t)' = In(t)
        /\ UNCHANGED <<manifest, root, retired, appKey, secrets, recovery, printed>>
    BY <1>7 DEF Unlock, UnlockMisses, Do, Quit, At, AllButKeys, In
  <2>2. Settled(t) /\ Shown' /\ \A p \in Projects : Opening(p)'
    BY <2>1, SameFiles
  <2>3. CASE Quit(t, "unlock") /\ km' = km
    <3>1. Named(t)'
      BY <2>1, <2>3 DEF Fitting, Named
    <3> QED
      BY <2>2, <2>3, <3>1, KeysQuit DEF Advanced
  <2>4. ASSUME NEW k, km' = [km EXCEPT ![t].key = k]
        PROVE  /\ km'[t].key = k /\ km'[t].app = km[t].app /\ km'[t].seen = km[t].seen
               /\ km'[t].root = km[t].root /\ km'[t].lock = km[t].lock
               /\ km'[t].held = km[t].held /\ Named(t)'
    <3>1. /\ km'[t].key = k /\ km'[t].app = km[t].app /\ km'[t].seen = km[t].seen
          /\ km'[t].root = km[t].root /\ km'[t].lock = km[t].lock
          /\ km'[t].held = km[t].held
      BY <1>1, <1>2, <2>4
    <3> QED
      BY <2>1, <3>1 DEF Fitting, Named
  <2>5. CASE /\ Do(t, "unlock", <<>>) /\ appKey[In(t)] # None
             /\ km' = [km EXCEPT ![t].key = appKey[In(t)].key]
    <3>1. /\ km'[t].key = appKey[In(t)].key /\ km'[t].app = km[t].app
          /\ km'[t].seen = km[t].seen /\ km'[t].root = km[t].root
          /\ km'[t].lock = km[t].lock /\ km'[t].held = km[t].held /\ Named(t)'
      BY <2>4, <2>5
    <3>2. After(F, "unlock", Keys) \subseteq G
      BY <2>1, <2>5, <3>1 DEF After, KnownKeys, Keys, Fits, Steps
    <3> QED
      BY <1>1, <2>2, <2>5, <3>1, <3>2, KeysNext DEF Advanced
  <2>6. CASE /\ Do(t, "unlock", <<"ensure", "root", "wrap">>) /\ appKey[In(t)] = None
             /\ km' = [km EXCEPT ![t].key = Fresh(t)]
    <3> DEFINE P == After(F, "unlock", Keys)
    <3>1. /\ km'[t].app = km[t].app
          /\ km'[t].seen = km[t].seen /\ km'[t].root = km[t].root
          /\ km'[t].lock = km[t].lock /\ km'[t].held = km[t].held /\ Named(t)'
      BY <2>4, <2>6
    <3>2. F \subseteq G /\ "wrapkey" \in G
      BY <2>1, <2>6, <3>1 DEF KnownKeys, Keys, Fits
    <3>3. P \subseteq (F \cup {"key"}) \ {"none", "noroot"} /\ P \in SUBSET DOMAIN Keys
      BY DEF After, Keys, Steps
    <3>4. P \subseteq (G \cup {"key"}) \ {"none", "noroot"}
      BY <3>2, <3>3
    <3> HIDE DEF P, G
    <3>5. Outline(<<"ensure", "root", "wrap">>, G, P, Keys)
      BY <1>3, <3>2, <3>3, <3>4, RewrapKeys
    <3> QED
      BY <1>1, <2>2, <2>6, <3>1, <3>5, KeysDone DEF Advanced, P, G
  <2> QED
    BY <1>7, <2>3, <2>5, <2>6 DEF Unlock, UnlockMisses
<1>8. CASE Wrap(t)
  <2> DEFINE p == In(t)
             w == [app |-> km[t].seen.id, root |-> km[t].root, key |-> km[t].key]
  <2>1. /\ Do(t, "wrap", <<>>) /\ At(t, "wrap") /\ Busy(t) /\ cmd' = cmd /\ km' = km
        /\ appKey' = [appKey EXCEPT ![p] = w] /\ In(t)' = p
        /\ UNCHANGED <<manifest, root, retired, secrets, recovery, printed>>
    BY <1>8 DEF Wrap, Do, At, AllButKeys, In
  <2>2. p \in Projects /\ w \in WrappedKeys
    BY <2>1, TypesNeeded, WorksInProject DEF Manifests, WrappedKeys
  <2>3. /\ manifest[p] # None /\ km[t].seen.id = manifest[p].id
        /\ root # None /\ km[t].root = root
        /\ appKey[p] # None => appKey[p].key = km[t].key
    BY <1>1, <2>1, KeysNeeded
  <2>4. w # None /\ w.app = manifest[p].id /\ w.root = root /\ w.key = km[t].key
    BY <2>2, <2>3, NoneIsNoEnvelope
  <2> HIDE DEF w
  <2>5. appKey'[p] = w /\ \A q \in Projects : q # p => appKey'[q] = appKey[q]
    BY <1>1, <2>1, <2>2 DEF KeysTypeOK
  <2>6. Settled(t) /\ Shown' /\ Named(t)'
    BY <2>1, <2>2, <2>3, <2>4, <2>5 DEF Settled, Fitting, Shown, Named
  <2>7. ASSUME NEW q \in Projects
        PROVE  Opening(q)'
    <3>1. CASE q # p
      BY <2>1, <2>5, <2>7, <3>1 DEF Fitting, Opening, Fits
    <3>2. CASE q = p
      <4>1. Opening(p)
        BY <2>2 DEF Fitting
      <4>2. ASSUME NEW s \in Names, secrets[p][s] # None
            PROVE  Fits(p, secrets[p][s])'
        <5>1. Fits(p, secrets[p][s])
          BY <4>1, <4>2 DEF Opening
        <5> QED
          BY <2>1, <2>3, <2>4, <2>5, <5>1 DEF Fits
      <4>3. recovery[p] # None =>
                recovery[p].app = manifest[p].id /\ recovery[p].key = km[t].key
        BY <2>3, <4>1 DEF Opening
      <4>4. secrets'[p] = secrets[p] /\ recovery'[p] = recovery[p] /\ manifest'[p] = manifest[p]
        BY <2>1
      <4> QED
        BY <2>1, <2>3, <2>4, <2>5, <3>2, <4>2, <4>3, <4>4 DEF Opening
    <3> QED
      BY <3>1, <3>2
  <2>8. After(F, "wrap", Keys) \subseteq G
    BY <2>1, <2>2, <2>3, <2>4, <2>5 DEF After, KnownKeys, Keys, Fits, Steps
  <2> QED
    BY <1>1, <2>1, <2>6, <2>7, <2>8, KeysNext DEF Advanced
<1> QED
  BY <1>4, <1>5, <1>6, <1>7, <1>8 DEF KeyStep

\* The steps on the secrets.
LEMMA SecretKeys ==
    ASSUME Typed, Fitting, NEW t \in Terminals, SecretStep(t)
    PROVE  Advanced(t)
<1>1. KeysTypeOK /\ DOMAIN km = Terminals /\ KeysPlanned
  BY DEF Typed, TypeOK, Shaped, Fitting
<1>2. DOMAIN km[t] = {"app", "seen", "root", "key", "lock", "held"}
  BY <1>1 DEF KeysTypeOK, Blank
<1> DEFINE F == KnownKeys(t)
           G == KnownKeys(t)'
           p == In(t)
<1>3. CASE ReadSecrets(t) \/ ReadSecret(t)
  <2>1. PICK h : km' = [km EXCEPT ![t].held = h] /\ (ReadSecrets(t) => h = secrets[p])
    BY <1>3 DEF ReadSecrets, ReadSecret
  <2>2. /\ km'[t].held = h /\ km'[t].app = km[t].app /\ km'[t].seen = km[t].seen
        /\ km'[t].key = km[t].key /\ km'[t].lock = km[t].lock /\ km'[t].root = km[t].root
    BY <1>1, <1>2, <2>1
  <2>3. /\ cmd' = cmd /\ Busy(t) /\ In(t)' = In(t) /\ p \in Projects
        /\ UNCHANGED <<manifest, root, retired, appKey, secrets, recovery, printed>>
    BY <1>3, WorksInProject DEF ReadSecrets, ReadSecret, Do, Quit, At, AllButSecrets, In
  <2>4. Settled(t) /\ Shown' /\ Named(t)' /\ \A q \in Projects : Opening(q)'
    BY <2>2, <2>3, SameFiles DEF Fitting, Named
  <2>5. CASE ReadSecrets(t)
    <3>1. Do(t, "readSecrets", <<>>) /\ h = secrets[p]
      BY <2>1, <2>5 DEF ReadSecrets
    <3>2. \A n \in Names : h[n] # None => Fits(p, h[n])
      BY <2>3, <3>1 DEF Fitting, Opening
    <3>3. After(F, "readSecrets", Keys) \subseteq G
      BY <2>2, <2>3, <3>2 DEF After, KnownKeys, Keys, Fits, Steps
    <3> QED
      BY <1>1, <2>4, <3>1, <3>3, KeysNext DEF Advanced
  <2>6. CASE ReadSecret(t)
    <3>1. Do(t, "readSecret", <<>>) \/ Quit(t, "readSecret")
      BY <2>6 DEF ReadSecret
    <3>2. After(F, "readSecret", Keys) \subseteq G
      BY <2>2, <2>3 DEF After, KnownKeys, Keys, Fits, Steps
    <3> QED
      BY <1>1, <2>4, <3>1, <3>2, KeysNext, KeysQuit DEF Advanced
  <2> QED
    BY <1>3, <2>5, <2>6
<1>4. CASE WriteSecret(t) \/ DropSecret(t)
  <2>1. PICK x \in {"writeSecret", "dropSecret"} : Do(t, x, <<>>) /\ At(t, x)
            /\ (WriteSecret(t) => x = "writeSecret")
    BY <1>4 DEF WriteSecret, DropSecret, Do
  <2>2. /\ cmd' = cmd /\ Busy(t) /\ In(t)' = In(t) /\ p \in Projects
        /\ UNCHANGED <<manifest, root, retired, appKey, recovery, printed, km>>
    BY <1>4, <2>1, WorksInProject DEF WriteSecret, DropSecret, Do, At, AllButSecrets, In
  <2>3. /\ km[t].held \in [Names -> Envelopes \cup {None}]
        /\ \A n \in Names : km[t].held[n] # None => Fits(p, km[t].held[n])
    BY <1>1, <2>1, TypesNeeded, KeysNeeded
  <2> DEFINE e == [app |-> km[t].app, key |-> km[t].key]
  <2>4. WriteSecret(t) => Fits(p, e)
    BY <1>1, <2>1, KeysNeeded DEF Fits
  <2>5. PICK v : /\ v = None \/ Fits(p, v)
                 /\ \/ secrets' = secrets
                    \/ secrets' = [secrets EXCEPT ![p] = [km[t].held EXCEPT ![Arg(t)] = v]]
    BY <1>4, <2>4 DEF WriteSecret, DropSecret
  <2> DEFINE h == [km[t].held EXCEPT ![Arg(t)] = v]
  <2>6. \A n \in Names : h[n] # None => Fits(p, h[n])
    BY <2>3, <2>5
  <2> HIDE DEF h, e
  <2>7. /\ \A q \in Projects : q # p => secrets'[q] = secrets[q]
        /\ secrets'[p] = secrets[p] \/ secrets'[p] = h
    BY <1>1, <2>2, <2>5 DEF KeysTypeOK, h
  <2>8. ASSUME NEW q \in Projects
        PROVE  \A n \in Names : secrets'[q][n] # None => Fits(q, secrets'[q][n])
    BY <2>6, <2>7 DEF Fitting, Opening
  <2>9. \A q \in Projects : \A z : Fits(q, z)' <=> Fits(q, z)
    BY <2>2 DEF Fits
  <2>10. \A q \in Projects : Opening(q)'
    BY <2>2, <2>8, <2>9 DEF Fitting, Opening
  <2>11. Settled(t) /\ Shown' /\ Named(t)' /\ G = F
    BY <2>2 DEF Fitting, Settled, Shown, Named, KnownKeys, Fits
  <2>12. After(F, x, Keys) \subseteq F
    BY <2>1 DEF After, Keys
  <2> QED
    BY <1>1, <2>1, <2>10, <2>11, <2>12, KeysNext DEF Advanced
<1>5. CASE Decrypt(t)
  <2>1. UNCHANGED keyVars /\ (Do(t, "decrypt", <<>>) \/ Quit(t, "decrypt")) /\ "decrypt" \in Steps
    BY <1>5 DEF Decrypt, Steps
  <2> QED
    BY <2>1, SameStep
<1> QED
  BY <1>3, <1>4, <1>5 DEF SecretStep

\* The steps on the recovery key, and the move to another device.
LEMMA RecoveryKeys ==
    ASSUME Typed, Fitting, NEW t \in Terminals, RecoveryStep(t) \/ MoveAway(t)
    PROVE  Advanced(t)
<1>1. KeysTypeOK /\ DOMAIN km = Terminals /\ KeysPlanned
  BY DEF Typed, TypeOK, Shaped, Fitting
<1>2. DOMAIN km[t] = {"app", "seen", "root", "key", "lock", "held"}
  BY <1>1 DEF KeysTypeOK, Blank
<1> DEFINE F == KnownKeys(t)
           G == KnownKeys(t)'
           p == In(t)
<1>3. CASE CheckRecovery(t)
  <2>1. /\ UNCHANGED keyVars /\ cmd' = cmd /\ Busy(t) /\ At(t, "checkRecovery")
        /\ \/ recovery[p] = None /\ Do(t, "checkRecovery", <<>>)
           \/ Quit(t, "checkRecovery")
    BY <1>3 DEF CheckRecovery, Do, Quit, At
  <2>2. Settled(t) /\ Shown' /\ Named(t)' /\ G = F /\ \A q \in Projects : Opening(q)'
    BY <2>1, SameKeys
  <2>3. cmd[t].op = "createRecovery"
    BY <1>1, <2>1, KeysNeeded
  <2>4. recovery[p] = None => After(F, "checkRecovery", Keys) \subseteq F
    BY <2>3 DEF After, KnownKeys, Keys, Steps
  <2> QED
    BY <1>1, <2>1, <2>2, <2>4, KeysNext, KeysQuit DEF Advanced
<1>4. CASE WriteRecovery(t)
  <2> DEFINE r == [app |-> km[t].app, lock |-> Fresh(t), key |-> km[t].key]
  <2>1. /\ Do(t, "writeRecovery", <<>>) /\ At(t, "writeRecovery") /\ Busy(t) /\ cmd' = cmd
        /\ km' = [km EXCEPT ![t].lock = Fresh(t)] /\ In(t)' = In(t)
        /\ recovery' = [recovery EXCEPT ![p] = r]
        /\ UNCHANGED <<manifest, root, retired, appKey, secrets, printed>>
    BY <1>4 DEF WriteRecovery, Do, At, AllButRecovery, In
  <2>2. p \in Projects /\ r \in Recoveries
    BY <2>1, TypesNeeded, WorksInProject DEF Typed, Shaped, Recoveries, Tags, Fresh
  <2>3. /\ km'[t].lock = Fresh(t) /\ km'[t].app = km[t].app /\ km'[t].seen = km[t].seen
        /\ km'[t].key = km[t].key /\ km'[t].held = km[t].held /\ km'[t].root = km[t].root
    BY <1>1, <1>2, <2>1
  <2>4. /\ manifest[p] # None /\ km[t].app = manifest[p].id
        /\ appKey[p] # None /\ appKey[p].key = km[t].key
        /\ cmd[t].op = "createRecovery" /\ recovery[p] = None
    BY <1>1, <2>1, KeysNeeded
  <2>5. r # None /\ r.app = manifest[p].id /\ r.lock = Fresh(t) /\ r.key = appKey[p].key
    BY <2>2, <2>4, NoneIsNoEnvelope
  <2> HIDE DEF r
  <2>6. recovery'[p] = r /\ \A q \in Projects : q # p => recovery'[q] = recovery[q]
    BY <1>1, <2>1, <2>2 DEF KeysTypeOK
  <2>7. Settled(t)
    BY <2>1, <2>4, <2>6 DEF Settled
  <2>8. Named(t)'
    BY <2>1, <2>3, <2>4 DEF Named
  <2>9. Shown'
    <3>1. \A k \in printed : recovery[k.in] # None /\ k.in \in Projects
      BY <1>1 DEF Fitting, Shown, KeysTypeOK
    <3>2. \A k \in printed : recovery'[k.in] = recovery[k.in]
      BY <2>4, <2>6, <3>1
    <3> QED
      BY <2>1, <3>2 DEF Fitting, Shown
  <2>10. \A q \in Projects : Opening(q)'
    BY <2>1, <2>4, <2>5, <2>6 DEF Fitting, Opening, Fits
  <2>11. After(F, "writeRecovery", Keys) \subseteq G
    BY <2>1, <2>3, <2>5, <2>6 DEF After, KnownKeys, Keys, Fits, Steps
  <2> QED
    BY <1>1, <2>1, <2>7, <2>8, <2>9, <2>10, <2>11, KeysNext DEF Advanced
<1>5. CASE PrintRecovery(t)
  <2>1. /\ Do(t, "printRecovery", <<>>) /\ At(t, "printRecovery") /\ Busy(t) /\ cmd' = cmd
        /\ printed' = printed \cup {[in |-> In(t), lock |-> km[t].lock]} /\ In(t)' = In(t)
        /\ UNCHANGED <<manifest, root, retired, appKey, secrets, recovery, km>>
    BY <1>5 DEF PrintRecovery, Do, At, AllButRecovery, In
  <2>2. recovery[p] # None /\ recovery[p].lock = km[t].lock
    BY <1>1, <2>1, KeysNeeded
  <2>3. Shown'
    BY <2>1, <2>2 DEF Fitting, Shown
  <2>4. Settled(t) /\ Named(t)' /\ G = F
    BY <2>1 DEF Fitting, Settled, Named, KnownKeys, Fits
  <2>5. \A q \in Projects : Opening(q)'
    BY <2>1 DEF Fitting, Opening, Fits
  <2>6. After(F, "printRecovery", Keys) \subseteq F
    BY DEF After, Keys
  <2> QED
    BY <1>1, <2>1, <2>3, <2>4, <2>5, <2>6, KeysNext DEF Advanced
<1>6. CASE OpenRecovery(t)
  <2>1. /\ At(t, "openRecovery") /\ Busy(t) /\ cmd' = cmd /\ In(t)' = In(t) /\ p \in Projects
        /\ UNCHANGED <<manifest, root, retired, appKey, secrets, recovery, printed>>
    BY <1>6, WorksInProject DEF OpenRecovery, AllButRecovery, Do, Quit, At, In
  <2>2. Settled(t) /\ Shown' /\ \A q \in Projects : Opening(q)'
    BY <2>1, SameFiles
  <2>3. CASE Quit(t, "openRecovery") /\ km' = km
    <3>1. Named(t)'
      BY <2>1, <2>3 DEF Fitting, Named
    <3> QED
      BY <2>2, <2>3, <3>1, KeysQuit DEF Advanced
  <2>4. CASE /\ Do(t, "openRecovery", <<>>) /\ recovery[p] # None
             /\ km' = [km EXCEPT ![t].key = recovery[p].key]
    <3>1. /\ km'[t].key = recovery[p].key /\ km'[t].app = km[t].app
          /\ km'[t].seen = km[t].seen /\ km'[t].root = km[t].root
          /\ km'[t].lock = km[t].lock /\ km'[t].held = km[t].held
      BY <1>1, <1>2, <2>4
    <3>2. Named(t)'
      BY <2>1, <3>1 DEF Fitting, Named
    <3>3. appKey[p] # None /\ appKey[p].key = recovery[p].key
      BY <2>1, <2>4 DEF Fitting, Opening
    <3>4. After(F, "openRecovery", Keys) \subseteq G
      BY <2>1, <3>1, <3>3 DEF After, KnownKeys, Keys, Fits, Steps
    <3> QED
      BY <1>1, <2>2, <2>4, <3>2, <3>4, KeysNext DEF Advanced
  <2> QED
    BY <1>6, <2>3, <2>4 DEF OpenRecovery
<1>7. CASE MoveAway(t)
  <2>1. /\ Do(t, "move", <<>>) /\ At(t, "move") /\ Busy(t) /\ cmd' = cmd /\ In(t)' = In(t)
        /\ \A u \in Terminals \ {t} : ~Busy(u)
        /\ root' = None /\ retired' = retired \cup ({root} \ {None})
        /\ UNCHANGED <<manifest, appKey, secrets, recovery, printed, km>>
    BY <1>7 DEF MoveAway, Do, At, In
  <2>2. Settled(t) /\ Shown' /\ Named(t)'
    BY <2>1 DEF Fitting, Settled, Shown, Named
  <2>3. ASSUME NEW q \in Projects
        PROVE  Opening(q)'
    <3>1. appKey[q] # None => appKey[q].root # None
      BY <1>1, NoneIsNoTag DEF KeysTypeOK, WrappedKeys
    <3> QED
      BY <2>1, <3>1 DEF Fitting, Opening, Fits
  <2>4. After(F, "move", Keys) \subseteq G
    BY <2>1 DEF After, KnownKeys, Keys, Fits, Steps
  <2> QED
    BY <1>1, <2>1, <2>2, <2>3, <2>4, KeysNext DEF Advanced
<1> QED
  BY <1>3, <1>4, <1>5, <1>6, <1>7 DEF RecoveryStep

\* The steps that need nothing of the keys.
Keyless == {"ensure", "root", "unlock", "readSecret", "decrypt", "move", "open", "configure",
            "start", "readEntry", "readRegistry", "saveRegistry", "detect", "stop", "readSpec",
            "writeUnit", "markSpec", "removeUnit", "clearSpec", "running", "reserve", "probe"}
               \cup SnapshotSteps

\* They have an outline from anything.
LEMMA KeylessPlanned ==
    ASSUME NEW s \in Seq(Keyless), NEW F
    PROVE  Outline(s, F, {}, Keys)
<1>1. ASSUME NEW x \in Keyless, NEW f \in DOMAIN Keys
      PROVE  x \notin Keys[f].need
  <2>1. Keys[f].need \subseteq
            {"checkRecovery", "countRun", "countEnd", "wrap", "writeSecret", "writeRecovery",
             "create", "makeRoot", "dropSecret", "printRecovery"}
    BY DEF Keys
  <2> QED
    BY <2>1 DEF Keyless, SnapshotSteps
<1>2. Keyless \subseteq Steps
  BY DEF Keyless, SnapshotSteps, Steps
<1>3. s \in Seq(Steps) /\ \A i \in 1..Len(s) : s[i] \in Keyless
  BY <1>2
<1> QED
  BY <1>1, <1>3, Needless

\* The steps of the services and of the snapshots neither use nor change the keys.
Strange == ServiceSteps \cup SnapshotSteps

\* What they add to an agenda.
StrangeLists == Seq(Strange \cup {"ensure"})

\* They keep the invariant.
LEMMA StrangeKeys ==
    ASSUME Typed, Fitting, NEW t \in Terminals, UNCHANGED keyVars,
           ProjectsStep(t) \/ SnapshotsStep(t) \/ WasRunning(t, svc[In(t)] # None) \/ Interrupt(t)
    PROVE  Advanced(t)
<1>1. \/ \E x \in Strange, m \in StrangeLists : Do(t, x, m)
      \/ \E x \in Strange : Quit(t, x)
      \/ \E x : \E m \in StrangeLists : Fails(t, x, m)
  <2>1. /\ <<>> \in StrangeLists /\ SnapshotLists \subseteq StrangeLists
        /\ Seq(ServiceSteps \cup {"ensure"}) \subseteq StrangeLists
    BY DEF StrangeLists, SnapshotLists, Strange, SnapshotSteps, ServiceSteps
  <2>2. SnapshotSteps \subseteq Strange /\ ServiceSteps \subseteq Strange
    BY DEF Strange
  <2>3. CASE ProjectsStep(t)
    BY <2>1, <2>2, <2>3, ProjectsAgenda
  <2>4. CASE SnapshotsStep(t) \/ WasRunning(t, svc[In(t)] # None)
    <3>1. (svc[In(t)] # None) \in BOOLEAN
      OBVIOUS
    <3> QED
      BY <2>1, <2>2, <2>4, <3>1, SnapshotAgenda
  <2>5. CASE Interrupt(t)
    BY <2>1, <2>5 DEF Interrupt
  <2> QED
    BY <2>3, <2>4, <2>5
<1>2. cmd' = cmd /\ Busy(t) /\ KeysPlanned
  BY <1>1 DEF Do, Quit, Fails, At, Fitting
<1>3. Settled(t) /\ Shown' /\ Named(t)' /\ KnownKeys(t)' = KnownKeys(t)
      /\ \A p \in Projects : Opening(p)'
  BY <1>2, SameKeys
<1>4. ASSUME NEW m \in StrangeLists, NEW P \in SUBSET DOMAIN Keys,
             P \subseteq KnownKeys(t) \ {"none", "noroot"}
      PROVE  Outline(m, KnownKeys(t), P, Keys)
  <2>1. /\ m \in Seq(Steps) /\ \A i \in 1..Len(m) : m[i] \in Strange \cup {"ensure"}
    <3>1. Strange \cup {"ensure"} \subseteq Steps
      BY DEF Strange, ServiceSteps, SnapshotSteps, Steps
    <3> QED
      BY <3>1 DEF StrangeLists
  <2>2. ASSUME NEW x \in Strange \cup {"ensure"}, NEW f \in DOMAIN Keys
        PROVE  x \notin Keys[f].need
    <3>1. Keys[f].need \subseteq
            {"checkRecovery", "countRun", "countEnd", "wrap", "writeSecret", "writeRecovery",
             "create", "makeRoot", "dropSecret", "printRecovery"}
      BY DEF Keys
    <3> QED
      BY <3>1 DEF Strange, ServiceSteps, SnapshotSteps
  <2>3. ASSUME NEW x \in Strange \cup {"ensure"}, NEW f \in P
        PROVE  x \notin Keys[f].lose
    <3>1. Keys[f].lose \subseteq {"move", "readSecret", "writeRecovery"}
      BY <1>4 DEF Keys, KnownKeys
    <3> QED
      BY <3>1 DEF Strange, ServiceSteps, SnapshotSteps
  <2>4. Outline(m, P, P, Keys)
    BY <2>1, <2>2, <2>3, Steady DEF Ready
  <2> QED
    BY <1>4, <2>4, Wider
<1>5. CASE \E x \in Strange, m \in StrangeLists : Do(t, x, m)
  <2>1. PICK x \in Strange, m \in StrangeLists : Do(t, x, m)
    BY <1>5
  <2> DEFINE P == After(KnownKeys(t), x, Keys)
  <2>2. P \in SUBSET DOMAIN Keys /\ x \in Steps
    BY DEF After, Strange, ServiceSteps, SnapshotSteps, Steps
  <2>3. P \subseteq KnownKeys(t) \ {"none", "noroot"}
    <3>1. \A f \in DOMAIN Keys : x \notin Keys[f].give
      BY DEF Keys, Strange, ServiceSteps, SnapshotSteps
    <3>2. x \in Keys["none"].lose /\ x \in Keys["noroot"].lose
      BY <2>2 DEF Keys
    <3> QED
      BY <3>1, <3>2 DEF After
  <2> HIDE DEF P
  <2>4. Outline(m, KnownKeys(t), P, Keys)
    BY <1>4, <2>2, <2>3
  <2> QED
    BY <1>2, <1>3, <2>1, <2>4, KeysDone DEF Advanced, P
<1>6. CASE \E x \in Strange : Quit(t, x)
  BY <1>3, <1>6, KeysQuit DEF Advanced
<1>7. CASE \E x : \E m \in StrangeLists : Fails(t, x, m)
  <2>1. PICK m \in StrangeLists : agenda'[t] = m
    BY <1>7 DEF Fails, Typed, Shaped
  <2> QED
    BY <1>3, <1>4, <2>1 DEF Advanced
<1> QED
  BY <1>1, <1>5, <1>6, <1>7

\* Every step keeps the invariant.
LEMMA StepKeys ==
    ASSUME Typed, NEW t \in Terminals,
           Step(t) \/ (Interrupt(t) /\ UNCHANGED <<keyVars, projectVars, snapshotVars>>),
           ~raced => Fitting
    PROVE  ~raced' => Fitting'
<1>1. Acts(t) /\ raced' = raced /\ \A u \in Terminals : u # t => km'[u] = km[u]
  <2>1. Acts(t)
    BY StepGoes DEF Interrupt, Acts
  <2>2. DOMAIN km = Terminals
    BY DEF Typed, Shaped
  <2>3. UNCHANGED keyVars => raced' = raced /\ km' = km
    BY DEF keyVars
  <2>4. ASSUME KeysStep(t)
        PROVE  raced' = raced
    <3>1. CASE ManifestStep(t)
      BY <2>3, <3>1 DEF ManifestStep, EnsureFinds, EnsureMisses, Create, CountRun, CountFails,
                        Share, CountEnd, keyFiles
    <3>2. CASE KeyStep(t)
      BY <2>3, <3>2 DEF KeyStep, RootFound, RootMissing, MakeRoot, ConfirmRoot, Unlock,
                        UnlockMisses, Wrap, AllButKeys
    <3>3. CASE SecretStep(t)
      BY <2>3, <3>3 DEF SecretStep, ReadSecrets, WriteSecret, DropSecret, ReadSecret, Decrypt,
                        AllButSecrets
    <3>4. CASE RecoveryStep(t)
      BY <2>3, <3>4 DEF RecoveryStep, CheckRecovery, WriteRecovery, PrintRecovery, OpenRecovery,
                        AllButRecovery
    <3> QED
      BY <2>4, <3>1, <3>2, <3>3, <3>4 DEF KeysStep
  <2>5. CASE MoveAway(t)
    BY <2>1, <2>5 DEF MoveAway
  <2> QED
    BY <2>1, <2>2, <2>3, <2>4, <2>5, KeysMemory DEF Step
<1>2. ASSUME Fitting
      PROVE  Advanced(t)
  <2>1. CASE KeysStep(t)
    BY <1>2, <2>1, ManifestKeys, KeyKeys, SecretKeys, RecoveryKeys DEF KeysStep
  <2>2. CASE MoveAway(t)
    BY <1>2, <2>2, RecoveryKeys
  <2> QED
    BY <1>2, <2>1, <2>2, StrangeKeys DEF Step
<1> QED
  BY <1>1, <1>2, Assembled DEF Advanced

\* The steps of every command find what they need.
LEMMA ProgramsKeyed ==
    ASSUME NEW op \in DOMAIN Program, NEW F \in SUBSET DOMAIN Keys,
           op = "createRecovery" => "creating" \in F
    PROVE  Outline(Program[op], F, {}, Keys)
<1>1. {} \in SUBSET DOMAIN Keys /\ {} \subseteq F
  OBVIOUS
<1>2. ASSUME NEW G \in SUBSET DOMAIN Keys, G \cap {"none", "noroot"} = {},
             NEW H \in SUBSET DOMAIN Keys, H \subseteq G \cup {"seen", "key"}
      PROVE  Outline(UseKey, G, H, Keys)
  <2> DEFINE A == G \cup {"seen"}
             B == A \cup {"root"}
  <2>1. A \in SUBSET DOMAIN Keys /\ B \in SUBSET DOMAIN Keys
    BY DEF Keys
  <2>2. Ready(G, "ensure", Keys) /\ A \subseteq After(G, "ensure", Keys)
    BY <1>2, <2>1 DEF Ready, After, Keys
  <2>3. Ready(A, "root", Keys) /\ B \subseteq After(A, "root", Keys)
    BY <1>2, <2>1 DEF Ready, After, Keys
  <2>4. Ready(B, "unlock", Keys) /\ H \subseteq After(B, "unlock", Keys)
    BY <1>2, <2>1 DEF Ready, After, Keys
  <2>5. "ensure" \in Steps /\ "root" \in Steps /\ "unlock" \in Steps
    BY DEF Steps
  <2> HIDE DEF A, B
  <2> QED
    BY <2>1, <2>2, <2>3, <2>4, <2>5, Three DEF UseKey
<1>3. /\ Outline(<<"ensure">>, F, {}, Keys) /\ Outline(UseKey, F, {}, Keys)
      /\ Outline(Move, F, {}, Keys) /\ Outline(Stop, F, {}, Keys)
      /\ Outline(Restart, F, {}, Keys) /\ Outline(TakeSnapshot, F, {}, Keys)
      /\ Outline(Edit, F, {}, Keys) /\ Outline(Deploy, F, {}, Keys)
      /\ Outline(InstallEntry, F, {}, Keys) /\ Outline(RemoveEntry, F, {}, Keys)
  <2>1. /\ <<"ensure">> \in Seq(Keyless) /\ UseKey \in Seq(Keyless) /\ Move \in Seq(Keyless)
        /\ Stop \in Seq(Keyless) /\ Restart \in Seq(Keyless)
    BY DEF Keyless, UseKey, Move, Stop, Restart
  <2>2. TakeSnapshot \in Seq(Keyless) /\ Edit \in Seq(Keyless)
    BY DEF Keyless, TakeSnapshot, Edit, SnapshotSteps
  <2>3. Deploy \in Seq(Keyless) /\ InstallEntry \in Seq(Keyless) /\ RemoveEntry \in Seq(Keyless)
    BY DEF Keyless, Deploy, InstallEntry, RemoveEntry
  <2> QED
    BY <2>1, <2>2, <2>3, KeylessPlanned
<1>4. Outline(GetSecret, F, {}, Keys) /\ Outline(Rollback, F, {}, Keys)
  <2>1. /\ <<"ensure", "readSecret">> \in Seq(Keyless) /\ <<"decrypt">> \in Seq(Keyless)
        /\ UseKey \in Seq(Keyless) /\ <<"ensure", "find">> \in Seq(Keyless)
    BY DEF Keyless, UseKey, SnapshotSteps
  <2>2. TakeSnapshot \in Seq(Keyless)
    BY DEF Keyless, TakeSnapshot, SnapshotSteps
  <2>3. <<"wasRunning", "halt", "unpack", "revive", "report">> \in Seq(Keyless)
    BY DEF Keyless, SnapshotSteps
  <2>4. \A a, b \in Seq(Keyless) : a \o b \in Seq(Keyless)
    OBVIOUS
  <2>5. GetSecret \in Seq(Keyless)
    BY <2>1, <2>4 DEF GetSecret
  <2>6. <<"ensure", "find">> \o TakeSnapshot \in Seq(Keyless)
    BY <2>1, <2>2, <2>4
  <2>7. Rollback \in Seq(Keyless)
    BY <2>3, <2>4, <2>6 DEF Rollback
  <2> QED
    BY <2>5, <2>7, KeylessPlanned
<1>5. Outline(Publish, F, {}, Keys)
  <2> DEFINE S == {"seen"}
  <2>1. /\ S \in SUBSET DOMAIN Keys /\ "ensure" \in Steps /\ "countRun" \in Steps
        /\ "share" \in Steps /\ "countEnd" \in Steps
    BY DEF Keys, Steps
  <2>2. /\ Ready({}, "ensure", Keys) /\ S \subseteq After({}, "ensure", Keys)
        /\ Ready(S, "ensure", Keys) /\ S \subseteq After(S, "ensure", Keys)
    BY DEF Ready, After, Keys
  <2>3. /\ Ready(S, "countRun", Keys) /\ S \subseteq After(S, "countRun", Keys)
        /\ Ready(S, "share", Keys) /\ S \subseteq After(S, "share", Keys)
    BY DEF Ready, After, Keys
  <2>4. Ready(S, "countEnd", Keys) /\ {} \subseteq After(S, "countEnd", Keys)
    BY DEF Ready, After, Keys
  <2> HIDE DEF S
  <2>5. Outline(<<"ensure", "ensure", "countRun">>, {}, S, Keys)
    BY <1>1, <2>1, <2>2, <2>3, Three
  <2>6. Outline(<<"share", "ensure", "countEnd">>, S, {}, Keys)
    BY <1>1, <2>1, <2>2, <2>3, <2>4, Three
  <2>7. Outline(Publish, {}, {}, Keys)
    BY <2>1, <2>5, <2>6, Six DEF Publish
  <2> QED
    BY <1>1, <2>7, Wider
<1>6. Outline(SetSecret, F, {}, Keys)
  <2> DEFINE S == {"seen", "key"}
             H == {"seen", "key", "held"}
  <2>1. /\ S \in SUBSET DOMAIN Keys /\ H \in SUBSET DOMAIN Keys
        /\ "readSecrets" \in Steps /\ "writeSecret" \in Steps /\ "ensure" \in Steps
        /\ Ready(S, "readSecrets", Keys) /\ H \subseteq After(S, "readSecrets", Keys)
        /\ Ready(H, "writeSecret", Keys) /\ {} \subseteq After(H, "writeSecret", Keys)
        /\ Ready({}, "ensure", Keys)
    BY DEF Keys, Steps, Ready, After
  <2>2. Outline(UseKey, {}, S, Keys)
    BY <1>1, <1>2, <2>1
  <2> HIDE DEF H, S
  <2>3. Outline(<<"readSecrets", "writeSecret">>, S, {}, Keys)
    BY <1>1, <2>1, Two
  <2>4. Outline(<<"ensure">>, {}, {}, Keys)
    BY <1>1, <2>1, One
  <2>5. Outline(<<"ensure">> \o UseKey, {}, S, Keys)
    BY <2>2, <2>4, Join
  <2>6. Outline((<<"ensure">> \o UseKey) \o <<"readSecrets", "writeSecret">>, {}, {}, Keys)
    BY <2>3, <2>5, Join
  <2> QED
    BY <1>1, <2>6, Wider DEF SetSecret
<1>7. Outline(DeleteSecret, F, {}, Keys)
  <2> DEFINE H == {"held"}
  <2>1. /\ H \in SUBSET DOMAIN Keys /\ "readSecrets" \in Steps /\ "dropSecret" \in Steps
        /\ Ready({}, "readSecrets", Keys) /\ H \subseteq After({}, "readSecrets", Keys)
        /\ Ready(H, "dropSecret", Keys) /\ {} \subseteq After(H, "dropSecret", Keys)
    BY DEF Keys, Steps, Ready, After
  <2> HIDE DEF H
  <2>2. Outline(DeleteSecret, {}, {}, Keys)
    BY <1>1, <2>1, Two DEF DeleteSecret
  <2> QED
    BY <1>1, <2>2, Wider
<1>8. op = "createRecovery" => Outline(CreateRecovery, F, {}, Keys)
  <2> DEFINE C == {"creating"}
             R == {"free"}
             S == {"free", "seen", "key"}
             L == {"lock"}
  <2>1. /\ C \in SUBSET DOMAIN Keys /\ R \in SUBSET DOMAIN Keys /\ S \in SUBSET DOMAIN Keys
        /\ L \in SUBSET DOMAIN Keys /\ "ensure" \in Steps /\ "checkRecovery" \in Steps
        /\ "writeRecovery" \in Steps /\ "printRecovery" \in Steps
    BY DEF Keys, Steps
  <2>2. /\ Ready(C, "ensure", Keys) /\ C \subseteq After(C, "ensure", Keys)
        /\ Ready(C, "checkRecovery", Keys) /\ R \subseteq After(C, "checkRecovery", Keys)
        /\ Ready(S, "writeRecovery", Keys) /\ L \subseteq After(S, "writeRecovery", Keys)
        /\ Ready(L, "printRecovery", Keys) /\ {} \subseteq After(L, "printRecovery", Keys)
    BY DEF Keys, Steps, Ready, After
  <2>3. Outline(UseKey, R, S, Keys)
    BY <1>2, <2>1
  <2>4. "creating" \in F => C \subseteq F
    OBVIOUS
  <2> HIDE DEF C, R, S, L
  <2>5. Outline(<<"writeRecovery", "printRecovery">>, S, {}, Keys)
    BY <1>1, <2>1, <2>2, Two
  <2>6. Outline(<<"ensure", "checkRecovery">>, C, R, Keys)
    BY <2>1, <2>2, Two
  <2>7. Outline(<<"ensure", "checkRecovery">> \o UseKey, C, S, Keys)
    BY <2>3, <2>6, Join
  <2>8. Outline((<<"ensure", "checkRecovery">> \o UseKey) \o <<"writeRecovery", "printRecovery">>,
                C, {}, Keys)
    BY <2>5, <2>7, Join
  <2> QED
    BY <2>4, <2>8, Wider DEF CreateRecovery
<1>9. Outline(UseRecovery, F, {}, Keys)
  <2> DEFINE K == {"key", "wrapkey"}
  <2>1. /\ K \in SUBSET DOMAIN Keys /\ "ensure" \in Steps /\ "openRecovery" \in Steps
        /\ "root" \in Steps /\ "wrap" \in Steps
        /\ Ready({}, "ensure", Keys) /\ {} \subseteq After({}, "ensure", Keys)
        /\ Ready({}, "openRecovery", Keys) /\ K \subseteq After({}, "openRecovery", Keys)
        /\ "wrapkey" \in K
    BY DEF Keys, Steps, Ready, After
  <2> HIDE DEF K
  <2>2. Outline(<<"ensure", "openRecovery">>, {}, K, Keys)
    BY <1>1, <2>1, Two
  <2>3. Outline(<<"ensure", "root", "wrap">>, K, {}, Keys)
    BY <1>1, <2>1, RewrapKeys
  <2>4. Outline(UseRecovery, {}, {}, Keys)
    BY <2>1, <2>2, <2>3, Five DEF UseRecovery
  <2> QED
    BY <1>1, <2>4, Wider
<1>10. op \in {"init", "publish", "secureInit", "setSecret", "getSecret", "deleteSecret",
                "createRecovery", "useRecovery", "move", "deploy", "stop", "restart",
                "installEntry", "removeEntry", "snapshot", "rollback", "edit"}
  BY DEF Program
<1>11. \/ op = "createRecovery" /\ Program[op] = CreateRecovery
       \/ Program[op] \in {<<"ensure">>, Publish, UseKey, SetSecret, GetSecret, DeleteSecret,
                           UseRecovery, Move, Deploy, Stop, Restart, InstallEntry, RemoveEntry,
                           TakeSnapshot, Rollback, Edit}
  BY <1>10 DEF Program
<1> QED
  BY <1>3, <1>4, <1>5, <1>6, <1>7, <1>8, <1>9, <1>11

\* A command that begins keeps the invariant, or races for a key.
LEMMA BeginKeys ==
    ASSUME Typed, NEW t \in Terminals, Begin(t), ~raced => Fitting
    PROVE  ~raced' => Fitting'
<1> DEFINE c == Head(script[t])
<1>1. /\ ~Busy(t) /\ script[t] # <<>> /\ c \in Commands
      /\ cmd' = [cmd EXCEPT ![t] = c] /\ agenda' = [agenda EXCEPT ![t] = Program[c.op]]
      /\ km' = [km EXCEPT ![t] = Blank]
      /\ raced' = (raced \/ \E u \in Terminals : Busy(u) /\ Contend(cmd[u], c))
      /\ UNCHANGED <<manifest, root, retired, appKey, secrets, recovery, printed>>
  BY DEF Begin, Type, KeysBegin, Typed, Shaped
<1> HIDE DEF c
<1>2. /\ cmd'[t] = c /\ agenda'[t] = Program[c.op] /\ km'[t] = Blank
      /\ \A u \in Terminals : u # t =>
            cmd'[u] = cmd[u] /\ agenda'[u] = agenda[u] /\ km'[u] = km[u]
  BY <1>1 DEF Typed, Shaped
<1> SUFFICES ASSUME ~raced' PROVE Fitting'
  OBVIOUS
<1>3. Fitting /\ \A u \in Terminals : Busy(u) => ~Contend(cmd[u], c)
  BY <1>1 DEF Typed, TypeOK, KeysTypeOK
<1>4. ASSUME NEW u \in Terminals, u # t
      PROVE  KnownKeys(u)' = KnownKeys(u) /\ In(u)' = In(u) /\ (Busy(u)' <=> Busy(u))
             /\ (Named(u)' <=> Named(u))
  BY <1>1, <1>2, <1>4 DEF KnownKeys, Fits, In, Busy, Named
<1>5. KeysPlanned'
  <2>1. KnownKeys(t)' \in SUBSET DOMAIN Keys
    BY DEF KnownKeys
  <2>2. c.op = "createRecovery" => "creating" \in KnownKeys(t)'
    BY <1>2 DEF KnownKeys, Keys
  <2>3. Outline(agenda'[t], KnownKeys(t)', {}, Keys)
    BY <1>1, <1>2, <2>1, <2>2, CommandsAreKnown, ProgramsKeyed
  <2> QED
    BY <1>2, <1>3, <1>4, <2>3 DEF Fitting, KeysPlanned
<1>6. Apart'
  <2>1. ASSUME NEW u \in Terminals, u # t, Busy(u)
        PROVE  /\ root # None
               /\ In(u) = c.in =>
                    /\ manifest[In(u)] # None /\ appKey[In(u)] # None
                    /\ ~(cmd[u].op = "createRecovery" /\ c.op = "createRecovery")
    BY <1>3, <2>1 DEF Contend, In
  <2>2. In(t)' = c.in
    BY <1>2 DEF In
  <2>3. ASSUME NEW u \in Terminals, NEW v \in Terminals, u # v, Busy(u)', Busy(v)'
        PROVE  /\ root' # None
               /\ In(u)' = In(v)' =>
                    /\ manifest'[In(u)'] # None /\ appKey'[In(u)'] # None
                    /\ ~(cmd'[u].op = "createRecovery" /\ cmd'[v].op = "createRecovery")
    <3>1. CASE u = t
      BY <1>1, <1>2, <1>4, <2>1, <2>2, <2>3, <3>1
    <3>2. CASE v = t
      BY <1>1, <1>2, <1>4, <2>1, <2>2, <2>3, <3>2
    <3>3. CASE u # t /\ v # t
      BY <1>1, <1>2, <1>3, <1>4, <2>3, <3>3 DEF Fitting, Apart
    <3> QED
      BY <3>1, <3>2, <3>3
  <2> QED
    BY <2>3 DEF Apart
<1>7. \A u \in Terminals : Busy(u)' => Named(u)'
  <2>1. Named(t)'
    BY <1>2 DEF Named, Blank
  <2> QED
    BY <1>3, <1>4, <2>1 DEF Fitting
<1>8. Shown' /\ \A p \in Projects : Opening(p)'
  BY <1>1, <1>3, SameFiles
<1> QED
  BY <1>5, <1>6, <1>7, <1>8 DEF Fitting

\* Nothing happening keeps it.
LEMMA StutterKeys ==
    ASSUME Typed, UNCHANGED vars, ~raced => Fitting
    PROVE  ~raced' => Fitting'
<1>1. UNCHANGED <<manifest, root, retired, appKey, secrets, recovery, printed, km, raced, agenda, cmd>>
  BY DEF vars, terminalVars, keyVars
<1>2. \A t \in Terminals : KnownKeys(t)' = KnownKeys(t) /\ (Busy(t)' <=> Busy(t)) /\ In(t)' = In(t)
  BY <1>1 DEF KnownKeys, Fits, Busy, In
<1>3. \A p \in Projects : Opening(p)' <=> Opening(p)
  BY <1>1 DEF Opening, Fits
<1>4. (KeysPlanned' <=> KeysPlanned) /\ (Shown' <=> Shown)
  BY <1>1, <1>2 DEF KeysPlanned, Shown
<1>5. Apart' <=> Apart
  BY <1>1, <1>2 DEF Apart
<1>6. \A t \in Terminals : Named(t)' <=> Named(t)
  BY <1>1, <1>2 DEF Named
<1> QED
  BY <1>1, <1>2, <1>3, <1>4, <1>5, <1>6 DEF Fitting

\* It holds at first ...
LEMMA InitKeys ==
    ASSUME Init
    PROVE  Fitting
<1>1. \A t \in Terminals : agenda[t] = <<>> /\ ~Busy(t)
  BY DEF Init, TerminalsInit, Busy
<1>2. KeysPlanned
  BY <1>1, Empty DEF KeysPlanned, KnownKeys
<1>3. Shown /\ \A p \in Projects : Opening(p)
  BY DEF Init, KeysInit, Shown, Opening, NoSecrets
<1> QED
  BY <1>1, <1>2, <1>3 DEF Fitting, Apart

\* ... and ever after.
LEMMA KeysInvariance == Spec => [](Typed /\ (~raced => Fitting))
<1>1. Typed /\ (~raced => Fitting) /\ [Next]_vars => (~raced => Fitting)'
  BY BeginKeys, StepKeys, StutterKeys DEF Next
<1>2. Init => Typed /\ (~raced => Fitting)
  BY InitTypes, InitKeys
<1> QED
  BY <1>1, <1>2, TypesInvariance, PTL DEF Spec

\* Every secret of a project opens, and its app key is bound to the identity it has and
\* wrapped by a root key that the device or one before it holds (app_keys.py 40-69,
\* secrets.py 51-107): commands may overlap and be interrupted between any two steps, as
\* long as none runs while another one makes an identity or a key that it uses.
THEOREM AllSecretsOpen == Spec => []SecretsOpen
<1>1. Typed /\ (~raced => Fitting) => SecretsOpen
  BY DEF SecretsOpen, Fitting, Opening, Fits
<1> QED
  BY <1>1, KeysInvariance, PTL

\* A recovery key that was ever shown opens the envelope, and what it opens is the app
\* key in use (recovery.py 54-104), even after a move to another device.
THEOREM RecoveryKeysRecover == Spec => []PrintedKeysRecover
<1>1. ASSUME Typed, Fitting, NEW k \in printed
      PROVE  /\ appKey[k.in] # None
             /\ recovery[k.in] = [app |-> manifest[k.in].id, lock |-> k.lock,
                                  key |-> appKey[k.in].key]
  <2>1. recovery[k.in] # None /\ recovery[k.in].lock = k.lock
    BY <1>1 DEF Fitting, Shown
  <2>2. k.in \in Projects /\ recovery[k.in] \in Recoveries
    BY <1>1, <2>1 DEF Typed, TypeOK, KeysTypeOK
  <2>3. /\ appKey[k.in] # None /\ recovery[k.in].app = manifest[k.in].id
        /\ recovery[k.in].key = appKey[k.in].key
    BY <1>1, <2>1, <2>2 DEF Fitting, Opening
  <2> QED
    BY <2>1, <2>2, <2>3 DEF Recoveries
<1>2. Typed /\ (~raced => Fitting) => PrintedKeysRecover
  BY <1>1 DEF PrintedKeysRecover
<1> QED
  BY <1>2, KeysInvariance, PTL

=============================================================================

------------------------------ MODULE AppKeys ------------------------------
(***************************************************************************)
(* What a project keeps about itself and under encryption: its identity    *)
(* and publish history (minit/state.py, cli.py), the root key of the       *)
(* device in the operating system's key store (key_store.py), the app key  *)
(* wrapped by it (app_keys.py), secrets encrypted under the app key        *)
(* (secrets.py), and a recovery key that the user holds (recovery.py).     *)
(*                                                                         *)
(* An envelope is a record of what it contains and of the key it opens     *)
(* with: decryption with another key raises an exception (crypto.py).      *)
(***************************************************************************)
EXTENDS Terminals

CONSTANT Names          \* of secrets

VARIABLES
    manifest,       \* app.json: the identity and the publish history
    root,           \* the root key in the key store of the device
    retired,        \* the root keys of devices the user has left
    appKey,         \* app-key.json
    secrets,        \* secrets.json
    recovery,       \* recovery.json
    printed,        \* the recovery keys that were shown to the user
    runs,           \* publications counted, per project
    km,             \* what the commands remember
    raced           \* has a command run while another one made keys it uses?

keyVars == <<manifest, root, retired, appKey, secrets, recovery, printed, runs, km, raced>>
keyFiles == <<root, retired, appKey, secrets, recovery, printed, raced>>

\* What is in the files: app.json, app-key.json, a secret, recovery.json.
Manifests == [id : Tags, runs : Nat, ends : Nat]
WrappedKeys == [app : Tags, root : Tags, key : Tags]
Envelopes == [app : Tags, key : Tags]
Recoveries == [app : Tags, lock : Tags, key : Tags]

ASSUME NoneIsNoEnvelope ==
    None \notin Manifests /\ None \notin WrappedKeys /\ None \notin Envelopes
    /\ None \notin Recoveries

\* app is the identity the command saw first, seen the manifest it loaded last.
Blank == [app |-> None, seen |-> None, root |-> None, key |-> None, lock |-> None,
          held |-> None]

NoSecrets == [s \in Names |-> None]

KeysInit ==
    /\ manifest = [p \in Projects |-> None]
    /\ root = None
    /\ retired = {}
    /\ appKey = [p \in Projects |-> None]
    /\ secrets = [p \in Projects |-> NoSecrets]
    /\ recovery = [p \in Projects |-> None]
    /\ printed = {}
    /\ runs = [p \in Projects |-> 0]
    /\ km = [t \in Terminals |-> Blank]
    /\ raced = FALSE

-----------------------------------------------------------------------------
(* The agendas *)

UseKey == <<"ensure", "root", "unlock">>
SetSecret == <<"ensure">> \o UseKey \o <<"readSecrets", "writeSecret">>
GetSecret == <<"ensure", "readSecret">> \o UseKey \o <<"decrypt">>
DeleteSecret == <<"readSecrets", "dropSecret">>

\* Variant: the envelope is written before the app key has been unlocked.
CreateRecoveryTooSoon ==
    <<"ensure", "checkRecovery", "writeRecovery">> \o UseKey \o <<"printRecovery">>

CreateRecovery ==
    <<"ensure", "checkRecovery">> \o UseKey \o <<"writeRecovery", "printRecovery">>

UseRecovery == <<"ensure", "openRecovery", "ensure", "root", "wrap">>
Publish == <<"ensure", "ensure", "countRun", "share", "ensure", "countEnd">>
Move == <<"move">>

-----------------------------------------------------------------------------
(* state.py *)

Seen(t, m) ==
    km' = [km EXCEPT ![t].seen = m, ![t].app = IF @ = None THEN m.id ELSE @]

EnsureFinds(t) ==
    /\ Do(t, "ensure", <<>>)
    /\ manifest[In(t)] # None
    /\ Seen(t, manifest[In(t)])
    /\ UNCHANGED <<manifest, runs, keyFiles>>

EnsureMisses(t) ==
    /\ Do(t, "ensure", <<"create">>)
    /\ manifest[In(t)] = None
    /\ UNCHANGED keyVars

\* create_manifest: written over whatever has come since.
Create(t) ==
    /\ Do(t, "create", <<>>)
    /\ manifest' = [manifest EXCEPT ![In(t)] = [id |-> Fresh(t), runs |-> 0, ends |-> 0]]
    /\ Seen(t, manifest'[In(t)])
    /\ UNCHANGED <<runs, keyFiles>>

\* record_publish_start: the manifest as it was loaded, with one run more.
CountRun(t) ==
    /\ Do(t, "countRun", <<>>)
    /\ manifest' = [manifest EXCEPT ![In(t)] = [km[t].seen EXCEPT !.runs = @ + 1]]
    /\ runs' = [runs EXCEPT ![In(t)] = @ + 1]
    /\ UNCHANGED <<km, keyFiles>>

\* The history never blocks publishing; what was not begun is not ended.
CountFails(t) ==
    /\ Fails(t, "countRun", <<"share">>)
    /\ UNCHANGED keyVars

\* The public link is up until the user stops it.
Share(t) ==
    /\ Do(t, "share", <<>>)
    /\ UNCHANGED keyVars

\* record_publish_stop.
CountEnd(t) ==
    /\ Do(t, "countEnd", <<>>)
    /\ manifest' = [manifest EXCEPT ![In(t)] = [km[t].seen EXCEPT !.ends = @ + 1]]
    /\ UNCHANGED <<km, runs, keyFiles>>

ManifestStep(t) ==
    \/ EnsureFinds(t) \/ EnsureMisses(t) \/ Create(t)
    \/ CountRun(t) \/ CountFails(t) \/ Share(t) \/ CountEnd(t)

-----------------------------------------------------------------------------
(* key_store.py and app_keys.py *)

AllButKeys == <<manifest, runs, retired, secrets, recovery, printed, raced>>

RootFound(t) ==
    /\ Do(t, "root", <<>>)
    /\ root # None
    /\ km' = [km EXCEPT ![t].root = root]
    /\ UNCHANGED <<root, appKey, AllButKeys>>

RootMissing(t) ==
    /\ Do(t, "root", <<"makeRoot", "confirmRoot">>)
    /\ root = None
    /\ km' = [km EXCEPT ![t].root = Fresh(t)]
    /\ UNCHANGED <<root, appKey, AllButKeys>>

MakeRoot(t) ==
    /\ Do(t, "makeRoot", <<>>)
    /\ root' = km[t].root
    /\ UNCHANGED <<km, appKey, AllButKeys>>

\* "Read-after-write catches degenerate backends".
ConfirmRoot(t) ==
    /\ IF root = km[t].root THEN Do(t, "confirmRoot", <<>>) ELSE Quit(t, "confirmRoot")
    /\ UNCHANGED keyVars

\* Variant: an app key that cannot be unlocked is replaced.
UnlockOrReplace(t) ==
    /\ At(t, "unlock") /\ appKey[In(t)] # None
    /\ IF appKey[In(t)].root = km[t].root
       THEN /\ Do(t, "unlock", <<>>)
            /\ km' = [km EXCEPT ![t].key = appKey[In(t)].key]
       ELSE /\ Do(t, "unlock", <<"ensure", "root", "wrap">>)
            /\ km' = [km EXCEPT ![t].key = Fresh(t)]
    /\ UNCHANGED <<root, appKey, AllButKeys>>

\* It opens only for this identity, under the root key of this device.
Unlock(t) ==
    /\ At(t, "unlock") /\ appKey[In(t)] # None
    /\ IF appKey[In(t)].app = km[t].seen.id /\ appKey[In(t)].root = km[t].root
       THEN /\ Do(t, "unlock", <<>>)
            /\ km' = [km EXCEPT ![t].key = appKey[In(t)].key]
       ELSE Quit(t, "unlock") /\ UNCHANGED km
    /\ UNCHANGED <<root, appKey, AllButKeys>>

UnlockMisses(t) ==
    /\ Do(t, "unlock", <<"ensure", "root", "wrap">>)
    /\ appKey[In(t)] = None
    /\ km' = [km EXCEPT ![t].key = Fresh(t)]
    /\ UNCHANGED <<root, appKey, AllButKeys>>

\* wrap_app_key_for_device: written over whatever has come since.
Wrap(t) ==
    /\ Do(t, "wrap", <<>>)
    /\ appKey' = [appKey EXCEPT ![In(t)] =
                    [app |-> km[t].seen.id, root |-> km[t].root, key |-> km[t].key]]
    /\ UNCHANGED <<root, km, AllButKeys>>

KeyStep(t) ==
    \/ RootFound(t) \/ RootMissing(t) \/ MakeRoot(t) \/ ConfirmRoot(t)
        \/ Unlock(t) \/ UnlockMisses(t) \/ Wrap(t)

-----------------------------------------------------------------------------
(* secrets.py; what is held is the whole file *)

AllButSecrets == <<manifest, runs, root, retired, appKey, recovery, printed, raced>>

ReadSecrets(t) ==
    /\ Do(t, "readSecrets", <<>>)
    /\ km' = [km EXCEPT ![t].held = secrets[In(t)]]
    /\ UNCHANGED <<secrets, AllButSecrets>>

WriteSecret(t) ==
    /\ Do(t, "writeSecret", <<>>)
    /\ secrets' = [secrets EXCEPT ![In(t)] =
                    [km[t].held EXCEPT ![Arg(t)] = [app |-> km[t].app, key |-> km[t].key]]]
    /\ UNCHANGED <<km, AllButSecrets>>

DropSecret(t) ==
    /\ Do(t, "dropSecret", <<>>)
    /\ secrets' = IF km[t].held[Arg(t)] = None THEN secrets
                  ELSE [secrets EXCEPT ![In(t)] = [km[t].held EXCEPT ![Arg(t)] = None]]
    /\ UNCHANGED <<km, AllButSecrets>>

\* get_secret: there is none, or it is bound to another identity, or it is held ...
ReadSecret(t) ==
    LET envelope == secrets[In(t)][Arg(t)] IN
    /\ At(t, "readSecret")
    /\ IF envelope # None /\ envelope.app = km[t].app
       THEN Do(t, "readSecret", <<>>)
       ELSE Quit(t, "readSecret")
    /\ km' = [km EXCEPT ![t].held = envelope]
    /\ UNCHANGED <<secrets, AllButSecrets>>

\* ... and decrypted, or not.
Decrypt(t) ==
    /\ At(t, "decrypt")
    /\ IF km[t].held.key = km[t].key THEN Do(t, "decrypt", <<>>) ELSE Quit(t, "decrypt")
    /\ UNCHANGED keyVars

SecretStep(t) ==
    ReadSecrets(t) \/ WriteSecret(t) \/ DropSecret(t) \/ ReadSecret(t) \/ Decrypt(t)

-----------------------------------------------------------------------------
(* recovery.py, and a new device *)

AllButRecovery == <<manifest, runs, root, retired, appKey, secrets, raced>>

\* Variant: a second recovery key replaces the first.
CheckNoRecovery(t) ==
    /\ Do(t, "checkRecovery", <<>>)
    /\ UNCHANGED keyVars

CheckRecovery(t) ==
    /\ At(t, "checkRecovery")
    /\ IF recovery[In(t)] = None
       THEN Do(t, "checkRecovery", <<>>)
       ELSE Quit(t, "checkRecovery")
    /\ UNCHANGED keyVars

WriteRecovery(t) ==
    /\ Do(t, "writeRecovery", <<>>)
    /\ km' = [km EXCEPT ![t].lock = Fresh(t)]
    /\ recovery' = [recovery EXCEPT ![In(t)] =
                    [app |-> km[t].app, lock |-> Fresh(t), key |-> km[t].key]]
    /\ UNCHANGED <<printed, AllButRecovery>>

PrintRecovery(t) ==
    /\ Do(t, "printRecovery", <<>>)
    /\ printed' = printed \cup {[in |-> In(t), lock |-> km[t].lock]}
    /\ UNCHANGED <<recovery, km, AllButRecovery>>

\* The user enters one of the keys seen, or anything else (None).
OpenRecovery(t) ==
    LET envelope == recovery[In(t)] IN
    /\ At(t, "openRecovery")
    /\ \E entered \in {k.lock : k \in printed} \cup {None} :
        IF envelope # None /\ envelope.app = km[t].app /\ envelope.lock = entered
        THEN /\ Do(t, "openRecovery", <<>>)
             /\ km' = [km EXCEPT ![t].key = envelope.key]
        ELSE Quit(t, "openRecovery") /\ UNCHANGED km
    /\ UNCHANGED <<recovery, printed, AllButRecovery>>

\* The projects are moved to another device, whose key store is empty.
MoveAway(t) ==
    /\ Do(t, "move", <<>>)
    /\ \A u \in Terminals \ {t} : ~Busy(u)
    /\ root' = None
    /\ retired' = retired \cup ({root} \ {None})
    /\ UNCHANGED <<manifest, runs, appKey, secrets, recovery, printed, km, raced>>

RecoveryStep(t) ==
    CheckRecovery(t) \/ WriteRecovery(t) \/ PrintRecovery(t) \/ OpenRecovery(t)

-----------------------------------------------------------------------------

KeysStep(t) == ManifestStep(t) \/ KeyStep(t) \/ SecretStep(t) \/ RecoveryStep(t)

\* One of two commands would make what the other one uses: a root key, or in one project
\* an identity, an app key or a recovery key.
Contend(c, d) ==
    \/ root = None
    \/ c.in = d.in /\ \/ manifest[c.in] = None
                      \/ appKey[c.in] = None
                      \/ c.op = "createRecovery" /\ d.op = "createRecovery"

\* A command begins with an empty memory.
KeysBegin(t) ==
    /\ km' = [km EXCEPT ![t] = Blank]
    /\ raced' = (raced \/ \E u \in Terminals : Busy(u) /\ Contend(cmd[u], Head(script[t])))
    /\ UNCHANGED <<manifest, root, retired, appKey, secrets, recovery, printed, runs>>

-----------------------------------------------------------------------------
(* Properties *)

KeysTypeOK ==
    /\ manifest \in [Projects -> Manifests \cup {None}]
    /\ root \in Tags \cup {None}
    /\ retired \subseteq Tags
    /\ appKey \in [Projects -> WrappedKeys \cup {None}]
    /\ secrets \in [Projects -> [Names -> Envelopes \cup {None}]]
    /\ recovery \in [Projects -> Recoveries \cup {None}]
    /\ printed \subseteq [in : Projects, lock : Tags]
    /\ runs \in [Projects -> Nat]
    /\ raced \in BOOLEAN
    /\ \A t \in Terminals :
        /\ DOMAIN km[t] = DOMAIN Blank
        /\ km[t].seen \in Manifests \cup {None}
        /\ {km[t].app, km[t].root, km[t].key, km[t].lock} \subseteq Tags \cup {None}

\* Commands may overlap, be interrupted, and go on on another device, as long as they do
\* not make the same keys at once: the app key is bound to the project's identity and to
\* a root key that is in the key store or was left with a device, and every secret opens
\* under it (secrets.py 51-107, app_keys.py 40-69).
SecretsOpen ==
    ~raced => \A p \in Projects :
        /\ appKey[p] # None =>
            /\ manifest[p] # None /\ appKey[p].app = manifest[p].id
            /\ appKey[p].root \in {root} \cup retired
        /\ \A s \in Names : secrets[p][s] # None =>
            /\ appKey[p] # None
            /\ secrets[p][s] = [app |-> manifest[p].id, key |-> appKey[p].key]

\* Every recovery key the user was ever shown recovers the app key ("refusing to
\* invalidate the existing recovery key", recovery.py 54-76).
PrintedKeysRecover ==
    ~raced => \A k \in printed :
        /\ appKey[k.in] # None
        /\ recovery[k.in] = [app |-> manifest[k.in].id, lock |-> k.lock,
                             key |-> appKey[k.in].key]

\* A project has a recovery envelope only if the user has its key, is about to see it, or
\* was interrupted before: nothing can replace an envelope whose key nobody saw
\* (recovery.py 62-76).
RecoveryIsHeld ==
    \A p \in Projects : recovery[p] # None =>
        \/ [in |-> p, lock |-> recovery[p].lock] \in printed
        \/ faults > 0
        \/ \E t \in Terminals : At(t, "printRecovery") /\ km[t].lock = recovery[p].lock
=============================================================================

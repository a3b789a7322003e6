------------------------------ MODULE Projects ------------------------------
(***************************************************************************)
(* The services of several projects on one computer: deploy with the       *)
(* choice of a port (minit/main.py, detection.py, ports.py), the service   *)
(* specification (service.py), the registry (registry.py), the login       *)
(* entry (autostart.py), and starting and stopping, whose steps            *)
(* LocalRuntime has.                                                       *)
(*                                                                         *)
(* deploy takes a port from its argument (--port, or one fixed in the      *)
(* app's source), or chooses one (argument 0).  The identity of a project  *)
(* is AppKeys' business: here the entries of the registry are of project   *)
(* directories.                                                            *)
(***************************************************************************)
EXTENDS Terminals

CONSTANT LastPort       \* choices range from 1, the preferred port, to LastPort

Ports == 1..LastPort

Specs == [port : Ports, autostart : BOOLEAN]

ASSUME PortsAreNatural == LastPort \in Nat

ASSUME NoneIsNoPort == None \notin Ports /\ None \notin Specs

VARIABLES
    spec,           \* service.json: port and autostart
    svc,            \* the port of the running service, or None
    unit,           \* is the login entry installed?
    registry,       \* registry.json: the port of each registered project
    requested,      \* the projects that were deployed with a given port
    moved,          \* have the projects come from another device?
    pm              \* what the commands remember

projectVars == <<spec, svc, unit, registry, requested, moved, pm>>

NoMemory == [port |-> None, taken |-> {}, spec |-> None, apps |-> None]

ProjectsInit ==
    /\ spec = [p \in Projects |-> None]
    /\ svc = [p \in Projects |-> None]
    /\ unit = [p \in Projects |-> FALSE]
    /\ registry = [p \in Projects |-> None]
    /\ requested = {}
    /\ moved = FALSE
    /\ pm = [t \in Terminals |-> NoMemory]

Remember(t, field, value) == pm' = [pm EXCEPT ![t] = [@ EXCEPT ![field] = value]]

-----------------------------------------------------------------------------
(* The agendas; ensure is AppKeys' *)

Launch == <<"open", "ensure", "configure", "start">>
Register == <<"readEntry", "readRegistry", "saveRegistry">>
Deploy == <<"detect">>
Stop == <<"stop">>
Restart == <<"stop", "start">>
InstallEntry == <<"readSpec", "writeUnit", "readSpec", "markSpec">>
RemoveEntry == <<"readSpec", "removeUnit", "readSpec", "clearSpec">>

-----------------------------------------------------------------------------
(* deploy *)

\* detect_deploy_plan: a given port is taken as it is.
DetectGiven(t) ==
    /\ At(t, "detect") /\ Arg(t) # 0
    /\ Do(t, "detect", Launch \o Register)
    /\ Remember(t, "port", Arg(t))
    /\ requested' = requested \cup {In(t)}
    /\ UNCHANGED <<spec, svc, unit, registry, moved>>

\* An existing specification is used again.
DetectExisting(t) ==
    /\ At(t, "detect") /\ Arg(t) = 0
    /\ spec[In(t)] # None
    /\ Do(t, "detect", <<"running">>)
    /\ Remember(t, "port", spec[In(t)].port)
    /\ UNCHANGED <<spec, svc, unit, registry, requested, moved>>

DetectNew(t) ==
    /\ At(t, "detect") /\ Arg(t) = 0
    /\ spec[In(t)] = None
    /\ Do(t, "detect", <<"reserve", "probe">> \o Launch \o Register)
    /\ UNCHANGED projectVars

\* runtime_is_running: then there is only the registration to do.
Running(t) ==
    /\ At(t, "running")
    /\ Do(t, "running", IF svc[In(t)] = None THEN Launch \o Register ELSE Register)
    /\ UNCHANGED projectVars

Reserved(p) == {registry[q] : q \in Projects \ {p}} \ {None}

\* Variant: only ports that are in use are left out.
ReserveNothing(t) ==
    /\ Do(t, "reserve", <<>>)
    /\ UNCHANGED projectVars

Reserve(t) ==
    /\ Do(t, "reserve", <<>>)
    /\ Remember(t, "taken", Reserved(In(t)))
    /\ UNCHANGED <<spec, svc, unit, registry, requested, moved>>

Bound(port) == \E q \in Projects : svc[q] = port

Free(t) == {port \in Ports \ pm[t].taken : ~Bound(port)}

\* choose_available_port: the first one that can be bound.
Probe(t) ==
    /\ IF Free(t) = {}
       THEN Quit(t, "probe") /\ UNCHANGED pm
       ELSE /\ Do(t, "probe", <<>>)
            /\ Remember(t, "port", CHOOSE port \in Free(t) : \A other \in Free(t) : port <= other)
    /\ UNCHANGED <<spec, svc, unit, registry, requested, moved>>

\* _port_open.
Open(t) ==
    /\ IF Bound(pm[t].port) THEN Quit(t, "open") ELSE Do(t, "open", <<>>)
    /\ UNCHANGED projectVars

\* configure_local_service: a new specification, whatever there was.
Configure(t) ==
    /\ Do(t, "configure", <<>>)
    /\ spec' = [spec EXCEPT ![In(t)] = [port |-> pm[t].port, autostart |-> FALSE]]
    /\ UNCHANGED <<svc, unit, registry, requested, moved, pm>>

\* start_local_service: an error if the service runs, or there is nothing to run; the app
\* may come up behind another one that has its port, or be found to have exited.
Start(t) ==
    LET p == In(t) IN
    /\ At(t, "start")
    /\ \/ /\ spec[p] # None /\ svc[p] = None
          /\ Do(t, "start", <<>>)
          /\ svc' = [svc EXCEPT ![p] = spec[p].port]
       \/ /\ spec[p] # None /\ svc[p] = None => Bound(spec[p].port)
          /\ Quit(t, "start")
          /\ UNCHANGED svc
    /\ UNCHANGED <<spec, unit, registry, requested, moved, pm>>

\* The wait for the app is interrupted, or too short: it comes up all the same.
StartTimesOut(t) ==
    /\ Fails(t, "start", <<>>)
    /\ spec[In(t)] # None /\ svc[In(t)] = None
    /\ svc' = [svc EXCEPT ![In(t)] = spec[In(t)].port]
    /\ UNCHANGED <<spec, unit, registry, requested, moved, pm>>

StopService(t) ==
    /\ Do(t, "stop", <<>>)
    /\ svc' = [svc EXCEPT ![In(t)] = None]
    /\ UNCHANGED <<spec, unit, registry, requested, moved, pm>>

-----------------------------------------------------------------------------
(* register_project: best effort, so an error ends no more than the command would *)

ReadEntry(t) ==
    /\ At(t, "readEntry")
    /\ IF spec[In(t)] = None
       THEN Quit(t, "readEntry") /\ UNCHANGED pm
       ELSE Do(t, "readEntry", <<>>) /\ Remember(t, "port", spec[In(t)].port)
    /\ UNCHANGED <<spec, svc, unit, registry, requested, moved>>

ReadRegistry(t) ==
    /\ Do(t, "readRegistry", <<>>)
    /\ Remember(t, "apps", registry)
    /\ UNCHANGED <<spec, svc, unit, registry, requested, moved>>

\* Variant: only the project's own entry is written.
SaveOnlyOwn(t) ==
    /\ Do(t, "saveRegistry", <<>>)
    /\ registry' = [p \in Projects |-> IF p = In(t) THEN pm[t].port ELSE None]
    /\ UNCHANGED <<spec, svc, unit, requested, moved, pm>>

SaveRegistry(t) ==
    /\ Do(t, "saveRegistry", <<>>)
    /\ registry' = [pm[t].apps EXCEPT ![In(t)] = pm[t].port]
    /\ UNCHANGED <<spec, svc, unit, requested, moved, pm>>

-----------------------------------------------------------------------------
(* enable_autostart and disable_autostart *)

ReadSpec(t) ==
    /\ At(t, "readSpec")
    /\ IF spec[In(t)] = None
       THEN Quit(t, "readSpec") /\ UNCHANGED pm
       ELSE Do(t, "readSpec", <<>>) /\ Remember(t, "spec", spec[In(t)])
    /\ UNCHANGED <<spec, svc, unit, registry, requested, moved>>

WriteUnit(t) ==
    /\ Do(t, "writeUnit", <<>>)
    /\ unit' = [unit EXCEPT ![In(t)] = TRUE]
    /\ UNCHANGED <<spec, svc, registry, requested, moved, pm>>

RemoveUnit(t) ==
    /\ Do(t, "removeUnit", <<>>)
    /\ unit' = [unit EXCEPT ![In(t)] = FALSE]
    /\ UNCHANGED <<spec, svc, registry, requested, moved, pm>>

\* Variant: the specification is replaced by its new autostart.
MarkOnly(t) ==
    /\ Do(t, "markSpec", <<>>)
    /\ spec' = [spec EXCEPT ![In(t)] = [autostart |-> TRUE]]
    /\ UNCHANGED <<svc, unit, registry, requested, moved, pm>>

\* _mark_autostart: the specification as it was read, with another autostart.
MarkSpec(t) ==
    /\ Do(t, "markSpec", <<>>)
    /\ spec' = [spec EXCEPT ![In(t)] = [pm[t].spec EXCEPT !.autostart = TRUE]]
    /\ UNCHANGED <<svc, unit, registry, requested, moved, pm>>

\* Variant: the specification is left as it is.
ClearNothing(t) ==
    /\ Do(t, "clearSpec", <<>>)
    /\ UNCHANGED projectVars

ClearSpec(t) ==
    /\ Do(t, "clearSpec", <<>>)
    /\ spec' = [spec EXCEPT ![In(t)] = [pm[t].spec EXCEPT !.autostart = FALSE]]
    /\ UNCHANGED <<svc, unit, registry, requested, moved, pm>>

-----------------------------------------------------------------------------

ProjectsStep(t) ==
    \/ DetectGiven(t) \/ DetectExisting(t) \/ DetectNew(t) \/ Running(t) \/ Reserve(t)
    \/ Probe(t) \/ Open(t) \/ Configure(t) \/ Start(t)
    \/ StartTimesOut(t) \/ StopService(t)
    \/ ReadEntry(t) \/ ReadRegistry(t) \/ SaveRegistry(t)
    \/ ReadSpec(t) \/ WriteUnit(t) \/ RemoveUnit(t) \/ MarkSpec(t) \/ ClearSpec(t)

ProjectsBegin(t) ==
    /\ pm' = [pm EXCEPT ![t] = NoMemory]
    /\ UNCHANGED <<spec, svc, unit, registry, requested, moved>>

\* ~/.minit, the login entry and what runs stay with the device that is left.
ProjectsMove ==
    /\ svc' = [p \in Projects |-> None]
    /\ unit' = [p \in Projects |-> FALSE]
    /\ registry' = [p \in Projects |-> None]
    /\ moved' = TRUE
    /\ UNCHANGED <<spec, requested, pm>>

-----------------------------------------------------------------------------
(* Properties *)

ProjectsTypeOK ==
    /\ spec \in [Projects -> Specs \cup {None}]
    /\ svc \in [Projects -> Ports \cup {None}]
    /\ unit \in [Projects -> BOOLEAN]
    /\ registry \in [Projects -> Ports \cup {None}]
    /\ requested \subseteq Projects
    /\ moved \in BOOLEAN
    /\ \A t \in Terminals :
        /\ pm[t].port \in Ports \cup {None}
        /\ pm[t].taken \subseteq Ports

\* Two registered projects have different ports, stopped or not, unless the user gave one
\* of them, interrupted a deployment before it was registered, or deployed at two
\* terminals at once, or brought its projects along (ports.py 26-79, main.py 119-166).
PortsDiffer ==
    ~overlapped /\ faults = 0 /\ ~moved =>
        \A p, q \in Projects :
            p # q /\ registry[p] = registry[q] /\ registry[p] # None =>
                requested \cap {p, q} # {}

\* What service.json says of the login entry is true when it says that there is one
\* (autostart.py 127-196): only two commands at once, an interruption, or a move to
\* another device change this.
AutostartIsInstalled ==
    Calm /\ ~moved => \A p \in Projects :
        spec[p] # None /\ spec[p].autostart => unit[p]
=============================================================================

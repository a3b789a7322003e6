----------------------------- MODULE OneService -----------------------------
(***************************************************************************)
(* What Minit promises a user who manages one project: at any time at most *)
(* one service is up, and at most one app in it; the app belongs to the    *)
(* service, and the service does not end before its app.                   *)
(***************************************************************************)
CONSTANTS Services, Processes

VARIABLES live,     \* the services that are up
          up        \* the app processes that are up

Init == live = {} /\ up = {}

\* A new service comes up on an idle project.
Launch(s) == live = {} /\ up = {} /\ live' = {s} /\ UNCHANGED up

\* The service runs an app, and a new one only after the last one is gone.
Run(a) == live # {} /\ up = {} /\ up' = {a} /\ UNCHANGED live

\* The app is gone.
Gone == up # {} /\ up' = {} /\ UNCHANGED live

\* The service ends, after its app.
Retire == live # {} /\ up = {} /\ live' = {} /\ UNCHANGED up

Next ==
    \/ \E s \in Services : Launch(s)
    \/ \E a \in Processes : Run(a)
    \/ Gone
    \/ Retire

Spec == Init /\ [][Next]_<<live, up>>
=============================================================================

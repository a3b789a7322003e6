--------------------------- MODULE LocalRuntimeMC ---------------------------
(***************************************************************************)
(* LocalRuntime for TLC: symmetry for the safety runs, and the refinement  *)
(* of OneService.                                                          *)
(***************************************************************************)
EXTENDS LocalRuntime, TLC

Symmetry == Permutations(Clis) \cup Permutations(Sups) \cup Permutations(Apps)

\* With one user at a time and kept deadlines, supervisors and apps come and go
\* as OneService says: the commands' checks (runtime.py 201, main.py 136, 153) and
\* the supervisor's own order of steps never let two of them overlap.
Abstract == INSTANCE OneService WITH
    Services <- Sups, Processes <- Apps,
    live <- {s \in Sups : Alive(s)}, up <- {a \in Apps : ast[a] = "up"}

ImplementsOneService == Abstract!Spec
=============================================================================

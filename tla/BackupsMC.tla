----------------------------- MODULE BackupsMC -----------------------------
(***************************************************************************)
(* Backups for TLC: symmetry for the safety runs, and the refinement of    *)
(* AtomicData.                                                             *)
(***************************************************************************)
EXTENDS Backups, TLC

Symmetry == Permutations(Ops) \cup Permutations(Versions)

\* The data while a restore swaps directories is the data it has set aside.
Data ==
    IF cur # NoDir THEN cur
    ELSE IF \E o \in Ops : old[o] # NoDir THEN old[CHOOSE o \in Ops : old[o] # NoDir]
    ELSE Empty

\* For users who take turns, and commands that are not killed, but fail at any step:
\* a backup is what the data was at one moment and a restore replaces the data in one
\* moment ("guarantees consistency", docs/BACKUP_AND_RECOVERY.md 143).
Abstract == INSTANCE AtomicData WITH
    Ids <- Ops, Names <- Files, Values <- Versions, Missing <- Absent, None <- NoDir,
    up <- svc, data <- Data, saved <- stored

ImplementsAtomicData == Abstract!Spec
=============================================================================

----------------------------- MODULE AtomicData -----------------------------
(***************************************************************************)
(* What backup and restore promise: a backup is the data as it was at one  *)
(* moment, and a restore replaces the data by a backup in one moment.      *)
(* Only a running app changes the data otherwise, one file at a time.      *)
(***************************************************************************)
CONSTANTS Ids, Names, Values, Missing, None

VARIABLES up,       \* is the service running?
          data,     \* the contents of each file
          saved     \* the backups taken

Init ==
    /\ up = FALSE
    /\ data = [n \in Names |-> Missing]
    /\ saved = [i \in Ids |-> None]

Switch == up' = ~up /\ UNCHANGED <<data, saved>>

Write(n) ==
    /\ up
    /\ \E v \in Values \cup {Missing} : data' = [data EXCEPT ![n] = v]
    /\ UNCHANGED <<up, saved>>

Backup(i) == saved' = [saved EXCEPT ![i] = data] /\ UNCHANGED <<up, data>>

Restore(i) ==
    /\ ~up
    /\ saved[i] # None
    /\ data' = saved[i]
    /\ UNCHANGED <<up, saved>>

Next ==
    \/ Switch
    \/ \E n \in Names : Write(n)
    \/ \E i \in Ids : Backup(i) \/ Restore(i)

Spec == Init /\ [][Next]_<<up, data, saved>>
=============================================================================

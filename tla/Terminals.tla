----------------------------- MODULE Terminals -----------------------------
(***************************************************************************)
(* The terminals at which one user gives minit commands to a few projects  *)
(* on one computer (minit/main.py, cli.py, commands.py).                   *)
(*                                                                         *)
(* A command is a list of steps - its agenda - each of which reads or      *)
(* writes one file, or asks the operating system once.  AppKeys, Projects  *)
(* and Snapshots say what the steps do.  No lock keeps the commands of two *)
(* terminals apart.  A step may put further steps in front of the rest;    *)
(* an exception ends the command, and so does a user who interrupts it.    *)
(***************************************************************************)
EXTENDS Naturals, Sequences, FiniteSets

CONSTANTS
    Terminals,
    Projects,
    None,
    Commands,       \* records of an op, a project (in) and an argument
    Scripts,        \* what may be typed: a list of commands at each terminal
    MaxFaults       \* bound on interruptions and failures

ASSUME ScriptsAreCommands ==
    /\ \A c \in Commands : c.in \in Projects
    /\ Scripts \subseteq [Terminals -> Seq(Commands)]

ASSUME FaultsAreNatural == MaxFaults \in Nat

\* Names and keys that commands make, as Fresh does.
Tags == Terminals \X Nat

ASSUME NoneIsNoTag == None \notin Tags

VARIABLES
    script,         \* the commands still to be typed
    cmd,            \* the command at each terminal: its op, its project and its argument
    agenda,         \* the steps it has still to do
    count,          \* commands begun
    overlapped,     \* have two commands ever run at the same time?
    faults

terminalVars == <<script, cmd, agenda, count, overlapped, faults>>

TerminalsInit ==
    /\ script \in Scripts
    /\ cmd = [t \in Terminals |-> None]
    /\ agenda = [t \in Terminals |-> <<>>]
    /\ count = [t \in Terminals |-> 0]
    /\ overlapped = FALSE
    /\ faults = 0

In(t) == cmd[t].in

Arg(t) == cmd[t].arg

\* A name or a key that this command makes, and no other does.
Fresh(t) == <<t, count[t]>>

Busy(t) == agenda[t] # <<>>

At(t, step) == Busy(t) /\ Head(agenda[t]) = step

\* The next step is done; more are to be done before the rest.
Do(t, step, more) ==
    /\ At(t, step)
    /\ agenda' = [agenda EXCEPT ![t] = more \o Tail(@)]
    /\ UNCHANGED <<script, cmd, count, overlapped, faults>>

\* The next step raises an exception, or there is nothing left to do.
Quit(t, step) ==
    /\ At(t, step)
    /\ agenda' = [agenda EXCEPT ![t] = <<>>]
    /\ UNCHANGED <<script, cmd, count, overlapped, faults>>

\* The next step fails for a reason from outside, and others take the place of the rest.
Fails(t, step, others) ==
    /\ At(t, step)
    /\ faults < MaxFaults
    /\ faults' = faults + 1
    /\ agenda' = [agenda EXCEPT ![t] = others]
    /\ UNCHANGED <<script, cmd, count, overlapped>>

\* The next command is typed; steps is its agenda.
Type(t, steps) ==
    /\ ~Busy(t)
    /\ script[t] # <<>>
    /\ script' = [script EXCEPT ![t] = Tail(@)]
    /\ cmd' = [cmd EXCEPT ![t] = Head(script[t])]
    /\ agenda' = [agenda EXCEPT ![t] = steps]
    /\ count' = [count EXCEPT ![t] = @ + 1]
    /\ overlapped' = (overlapped \/ \E u \in Terminals : Busy(u))
    /\ UNCHANGED faults

\* A command is interrupted, or a step fails: nothing is undone.
Interrupt(t) ==
    /\ Busy(t)
    /\ Fails(t, Head(agenda[t]), <<>>)

TerminalsTypeOK ==
    /\ overlapped \in BOOLEAN
    /\ faults \in 0..MaxFaults
    /\ \A t \in Terminals :
        /\ count[t] \in Nat
        /\ Busy(t) => In(t) \in Projects /\ count[t] > 0

\* Nobody is in the middle of a command, and nobody ever disturbed another.
Calm == ~overlapped /\ faults = 0 /\ \A t \in Terminals : ~Busy(t)
=============================================================================

---------------------------- MODULE WorkspaceMC ----------------------------
(* What is typed at two terminals: every short list of the commands of one *)
(* kind at one terminal, and every pair of them, after some preparation,   *)
(* at two.                                                                 *)
EXTENDS Workspace

CONSTANTS t1, t2, p1, p2, s

Of(op, p, arg) == [op |-> op, in |-> p, arg |-> arg]

KeyOps ==
    {Of(op, p1, s) : op \in {"secureInit", "setSecret", "getSecret", "createRecovery",
                             "useRecovery", "move"}}

StateOps == {Of("init", p1, 0), Of("publish", p1, 0), Of("secureInit", p1, 0)}

ServiceOps ==
    {Of("deploy", p1, 0), Of("deploy", p1, 2), Of("deploy", p2, 0), Of("stop", p1, 0),
     Of("restart", p1, 0), Of("installEntry", p1, 0), Of("removeEntry", p1, 0),
     Of("move", p1, 0)}

SourceOps ==
    {Of(op, p1, 0) : op \in {"snapshot", "rollback", "edit", "deploy"}}

Alone(ops, length) ==
    {[t \in Terminals |-> IF t = t1 THEN list ELSE <<>>] : list \in [1..length -> ops]}

Together(first, ops) ==
    {[t \in Terminals |-> IF t = t1 THEN Append(first, a) ELSE <<b>>] : a, b \in ops}

MCCommands ==
    KeyOps \cup {Of("setSecret", p2, s), Of("deleteSecret", p1, s)}
        \cup StateOps \cup ServiceOps \cup SourceOps

MCScripts ==
    Alone(KeyOps, 4)
        \cup Together(<<>>, KeyOps \cup {Of("setSecret", p2, s)})
        \cup Together(<<Of("createRecovery", p1, s)>>, KeyOps \cup {Of("deleteSecret", p1, s)})
        \cup Together(<<>>, StateOps)
        \cup Together(<<Of("publish", p1, 0)>>, StateOps)
        \cup Alone(ServiceOps, 4)
        \cup Together(<<>>, ServiceOps)
        \cup Together(<<Of("deploy", p1, 0)>>, ServiceOps)
        \cup Alone(SourceOps, 4)
        \cup Together(<<Of("snapshot", p1, 0)>>, SourceOps)
=============================================================================

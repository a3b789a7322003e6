---------------------------- MODULE CloudService ----------------------------
(***************************************************************************)
(* The cloud administration service (cloud_service/app.py) and the wire    *)
(* between it and its clients (minit/cloud_client.py).                     *)
(*                                                                         *)
(* One server process stores the latest status of an app in a database,    *)
(* and its encrypted backups as files with a row each in the database.     *)
(* Uploads run on the server's event loop: they give way to each other     *)
(* only while they wait for data.  A client that has given up on a         *)
(* request does not stop the server from serving it.                       *)
(*                                                                         *)
(* A status is the newest one built so far or an older one.  The contents  *)
(* of a backup are its id: the server sees ciphertext and a header.        *)
(***************************************************************************)
EXTENDS Naturals, FiniteSets

CONSTANTS
    Clients,
    Ids,            \* backup ids
    MaxFaults       \* bound on crashes, timeouts, refusals and kills together

Ages == {"new", "old"}

ASSUME IdsAreNoAges == Ids \cap Ages = {}

ASSUME FaultsAreBounded == MaxFaults \in Nat

VARIABLES
    up,             \* does the server process run?
    objects,        \* ids of the backup files in place
    rows,           \* ids in the table backup_objects
    latest,         \* the row of latest_status; "late": an older status has been
                    \* written after a newer one was built
    reqs,           \* requests between a client and the end of their handler
    faults

serviceVars == <<up, objects, rows, latest, reqs, faults>>

\* "exists" is the answer 409, "error" any other failure.
Answers == {"ok", "exists", "error"}

Stages == {"sent", "receive", "insert"} \cup Answers

Request == [from: Clients, item: Ages \cup Ids, stage: Stages, alive: BOOLEAN]

ServiceInit ==
    /\ up = TRUE
    /\ objects = {}
    /\ rows = {}
    /\ latest = "none"
    /\ reqs = {}
    /\ faults = 0

Fault ==
    /\ faults < MaxFaults
    /\ faults' = faults + 1

-----------------------------------------------------------------------------
(* The clients' side *)

Pending(c) == {q \in reqs : q.from = c /\ q.alive}

\* What a server that can be reached receives of a request c makes.
Arrives(c, item) ==
    IF up THEN {[from |-> c, item |-> item, stage |-> "sent", alive |-> TRUE]} ELSE {}

Aged(q) == IF q.item = "new" THEN [q EXCEPT !.item = "old"] ELSE q

\* sync_status: the payload is built now, so all the others are older.
SendStatus(c) ==
    /\ reqs' = {Aged(q) : q \in reqs} \cup Arrives(c, "new")
    /\ latest' = IF latest = "none" THEN "none" ELSE "old"
    /\ UNCHANGED <<up, objects, rows, faults>>

\* upload_backup.
SendBackup(c, b) ==
    /\ reqs' = reqs \cup Arrives(c, b)
    /\ UNCHANGED <<up, objects, rows, latest, faults>>

\* The answer has arrived whole.
Receive(c, q) ==
    /\ q \in Pending(c)
    /\ q.stage \in Answers
    /\ reqs' = reqs \ {q}
    /\ UNCHANGED <<up, objects, rows, latest, faults>>

\* The connection is refused or broken ...
Broken(c) ==
    /\ Pending(c) = {}
    /\ UNCHANGED serviceVars

\* ... or nothing was heard for 15 seconds: the request is left to its fate.
Abandon(c) ==
    /\ reqs' = (reqs \ Pending(c))
                \cup {[q EXCEPT !.alive = FALSE] : q \in {r \in Pending(c) : r.stage \notin Answers}}
    /\ UNCHANGED <<up, objects, rows, latest>>

GiveUp(c) ==
    /\ Pending(c) # {}
    /\ Fault
    /\ Abandon(c)

-----------------------------------------------------------------------------
(* The server's side *)

Advance(q, stage) == reqs' = (reqs \ {q}) \cup {[q EXCEPT !.stage = stage]}

\* Nobody waits for an answer to an abandoned request.
Answer(q, answer) ==
    reqs' = (reqs \ {q}) \cup (IF q.alive THEN {[q EXCEPT !.stage = answer]} ELSE {})

\* No await comes between storing a file and inserting its row: no other upload moves.
LoopIsFree == \A q \in reqs : q.stage # "insert"

IsStatus(q) == q.item \in Ages

\* Variant: INSERT ... ON CONFLICT DO NOTHING.
PutFirstStatus(q) ==
    /\ up
    /\ IsStatus(q) /\ q.stage = "sent"
    /\ latest' = IF latest = "none" THEN "new" ELSE latest
    /\ Answer(q, "ok")
    /\ UNCHANGED <<up, objects, rows, faults>>

\* put_status, in a thread: whatever row there is is replaced.
PutStatus(q) ==
    /\ up
    /\ IsStatus(q) /\ q.stage = "sent"
    /\ latest' = IF q.item = "new" THEN "new" ELSE "late"
    /\ Answer(q, "ok")
    /\ UNCHANGED <<up, objects, rows, faults>>

\* upload_backup, up to the first await: destination.exists().
UploadCheck(q) ==
    /\ up /\ LoopIsFree
    /\ ~IsStatus(q) /\ q.stage = "sent"
    /\ IF q.item \in objects THEN Answer(q, "exists") ELSE Advance(q, "receive")
    /\ UNCHANGED <<up, objects, rows, latest, faults>>

\* Variant: the row is inserted before the file is in place.
UploadInsertsFirst(q) ==
    /\ up /\ LoopIsFree
    /\ ~IsStatus(q) /\ q.stage = "receive"
    /\ rows' = rows \cup {q.item}
    /\ Answer(q, "ok")
    /\ UNCHANGED <<up, objects, latest, faults>>

\* The body is whole and synced to disk; its header is right; the temporary file
\* replaces the destination, whether it is there or not.
UploadReplace(q) ==
    /\ up /\ LoopIsFree
    /\ ~IsStatus(q) /\ q.stage = "receive"
    /\ objects' = objects \cup {q.item}
    /\ Advance(q, "insert")
    /\ UNCHANGED <<up, rows, latest, faults>>

\* Variant: the row is forgotten for an upload that overlapped another.
UploadReplaceOnly(q) ==
    /\ up
    /\ ~IsStatus(q) /\ q.stage = "insert"
    /\ Answer(q, "ok")
    /\ UNCHANGED <<up, objects, rows, latest, faults>>

\* The insertion of the row: the primary key refuses a second one.
UploadInsert(q) ==
    /\ up
    /\ ~IsStatus(q) /\ q.stage = "insert"
    /\ rows' = rows \cup {q.item}
    /\ Answer(q, IF q.item \in rows THEN "error" ELSE "ok")
    /\ UNCHANGED <<up, objects, latest, faults>>

\* The client went away before it had sent everything; the temporary file is removed.
UploadDropped(q) ==
    /\ up /\ LoopIsFree
    /\ ~IsStatus(q) /\ q.stage = "receive" /\ ~q.alive
    /\ reqs' = reqs \ {q}
    /\ UNCHANGED <<up, objects, rows, latest, faults>>

\* An abandoned request that never reaches its handler.
Lost(q) ==
    /\ q.stage = "sent" /\ ~q.alive
    /\ reqs' = reqs \ {q}
    /\ UNCHANGED <<up, objects, rows, latest, faults>>

\* Too large, a full disk, a locked database: what is in place stays in place.
Refused(q) ==
    /\ up
    /\ \/ IsStatus(q) /\ q.stage = "sent"
       \/ ~IsStatus(q) /\ q.stage = "receive" /\ LoopIsFree
       \/ ~IsStatus(q) /\ q.stage = "insert"
    /\ Fault
    /\ Answer(q, "error")
    /\ UNCHANGED <<up, objects, rows, latest>>

\* The process ends: files and committed rows stay, clients lose their connections.
ServerCrash ==
    /\ up
    /\ Fault
    /\ up' = FALSE
    /\ reqs' = {}
    /\ UNCHANGED <<objects, rows, latest>>

ServerStart ==
    /\ ~up
    /\ up' = TRUE
    /\ UNCHANGED <<objects, rows, latest, reqs, faults>>

Serve ==
    \E q \in reqs :
        PutStatus(q) \/ UploadCheck(q) \/ UploadReplace(q) \/ UploadInsert(q)

Server ==
    \/ Serve
    \/ \E q \in reqs : UploadDropped(q) \/ Lost(q) \/ Refused(q)
    \/ ServerCrash \/ ServerStart

-----------------------------------------------------------------------------
(* Properties *)

ServiceTypeOK ==
    /\ up \in BOOLEAN
    /\ objects \subseteq Ids
    /\ rows \subseteq Ids
    /\ latest \in {"none", "late"} \cup Ages
    /\ reqs \subseteq Request
    /\ faults \in Nat

\* GET /v1/backups/{app_id} names only backups that GET .../{backup_id} returns, and
\* an answer tells the truth: "stored" means the file and the row are there (for a
\* status: unless a late older one has replaced it), 409 that the file is there
\* (app.py 136-151, 204-273); with overlapping uploads of one backup too.
AnswersAreTrue ==
    /\ rows \subseteq objects
    /\ \A q \in reqs :
        /\ q.stage = "ok" /\ q.item \in Ids => q.item \in rows
        /\ q.stage = "ok" /\ q.item = "new" => latest \in {"new", "late"}
        /\ q.stage = "exists" => q.item \in objects

\* A file without a row - refused as a duplicate for ever, and in no list - comes only
\* from a crash or an error between the two (app.py 229-238).
StoredIsListed ==
    \A b \in objects \ rows :
        faults > 0 \/ \E q \in reqs : q.stage = "insert" /\ q.item = b
=============================================================================

--------------------------- MODULE SqliteSnapshot ---------------------------
(***************************************************************************)
(* The snapshot of the demonstration database (sqlite_snapshot.py): a      *)
(* backup copies the live database to the NAS, a restore copies the        *)
(* snapshot to a new pod.  Both write a temporary file beside their        *)
(* destination, check it and put it in the destination's place.  One of    *)
(* them runs at a time (one pod, restored before it serves and backed up   *)
(* before it stops), may be killed at every step, and the pod may be lost  *)
(* with everything on it.                                                  *)
(***************************************************************************)
EXTENDS Integers

CONSTANT MaxVersion   \* commits of the server to the database

VARIABLES
    live,      \* the database of the pod
    snapshot,  \* the file on the NAS
    temporary, \* the .tmp beside the destination of each operation
    operation, \* the operation under way, "none" if none
    step,      \* where it stands: "copy", "check", "replace" or "finally"
    damaged    \* history: something else damaged the snapshot since its last backup

vars == <<live, snapshot, temporary, operation, step, damaged>>

\* A file holds the database after that many commits, is missing, or is no database.
Absent == -1
Torn == -2
Versions == 0..MaxVersion
Operations == {"backup", "restore"}

Source == IF operation = "backup" THEN live ELSE snapshot

Init ==
    /\ live = Absent /\ snapshot = Absent
    /\ temporary = [op \in Operations |-> Absent]
    /\ operation = "none" /\ step = "copy" /\ damaged = FALSE

\* The server of a pod without a snapshot makes a database.
NewDatabase ==
    /\ operation = "none" /\ live = Absent /\ snapshot = Absent
    /\ live' = 0
    /\ UNCHANGED <<snapshot, temporary, operation, step, damaged>>

\* The server commits, also while a backup is under way.
ServerCommits ==
    /\ operation # "restore" /\ live \in Versions /\ live < MaxVersion
    /\ live' = live + 1
    /\ UNCHANGED <<snapshot, temporary, operation, step, damaged>>

\* The file on the NAS is damaged by something else.
Damage ==
    /\ operation = "none" /\ snapshot \in Versions
    /\ snapshot' = Torn /\ damaged' = TRUE
    /\ UNCHANGED <<live, temporary, operation, step>>

\* An operation without a source is skipped, a restore of a damaged one refused; a
\* temporary file that a killed operation left behind is removed.
Start(op) ==
    /\ operation = "none"
    /\ IF op = "backup" THEN live # Absent ELSE snapshot \in Versions /\ live = Absent
    /\ operation' = op /\ step' = "copy"
    /\ temporary' = [temporary EXCEPT ![op] = Absent]
    /\ UNCHANGED <<live, snapshot, damaged>>

\* connection.backup() takes one state of the live database, copy2() the file.  The
\* copy fails half way, or comes out damaged, too.
Copy ==
    /\ operation # "none" /\ step = "copy"
    /\ \E copy \in {Source, Torn} : temporary' = [temporary EXCEPT ![operation] = copy]
    /\ step' \in (IF temporary'[operation] = Torn THEN {"check", "finally"} ELSE {"check"})
    /\ UNCHANGED <<live, snapshot, operation, damaged>>

\* _check_database(temporary)
Check ==
    /\ operation # "none" /\ step = "check"
    /\ step' = IF temporary[operation] = Torn THEN "finally" ELSE "replace"
    /\ UNCHANGED <<live, snapshot, temporary, operation, damaged>>

\* os.replace() takes the place of the destination at once.
Replace ==
    /\ operation # "none" /\ step = "replace"
    /\ step' = "finally"
    /\ temporary' = [temporary EXCEPT ![operation] = Absent]
    /\ IF operation = "backup"
       THEN snapshot' = temporary[operation] /\ damaged' = FALSE /\ UNCHANGED live
       ELSE live' = temporary[operation] /\ UNCHANGED <<snapshot, damaged>>
    /\ UNCHANGED operation

Finally ==
    /\ operation # "none" /\ step = "finally"
    /\ temporary' = [temporary EXCEPT ![operation] = Absent]
    /\ operation' = "none"
    /\ UNCHANGED <<live, snapshot, step, damaged>>

\* The operation is killed, with the file it was writing half written.
Kill ==
    /\ operation # "none"
    /\ operation' = "none"
    /\ temporary' = IF step = "copy" THEN [temporary EXCEPT ![operation] = Torn] ELSE temporary
    /\ UNCHANGED <<live, snapshot, step, damaged>>

\* The pod is replaced: its database and temporary file are gone, a backup with it.
LosePod ==
    /\ live # Absent
    /\ live' = Absent /\ operation' = "none"
    /\ temporary' = [temporary EXCEPT !["restore"] = Absent]
    /\ UNCHANGED <<snapshot, step, damaged>>

Next ==
    \/ NewDatabase \/ ServerCommits \/ Damage \/ Copy \/ Check \/ Replace \/ Finally
    \/ Kill \/ LosePod \/ \E op \in Operations : Start(op)

Spec == Init /\ [][Next]_vars

-----------------------------------------------------------------------------
\* Wherever an operation stops, the snapshot is a whole database unless something
\* else damaged it, so is the database of the pod, and a pod never works on less
\* than the snapshot holds: its backups never take the snapshot back.
SnapshotUsable ==
    /\ snapshot = Torn => damaged
    /\ live # Torn
    /\ live # Absent => snapshot <= live
=============================================================================

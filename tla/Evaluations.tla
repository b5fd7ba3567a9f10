---------------------------- MODULE Evaluations ----------------------------
(***************************************************************************)
(* The manual evaluations one user keeps of the runs of one experiment     *)
(* (services/evaluation_service.py): upsert() in concurrent requests, each *)
(* one transaction under PostgreSQL's READ COMMITTED.  An UPDATE takes the *)
(* rows its snapshot shows, waits for the transaction that holds one, and  *)
(* goes on with what that one committed; it never sees a row inserted      *)
(* meanwhile.                                                              *)
(***************************************************************************)
EXTENDS Naturals, FiniteSets

CONSTANTS
    Runs,     \* the runs of the experiment
    Clients,  \* requests at a time (one that ended stands for a later one)
    Rated     \* runs that have an evaluation when the behaviour begins

VARIABLES
    rows,   \* committed: "absent", "plain" or "preferred"
    tx,     \* per request, where its transaction stands
    todo,   \* rows its UPDATE has still to clear
    wrote   \* per request, the rows it has written and their values

vars == <<rows, tx, todo, wrote>>

Idle == [run |-> "none", preferred |-> FALSE, step |-> "idle"]
Values == {"plain", "preferred"}
Value(preferred) == IF preferred THEN "preferred" ELSE "plain"

TypeOK ==
    /\ rows \in [Runs -> Values \cup {"absent"}]
    /\ \A c \in Clients :
        /\ tx[c] = Idle \/ tx[c] \in [run : Runs, preferred : BOOLEAN,
                                      step : {"clear", "read", "insert", "update", "commit"}]
        /\ todo[c] \subseteq Runs
        /\ DOMAIN wrote[c] \subseteq Runs /\ \A r \in DOMAIN wrote[c] : wrote[c][r] \in Values

Init ==
    /\ rows \in [Runs -> Values \cup {"absent"}]
    /\ \A r \in Runs : rows[r] = "absent" <=> r \notin Rated
    /\ Cardinality({r \in Runs : rows[r] = "preferred"}) <= 1
    /\ tx = [c \in Clients |-> Idle]
    /\ todo = [c \in Clients |-> {}]
    /\ wrote = [c \in Clients |-> <<>>]

Step(c, s) == tx' = [tx EXCEPT ![c].step = s]
Holder(r) == {c \in Clients : r \in DOMAIN wrote[c]}
Free(c, r) == Holder(r) \subseteq {c}
Write(c, r, v) ==
    wrote' = [wrote EXCEPT ![c] = [x \in DOMAIN @ \cup {r} |-> IF x = r THEN v ELSE @[x]]]
\* A row as the transaction sees it.
Seen(c, r) == IF r \in DOMAIN wrote[c] THEN wrote[c][r] ELSE rows[r]

\* Mutant of Snapshot: only rows that are preferred are cleared.
SnapshotPreferred(preferred) ==
    IF preferred THEN {r \in Runs : rows[r] = "preferred"} ELSE {}

\* The rows the UPDATE of a preferring request takes.
Snapshot(preferred) == IF preferred THEN {r \in Runs : rows[r] # "absent"} ELSE {}

\* The owner is authorised; the UPDATE runs if the run is to be the preferred one.
Begin(c, r, preferred) ==
    /\ tx[c] = Idle
    /\ tx' = [tx EXCEPT ![c] = [run |-> r, preferred |-> preferred,
                                step |-> IF preferred THEN "clear" ELSE "read"]]
    /\ todo' = [todo EXCEPT ![c] = Snapshot(preferred)]
    /\ UNCHANGED <<rows, wrote>>

\* is_preferred=False on the next row, once nobody else holds it.
Clear(c, r) ==
    /\ tx[c].step = "clear" /\ r \in todo[c] /\ Free(c, r)
    /\ todo' = [todo EXCEPT ![c] = @ \ {r}]
    /\ Write(c, r, "plain")
    /\ UNCHANGED <<rows, tx>>

Cleared(c) ==
    /\ tx[c].step = "clear" /\ todo[c] = {}
    /\ Step(c, "read")
    /\ UNCHANGED <<rows, todo, wrote>>

\* SELECT of the run's evaluation.  A loaded object whose flag stays as loaded
\* writes nothing to it.
Read(c) ==
    /\ tx[c].step = "read"
    /\ LET seen == Seen(c, tx[c].run) IN
       Step(c, IF seen = "absent" THEN "insert"
               ELSE IF seen = Value(tx[c].preferred) THEN "commit" ELSE "update")
    /\ UNCHANGED <<rows, todo, wrote>>

\* UPDATE of the row, or INSERT, which waits for another INSERT of the same key.
Flush(c) ==
    /\ tx[c].step \in {"insert", "update"} /\ Free(c, tx[c].run)
    /\ tx[c].step = "insert" => rows[tx[c].run] = "absent"
    /\ Write(c, tx[c].run, Value(tx[c].preferred))
    /\ Step(c, "commit")
    /\ UNCHANGED <<rows, todo>>

\* The unique key, a deadlock or the connection ends the transaction.
Fail(c) ==
    /\ tx[c] # Idle
    /\ tx' = [tx EXCEPT ![c] = Idle]
    /\ todo' = [todo EXCEPT ![c] = {}] /\ wrote' = [wrote EXCEPT ![c] = <<>>]
    /\ UNCHANGED rows

Commit(c) ==
    /\ tx[c].step = "commit"
    /\ rows' = [r \in Runs |-> Seen(c, r)]
    /\ tx' = [tx EXCEPT ![c] = Idle]
    /\ wrote' = [wrote EXCEPT ![c] = <<>>]
    /\ UNCHANGED todo

Next ==
    \E c \in Clients :
        \/ \E r \in Runs, preferred \in BOOLEAN : Begin(c, r, preferred)
        \/ \E r \in Runs : Clear(c, r)
        \/ Cleared(c) \/ Read(c) \/ Flush(c) \/ Fail(c) \/ Commit(c)

Spec == Init /\ [][Next]_vars

-----------------------------------------------------------------------------
\* One result of an experiment at most is preferred by a user, whatever requests
\* run at the same time (the comment in upsert()).
OnePreferred == Cardinality({r \in Runs : rows[r] = "preferred"}) <= 1
=============================================================================

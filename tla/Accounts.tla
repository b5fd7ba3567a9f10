------------------------------ MODULE Accounts ------------------------------
(***************************************************************************)
(* Sign-up and the parser catalogue (services/auth_service.py,             *)
(* parser_catalog.py, parser_service.py): concurrent sign-ups, the seeding *)
(* of connectors by the first one and at every start of the server, and    *)
(* what an administrator does to connectors.  Each request is a            *)
(* transaction under READ COMMITTED; an INSERT with the key of a row that  *)
(* is not committed yet waits for that row's transaction.                  *)
(***************************************************************************)
EXTENDS Naturals, FiniteSets

CONSTANTS
    Clients,  \* sign-up requests at a time
    Emails,   \* addresses they use
    Mocks,    \* slugs of the mock parsers, seeded by the first sign-up only
    Locals,   \* catalogue entries that are always listed: pp-structure-v3
    Synap,    \* the entries of the synap_http adapter, always listed too
    Others,   \* the other entries, listed when their endpoint is configured
    MaxChanges \* requests of administrators

VARIABLES
    users,      \* committed users: email |-> role
    signup,     \* per request: step, email, role and inserted slugs
    connectors, \* committed connectors: slug |-> url, active; those of other slugs left out
    settings,   \* the environment: slugs with a base URL, and synap_api_key
    touched,    \* history: slugs an administrator or a new environment has changed since seeding
    renamed,    \* history: slugs an administrator has taken from their connectors
    changes     \* requests of administrators so far

vars == <<users, signup, connectors, settings, touched, renamed, changes>>
history == <<touched, renamed, changes>>

Slugs == Mocks \cup Locals \cup Synap \cup Others
Connector == [url : BOOLEAN, active : BOOLEAN]
Roles == {"admin", "user"}
Idle == [step |-> "idle", email |-> "none", role |-> "user", slugs |-> {}]
Settings == [urls : SUBSET (Synap \cup Others), key : BOOLEAN]

TypeOK ==
    /\ DOMAIN users \subseteq Emails /\ \A e \in DOMAIN users : users[e] \in Roles
    /\ \A c \in Clients :
        signup[c] = Idle \/ signup[c] \in [step : {"insert", "seed", "commit"}, email : Emails,
                                           role : Roles, slugs : SUBSET Slugs]
    /\ DOMAIN connectors \subseteq Slugs
    /\ \A s \in DOMAIN connectors : connectors[s] \in Connector
    /\ settings \in Settings /\ touched \subseteq Slugs /\ renamed \subseteq Slugs
    /\ changes \in 0..MaxChanges

Init ==
    /\ users = <<>> /\ connectors = <<>>
    /\ signup = [c \in Clients |-> Idle]
    /\ settings \in Settings
    /\ touched = {} /\ renamed = {} /\ changes = 0

With(f, g) == [x \in DOMAIN f \cup DOMAIN g |-> IF x \in DOMAIN g THEN g[x] ELSE f[x]]
Without(f, x) == [y \in DOMAIN f \ {x} |-> f[y]]

-----------------------------------------------------------------------------
(* The catalogue *)

\* parser_catalog_entries(): what is always listed, and what else is configured.
Entries == Locals \cup Synap \cup (Others \cap settings.urls)

\* A new connector: a synap one is active with a URL and a key only.
Fresh(s) == [url |-> s \in settings.urls,
             active |-> s \in Synap => (s \in settings.urls /\ settings.key)]

\* Mutant of Refreshed: every connector of the catalogue is switched on again.
RefreshedAll(s) ==
    LET url == s \in settings.urls \/ connectors[s].url
    IN  [url |-> url, active |-> s \in Synap => (url /\ settings.key)]

\* seed_enabled_parser_connectors() and a connector that exists: one of a synap
\* entry takes the configured URL, if any, and is active if it has one and there is
\* a key, whatever an administrator has made of it.
Refreshed(s) ==
    LET url == s \in settings.urls \/ connectors[s].url
    IN  IF s \in Synap THEN [url |-> url, active |-> url /\ settings.key] ELSE connectors[s]

HasAdmin == \E e \in DOMAIN users : users[e] = "admin"
Resting == \A c \in Clients : signup[c] = Idle

\* The server starts; it seeds for the first administrator.
Start ==
    /\ Resting
    /\ IF HasAdmin
       THEN /\ connectors' = With(connectors, [s \in Entries |->
                   IF s \in DOMAIN connectors THEN Refreshed(s) ELSE Fresh(s)])
            /\ touched' = {}
       ELSE UNCHANGED <<connectors, touched>>
    /\ UNCHANGED <<users, signup, settings, renamed, changes>>

\* The server is stopped, and its environment changed before the next start.
Reconfigure ==
    /\ Resting
    /\ settings' \in Settings
    /\ touched' = Slugs
    /\ UNCHANGED <<users, signup, connectors, renamed, changes>>

-----------------------------------------------------------------------------
(* Administration: an HTTP connector must have a URL, one of another kind need  *)
(* not, and an update may change the kind.                                      *)

\* The slug is unique, and no request is inserting it.
Unused(s) == s \notin DOMAIN connectors /\ \A c \in Clients : s \notin signup[c].slugs

\* An administrator has asked for a change.
Administer(slugs) ==
    /\ HasAdmin /\ changes < MaxChanges
    /\ changes' = changes + 1
    /\ touched' = touched \cup (slugs \cap Slugs)
    /\ UNCHANGED <<users, signup, settings>>

\* POST: a new connector is active.
Create(s, url) ==
    /\ Unused(s) /\ Administer({s})
    /\ connectors' = With(connectors, [x \in {s} |-> [url |-> url, active |-> TRUE]])
    /\ UNCHANGED renamed

\* A slug that is none of the catalogue.
Elsewhere == "elsewhere"

\* PATCH: a connector keeps its slug, or takes another one, of the catalogue or not.
Update(s, slug, connector) ==
    /\ s \in DOMAIN connectors /\ (slug = s \/ Unused(slug))
    /\ Administer({s, slug})
    /\ connectors' = With(Without(connectors, s), [x \in {slug} \cap Slugs |-> connector])
    /\ renamed' = IF slug = s THEN renamed ELSE renamed \cup {s}

\* DELETE
Disable(s) ==
    /\ s \in DOMAIN connectors /\ Administer({s})
    /\ connectors' = [connectors EXCEPT ![s].active = FALSE]
    /\ UNCHANGED renamed

-----------------------------------------------------------------------------
(* Sign-up *)

Set(c, f, v) == signup' = [signup EXCEPT ![c][f] = v]

\* The address is not taken, and the users are counted.
Count(c, e) ==
    /\ signup[c] = Idle /\ e \notin DOMAIN users
    /\ signup' = [signup EXCEPT ![c] = [step |-> "insert", email |-> e, slugs |-> {},
                      role |-> IF DOMAIN users = {} THEN "admin" ELSE "user"]]
    /\ UNCHANGED <<users, connectors, settings, history>>

Inserted(c) == signup[c].step \in {"seed", "commit"}

\* What the first sign-up seeds.
Seeds == Mocks \cup Entries

\* Mutant of Insert: the first user comes without connectors.
InsertOnly(c) ==
    /\ signup[c].step = "insert"
    /\ signup[c].email \notin DOMAIN users
    /\ ~\E d \in Clients \ {c} : Inserted(d) /\ signup[d].email = signup[c].email
    /\ Set(c, "step", "commit")
    /\ UNCHANGED <<users, connectors, settings, history>>

\* INSERT of the user, waiting for a request that inserts the same address.
Insert(c) ==
    /\ signup[c].step = "insert"
    /\ signup[c].email \notin DOMAIN users
    /\ ~\E d \in Clients \ {c} : Inserted(d) /\ signup[d].email = signup[c].email
    /\ Set(c, "step", IF signup[c].role = "admin" THEN "seed" ELSE "commit")
    /\ UNCHANGED <<users, connectors, settings, history>>

\* _seed_mock_parsers(): one INSERT after the other, each waiting for a request
\* that inserts the same slug.
Seed(c, s) ==
    /\ signup[c].step = "seed" /\ s \in Seeds /\ Unused(s)
    /\ Set(c, "slugs", signup[c].slugs \cup {s})
    /\ UNCHANGED <<users, connectors, settings, history>>

Seeded(c) ==
    /\ signup[c].step = "seed" /\ Seeds \subseteq signup[c].slugs
    /\ Set(c, "step", "commit")
    /\ UNCHANGED <<users, connectors, settings, history>>

Commit(c) ==
    /\ signup[c].step = "commit"
    /\ users' = With(users, [e \in {signup[c].email} |-> signup[c].role])
    /\ connectors' = With(connectors, [s \in signup[c].slugs |-> Fresh(s)])
    /\ signup' = [signup EXCEPT ![c] = Idle]
    /\ touched' = IF signup[c].role = "admin" THEN {} ELSE touched
    /\ UNCHANGED <<settings, renamed, changes>>

\* A key that turns out to be taken, a deadlock or a lost connection: everything
\* the request has inserted is rolled back.
Fail(c) ==
    /\ signup[c] # Idle
    /\ signup' = [signup EXCEPT ![c] = Idle]
    /\ UNCHANGED <<users, connectors, settings, history>>

Next ==
    \/ Start \/ Reconfigure
    \/ \E s \in Slugs :
        \/ \E url \in BOOLEAN : Create(s, url)
        \/ \E slug \in Slugs \cup {Elsewhere}, connector \in Connector : Update(s, slug, connector)
        \/ Disable(s)
    \/ \E c \in Clients :
        \/ \E e \in Emails : Count(c, e)
        \/ Insert(c) \/ Seeded(c) \/ Commit(c) \/ Fail(c)
        \/ \E s \in Slugs : Seed(c, s)

Spec == Init /\ [][Next]_vars

-----------------------------------------------------------------------------
(* Properties *)

\* One account is made administrator by signing up, unless every connector of a
\* slug that is always listed has been renamed.  Both of two first sign-ups count no
\* users; the unique slugs of the connectors they seed let one commit.
OneFirstAdmin ==
    \/ Cardinality({e \in DOMAIN users : users[e] = "admin"}) <= 1
    \/ Mocks \cup Locals \cup Synap \subseteq renamed

\* Seeding is idempotent: a start adds or changes only what an administrator or a new
\* environment has changed since the start or the sign-up that seeded last, and of
\* connectors that exist those of the synap entries alone.
SeedingChanges ==
    \A s \in DOMAIN connectors' :
        \/ s \in DOMAIN connectors /\ connectors'[s] = connectors[s]
        \/ s \in touched /\ (s \in DOMAIN connectors => s \in Synap)
SeedingIsIdempotent == [][Start => SeedingChanges]_vars
=============================================================================

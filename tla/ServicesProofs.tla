---------------------------- MODULE ServicesProofs ----------------------------
(***************************************************************************)
(* What the services promise, for any number of clients, runs, uploads,    *)
(* addresses, connectors, chunks, commits and texts.  Each service has an  *)
(* inductive invariant of its own; the behaviours of MCServices keep all   *)
(* of them, because no service touches the state of another.               *)
(***************************************************************************)
EXTENDS MCServices, FiniteSetTheorems, SequenceTheorems, WellFoundedInduction, TLAPS

-----------------------------------------------------------------------------
(* Cardinality *)

\* The cardinality of FiniteSets, by each of its names.
LEMMA SameCardinality ==
  ASSUME NEW S
  PROVE  /\ Evaluation!Cardinality(S) = Cardinality(S) /\ Account!Cardinality(S) = Cardinality(S)
         /\ Runner!Cardinality(S) = Cardinality(S)
BY DEF Evaluation!Cardinality, Account!Cardinality, Runner!Cardinality, Cardinality

LEMMA AtMostOne ==
  ASSUME NEW S, \A x, y \in S : x = y
  PROVE  Cardinality(S) <= 1
<1>1. CASE S = {}
  BY <1>1, FS_EmptySet
<1>2. CASE S # {}
  <2>1. PICK x \in S : TRUE
    BY <1>2
  <2>2. S = {x}
    BY <2>1
  <2> QED BY <2>2, FS_Singleton
<1> QED BY <1>1, <1>2

-----------------------------------------------------------------------------
(* Documents *)

\* The file is whole from the end of the reading to the end of the request, or it
\* is an error that leaves it; no row is committed before.
UploadInv ==
    /\ progress \in Nat
    /\ upload \in {"validate", "open"} => stored = "absent"
    /\ upload \in {"validate", "open", "read"} => ~thrown /\ progress <= MaxChunks
    /\ upload \in {"validate", "open", "read", "unlink", "close", "create"} => ~saved
    /\ upload = "close" => IF thrown THEN stored = "absent" \/ left
                                     ELSE stored = "whole" /\ progress \in 1..MaxChunks
    /\ upload = "create" => stored = "whole" /\ progress \in 1..MaxChunks
    /\ Uploading!RowsHaveFiles

LEMMA InitUpload == Uploading!Init => UploadInv
BY BoundsAssumption DEF Uploading!Init, UploadInv, Uploading!RowsHaveFiles

LEMMA NextUpload == UploadInv /\ [Uploading!Next]_(Uploading!vars) => UploadInv'
<1> SUFFICES ASSUME UploadInv, [Uploading!Next]_(Uploading!vars) PROVE UploadInv'
  OBVIOUS
<1> USE BoundsAssumption DEF UploadInv, Uploading!RowsHaveFiles
<1>1. ASSUME NEW supported \in BOOLEAN, Uploading!Validate(supported) PROVE UploadInv'
  BY <1>1 DEF Uploading!Validate
<1>2. CASE Uploading!Open
  BY <1>2 DEF Uploading!Open
<1>3. CASE Uploading!ReadChunk
  BY <1>3 DEF Uploading!ReadChunk
<1>4. CASE Uploading!ReadFails
  BY <1>4 DEF Uploading!ReadFails
<1>5. CASE Uploading!ReadAll
  BY <1>5 DEF Uploading!ReadAll
<1>6. CASE Uploading!Unlink
  BY <1>6 DEF Uploading!Unlink
<1>7. CASE Uploading!Close
  BY <1>7 DEF Uploading!Close
<1>8. CASE Uploading!Create
  BY <1>8 DEF Uploading!Create
<1>9. CASE Uploading!CreateFails
  BY <1>9 DEF Uploading!CreateFails, Uploading!Discard
<1>10. CASE Uploading!Stop
  BY <1>10 DEF Uploading!Stop
<1>11. CASE UNCHANGED Uploading!vars
  BY <1>11 DEF Uploading!vars
<1> QED BY <1>1, <1>2, <1>3, <1>4, <1>5, <1>6, <1>7, <1>8, <1>9, <1>10, <1>11
        DEF Uploading!Next

-----------------------------------------------------------------------------
(* SqliteSnapshot *)

\* The files hold databases, and what an operation under way has copied is no
\* older than the snapshot: a backup works on a pod that is there and only grows,
\* a restore on one without a database, while nothing else changes the snapshot.
Good == Snapshot!Versions
SnapshotInv ==
    /\ live \in Good \cup {Snapshot!Absent}
    /\ snapshot \in Good \cup {Snapshot!Absent, Snapshot!Torn}
    /\ temporary \in [Snapshot!Operations -> Good \cup {Snapshot!Absent, Snapshot!Torn}]
    /\ operation \in Snapshot!Operations \cup {"none"}
    /\ step \in {"copy", "check", "replace", "finally"}
    /\ operation = "backup" =>
        /\ live \in Good
        /\ step = "check" /\ temporary["backup"] # Snapshot!Torn => temporary["backup"] \in Good
        /\ step = "replace" => temporary["backup"] \in Good
        /\ step \in {"check", "replace"} /\ temporary["backup"] \in Good =>
               snapshot <= temporary["backup"] /\ temporary["backup"] <= live
    /\ operation = "restore" /\ step # "finally" =>
        /\ live = Snapshot!Absent /\ snapshot \in Good
        /\ step = "check" => temporary["restore"] \in {snapshot, Snapshot!Torn}
        /\ step = "replace" => temporary["restore"] = snapshot
    /\ Snapshot!SnapshotUsable

LEMMA InitSnapshot == Snapshot!Init => SnapshotInv
BY DEF Snapshot!Init, SnapshotInv, Snapshot!SnapshotUsable, Snapshot!Absent, Snapshot!Torn,
       Snapshot!Operations

LEMMA NextSnapshot == SnapshotInv /\ [Snapshot!Next]_(Snapshot!vars) => SnapshotInv'
<1> SUFFICES ASSUME SnapshotInv, [Snapshot!Next]_(Snapshot!vars) PROVE SnapshotInv'
  OBVIOUS
<1> USE BoundsAssumption DEF SnapshotInv, Snapshot!SnapshotUsable, Snapshot!Absent, Snapshot!Torn,
        Good, Snapshot!Versions, Snapshot!Operations
<1>1. CASE Snapshot!NewDatabase
  BY <1>1 DEF Snapshot!NewDatabase
<1>2. CASE Snapshot!ServerCommits
  BY <1>2 DEF Snapshot!ServerCommits
<1>3. CASE Snapshot!Damage
  BY <1>3 DEF Snapshot!Damage
<1>4. CASE Snapshot!Copy
  BY <1>4 DEF Snapshot!Copy, Snapshot!Source
<1>5. CASE Snapshot!Check
  BY <1>5 DEF Snapshot!Check
<1>6. CASE Snapshot!Replace
  BY <1>6 DEF Snapshot!Replace
<1>7. CASE Snapshot!Finally
  BY <1>7 DEF Snapshot!Finally
<1>8. CASE Snapshot!Kill
  BY <1>8 DEF Snapshot!Kill
<1>9. CASE Snapshot!LosePod
  BY <1>9 DEF Snapshot!LosePod
<1>10. ASSUME NEW op \in Snapshot!Operations, Snapshot!Start(op) PROVE SnapshotInv'
  BY <1>10 DEF Snapshot!Start
<1>11. CASE UNCHANGED Snapshot!vars
  BY <1>11 DEF Snapshot!vars
<1> QED BY <1>1, <1>2, <1>3, <1>4, <1>5, <1>6, <1>7, <1>8, <1>9, <1>10, <1>11
        DEF Snapshot!Next

-----------------------------------------------------------------------------
(* Accounts *)

Admins == {e \in DOMAIN users : users[e] = "admin"}

\* The slug of every connector a request has inserted is its own, and a first
\* administrator to be cannot commit before it has inserted all that is seeded: of
\* two, the second waits for the first, and fails or finds a slug taken, unless an
\* administrator has renamed every connector that is always listed.
Signups == [step : {"idle", "insert", "seed", "commit"}, email : Emails \cup {"none"},
            role : Account!Roles, slugs : SUBSET Account!Slugs]
Always == MockEntries \cup LocalEntries \cup SynapEntries
SlugsAreOwn ==
    \A c \in Clients :
        /\ signup[c].step = "commit" /\ signup[c].role = "admin" =>
               Account!Seeds \subseteq signup[c].slugs
        /\ signup[c].slugs \cap DOMAIN connectors = {}
        /\ \A d \in Clients \ {c} : signup[c].slugs \cap signup[d].slugs = {}
ConnectorsAreSound == \A s \in DOMAIN connectors : connectors[s] \in Account!Connector
OneAdmin ==
    \/ Always \subseteq renamed
    \/ /\ \A e, f \in Admins : e = f
       /\ Admins # {} => Always \subseteq DOMAIN connectors \cup renamed

\* What nobody has touched since it was seeded is as a start would leave it.
Settled(s) == s \in DOMAIN connectors /\ (s \in SynapEntries => Account!Refreshed(s) = connectors[s])
SeededInv == Admins # {} => \A s \in Account!Entries \ touched : Settled(s)
AccountInv ==
    signup \in [Clients -> Signups] /\ SlugsAreOwn /\ ConnectorsAreSound /\ OneAdmin /\ SeededInv

LEMMA IdleIsSignup == Account!Idle \in Signups
BY DEF Account!Idle, Signups, Account!Roles

LEMMA InitAccount == Account!Init => AccountInv
<1> SUFFICES ASSUME Account!Init PROVE AccountInv
  OBVIOUS
<1>1. signup \in [Clients -> Signups] /\ \A c \in Clients : signup[c] = Account!Idle
  BY IdleIsSignup DEF Account!Init
<1>2. SlugsAreOwn
  BY <1>1 DEF SlugsAreOwn, Account!Idle
<1>3. ConnectorsAreSound
  BY DEF Account!Init, ConnectorsAreSound
<1>4. Admins = {}
  BY DEF Account!Init, Admins
<1> QED BY <1>1, <1>2, <1>3, <1>4 DEF AccountInv, OneAdmin, SeededInv

\* A connector that stays as it is stays settled in the same environment.
LEMMA StaysSettled ==
  ASSUME NEW s, Settled(s), settings' = settings, s \in DOMAIN connectors', connectors'[s] = connectors[s]
  PROVE  Settled(s)'
BY DEF Settled, Account!Refreshed

\* Fresh and refreshed connectors are well formed; of a synap entry, a start leaves
\* them as they are, and it changes no connector of another one.
LEMMA SeededConnectors ==
  ASSUME ConnectorsAreSound, NEW s \in Account!Slugs
  PROVE  /\ Account!Fresh(s) \in Account!Connector
         /\ s \in DOMAIN connectors =>
              /\ Account!Refreshed(s) \in Account!Connector
              /\ s \notin SynapEntries => Account!Refreshed(s) = connectors[s]
         /\ settings' = settings /\ s \in DOMAIN connectors' =>
              /\ connectors'[s] = Account!Fresh(s) => Settled(s)'
              /\ s \in DOMAIN connectors /\ connectors'[s] = Account!Refreshed(s) => Settled(s)'
<1>1. Account!Fresh(s) \in Account!Connector
  BY DEF Account!Fresh, Account!Connector
<1>2. ASSUME s \in DOMAIN connectors PROVE Account!Refreshed(s) \in Account!Connector
  BY <1>2 DEF Account!Refreshed, Account!Connector, ConnectorsAreSound
<1>3. ASSUME s \notin SynapEntries PROVE Account!Refreshed(s) = connectors[s]
  BY <1>3 DEF Account!Refreshed
<1>4. ASSUME settings' = settings, s \in DOMAIN connectors', connectors'[s] = Account!Fresh(s)
      PROVE  Settled(s)'
  <2>1. CASE s \in SynapEntries
    <3>1. PICK u \in BOOLEAN : u = (s \in settings.urls)
      <4>1. CASE s \in settings.urls
        <5>1. TRUE = (s \in settings.urls)
          BY <4>1
        <5> QED BY <5>1
      <4>2. CASE s \notin settings.urls
        <5>1. FALSE = (s \in settings.urls)
          BY <4>2
        <5> QED BY <5>1
      <4> QED BY <4>1, <4>2
    <3>2. connectors'[s] = [url |-> u, active |-> u /\ settings.key]
      BY <1>4, <2>1, <3>1 DEF Account!Fresh
    <3>3. (s \in settings.urls \/ u) = u
      BY <3>1
    <3> QED BY <1>4, <2>1, <3>2, <3>3 DEF Settled, Account!Refreshed
  <2>2. CASE s \notin SynapEntries
    BY <1>4, <2>2 DEF Settled
  <2> QED BY <2>1, <2>2
<1>5. ASSUME settings' = settings, s \in DOMAIN connectors', s \in DOMAIN connectors,
             connectors'[s] = Account!Refreshed(s)
      PROVE  Settled(s)'
  <2>1. CASE s \in SynapEntries
    <3>1. PICK u \in BOOLEAN : u = (s \in settings.urls \/ connectors[s].url)
      BY <1>5 DEF ConnectorsAreSound, Account!Connector
    <3>2. connectors'[s] = [url |-> u, active |-> u /\ settings.key]
      BY <1>5, <2>1, <3>1 DEF Account!Refreshed
    <3>3. (s \in settings.urls \/ u) = u
      BY <3>1
    <3> QED BY <1>5, <2>1, <3>2, <3>3 DEF Settled, Account!Refreshed
  <2>2. CASE s \notin SynapEntries
    BY <1>5, <2>2 DEF Settled
  <2> QED BY <2>1, <2>2
<1> QED BY <1>1, <1>2, <1>3, <1>4, <1>5

\* A request that is given slugs of nobody else, none of them committed, leaves
\* the others theirs.
LEMMA RequestGoesOn ==
  ASSUME AccountInv, UNCHANGED <<users, connectors, settings, touched, renamed>>,
         NEW c \in Clients, NEW v \in Signups, signup' = [signup EXCEPT ![c] = v],
         v.step = "commit" /\ v.role = "admin" => Account!Seeds \subseteq v.slugs,
         v.slugs \cap DOMAIN connectors = {},
         \A d \in Clients \ {c} : v.slugs \cap signup[d].slugs = {}
  PROVE  AccountInv'
<1>1. signup' \in [Clients -> Signups]
  BY DEF AccountInv
<1>2. SlugsAreOwn'
  BY DEF AccountInv, SlugsAreOwn, Account!Seeds, Account!Entries
<1>3. ConnectorsAreSound' /\ OneAdmin'
  BY DEF AccountInv, ConnectorsAreSound, OneAdmin, Admins
<1>4. SeededInv'
  BY DEF AccountInv, SeededInv, Admins, Account!Entries, Settled, Account!Refreshed
<1> QED BY <1>1, <1>2, <1>3, <1>4 DEF AccountInv

\* A start of the server: the catalogue grows, and only what was touched changes.
LEMMA StartSeeds ==
  ASSUME AccountInv, Account!Start
  PROVE  AccountInv' /\ Account!SeedingChanges
<1> DEFINE g == [s \in Account!Entries |->
                    IF s \in DOMAIN connectors THEN Account!Refreshed(s) ELSE Account!Fresh(s)]
<1>1. UNCHANGED <<users, signup, settings, renamed>> /\ \A c \in Clients : signup[c] = Account!Idle
  BY DEF Account!Start, Account!Resting
<1>2. CASE ~Account!HasAdmin
  <2>1. UNCHANGED <<connectors, touched>>
    BY <1>2 DEF Account!Start
  <2>2. SeededInv'
    BY <1>1, <2>1 DEF AccountInv, SeededInv, Admins, Account!Entries, Settled, Account!Refreshed
  <2> QED BY <1>1, <2>1, <2>2
          DEF AccountInv, SlugsAreOwn, Account!Seeds, Account!Entries, ConnectorsAreSound, OneAdmin,
              Admins, Account!SeedingChanges
<1>3. CASE Account!HasAdmin
  <2>0. connectors' = Account!With(connectors, g) /\ touched' = {}
    BY <1>3 DEF Account!Start
  <2>1. \A s \in DOMAIN g : /\ s \in Account!Slugs
                            /\ s \in DOMAIN connectors => g[s] = Account!Refreshed(s)
                            /\ s \notin DOMAIN connectors => g[s] = Account!Fresh(s)
    BY DEF Account!Entries, Account!Slugs
  <2>2. DOMAIN g = Account!Entries
    OBVIOUS
  <2> HIDE DEF g
  <2>3. /\ DOMAIN connectors' = DOMAIN connectors \cup DOMAIN g
        /\ \A s \in DOMAIN g : connectors'[s] = g[s]
        /\ \A s \in DOMAIN connectors \ DOMAIN g : connectors'[s] = connectors[s]
    BY <2>0 DEF Account!With
  <2>4. ConnectorsAreSound /\ OneAdmin
    BY DEF AccountInv
  <2>5. ConnectorsAreSound'
    BY <2>1, <2>3, <2>4, SeededConnectors DEF ConnectorsAreSound
  <2>6. SlugsAreOwn' /\ signup' \in [Clients -> Signups]
    BY <1>1 DEF AccountInv, SlugsAreOwn, Account!Idle
  <2>7. OneAdmin'
    BY <1>1, <2>3, <2>4 DEF OneAdmin, Admins
  <2>8. SeededInv'
    <3>1. \A s \in DOMAIN g : Settled(s)'
      BY <1>1, <2>1, <2>3, <2>4, SeededConnectors
    <3>2. Account!Entries' = Account!Entries
      BY <1>1 DEF Account!Entries
    <3> QED BY <2>2, <3>1, <3>2 DEF SeededInv
  <2>9. Account!SeedingChanges
    <3>1. \A s \in Account!Entries \ touched : Settled(s)
      BY <1>3 DEF Account!HasAdmin, Admins, AccountInv, SeededInv
    <3>2. ASSUME NEW s \in DOMAIN g
          PROVE  \/ s \in DOMAIN connectors /\ connectors'[s] = connectors[s]
                 \/ s \in touched /\ (s \in DOMAIN connectors => s \in SynapEntries)
      <4>1. CASE s \in touched
        BY <2>1, <2>3, <2>4, <4>1, SeededConnectors
      <4>2. CASE s \notin touched
        <5>1. Settled(s)
          BY <2>2, <3>1, <4>2
        <5> QED BY <2>1, <2>3, <2>4, <5>1, SeededConnectors DEF Settled
      <4> QED BY <4>1, <4>2
    <3> QED BY <2>3, <3>2 DEF Account!SeedingChanges
  <2> QED BY <2>5, <2>6, <2>7, <2>8, <2>9 DEF AccountInv
<1> QED BY <1>2, <1>3

\* An administrator changes connectors of some slugs, and gives none that a request
\* has inserted; a slug that is lost is recorded.
LEMMA AdministerKeeps ==
  ASSUME AccountInv, NEW slugs, Account!Administer(slugs),
         \A x \in DOMAIN connectors \ slugs : x \in DOMAIN connectors' /\ connectors'[x] = connectors[x],
         \A x \in DOMAIN connectors' :
            /\ connectors'[x] \in Account!Connector
            /\ x \notin DOMAIN connectors => \A c \in Clients : x \notin signup[c].slugs,
         renamed \subseteq renamed', DOMAIN connectors \subseteq DOMAIN connectors' \cup renamed'
  PROVE  AccountInv'
<1>1. UNCHANGED <<users, signup, settings>> /\ touched' = touched \cup (slugs \cap Account!Slugs)
  BY DEF Account!Administer
<1>2. SlugsAreOwn'
  BY <1>1 DEF AccountInv, SlugsAreOwn, Account!Seeds, Account!Entries
<1>3. ConnectorsAreSound' /\ OneAdmin' /\ signup' \in [Clients -> Signups]
  BY <1>1 DEF AccountInv, ConnectorsAreSound, OneAdmin, Admins
<1>4. SeededInv'
  <2> SUFFICES ASSUME Admins # {}, NEW s \in Account!Entries \ touched' PROVE Settled(s)'
    BY <1>1 DEF SeededInv, Admins, Account!Entries
  <2>1. Settled(s) /\ s \notin slugs
    BY <1>1 DEF AccountInv, SeededInv, Account!Entries, Account!Slugs
  <2>2. s \in DOMAIN connectors' /\ connectors'[s] = connectors[s]
    BY <2>1 DEF Settled
  <2> QED BY <1>1, <2>1, <2>2, StaysSettled
<1> QED BY <1>2, <1>3, <1>4 DEF AccountInv

LEMMA CreateKeeps ==
  ASSUME AccountInv, NEW s \in Account!Slugs, NEW url \in BOOLEAN, Account!Create(s, url)
  PROVE  AccountInv'
<1>1. PICK slugs : slugs = {s}
  OBVIOUS
<1>2. Account!Administer(slugs) /\ Account!Unused(s) /\ renamed' = renamed
  BY <1>1 DEF Account!Create
<1>3. PICK v \in Account!Connector : v = [url |-> url, active |-> TRUE]
  BY DEF Account!Connector
<1>4. connectors' = Account!With(connectors, [x \in {s} |-> v])
  BY <1>3 DEF Account!Create
<1>5. /\ DOMAIN connectors' = DOMAIN connectors \cup {s} /\ connectors'[s] = v
      /\ \A x \in DOMAIN connectors \ {s} : connectors'[x] = connectors[x]
  BY <1>4 DEF Account!With
<1> QED BY <1>1, <1>2, <1>5, AdministerKeeps DEF AccountInv, ConnectorsAreSound, Account!Unused

LEMMA UpdateKeeps ==
  ASSUME AccountInv, NEW s \in Account!Slugs, NEW slug, NEW v \in Account!Connector, Account!Update(s, slug, v)
  PROVE  AccountInv'
<1>1. PICK slugs : slugs = {s, slug}
  OBVIOUS
<1>2. /\ Account!Administer(slugs) /\ (slug = s \/ Account!Unused(slug))
      /\ renamed \subseteq renamed' /\ (slug # s => s \in renamed')
  BY <1>1 DEF Account!Update
<1>3. PICK rest : rest = Account!Without(connectors, s)
  OBVIOUS
<1>4. DOMAIN rest = DOMAIN connectors \ {s} /\ \A x \in DOMAIN rest : rest[x] = connectors[x]
  BY <1>3 DEF Account!Without
<1>5. connectors' = Account!With(rest, [x \in {slug} \cap Account!Slugs |-> v])
  BY <1>3 DEF Account!Update
<1>6. /\ DOMAIN connectors' = DOMAIN rest \cup ({slug} \cap Account!Slugs)
      /\ slug \in Account!Slugs => connectors'[slug] = v
      /\ \A x \in DOMAIN rest \ {slug} : connectors'[x] = rest[x]
  BY <1>5 DEF Account!With
<1>7. \A x \in DOMAIN connectors' :
         \/ x = slug /\ connectors'[x] = v
         \/ x # slug /\ x \in DOMAIN connectors \ {s} /\ connectors'[x] = connectors[x]
  <2>1. slug \in DOMAIN connectors' => slug \in Account!Slugs
    BY <1>2, <1>4, <1>6 DEF Account!Unused
  <2> QED BY <1>4, <1>6, <2>1
<1>8. \A x \in DOMAIN connectors' : connectors'[x] \in Account!Connector
  BY <1>7 DEF AccountInv, ConnectorsAreSound
<1>9. \A x \in DOMAIN connectors \ slugs : x \in DOMAIN connectors' /\ connectors'[x] = connectors[x]
  BY <1>1, <1>4, <1>6
<1>10. \A x \in DOMAIN connectors' : x \notin DOMAIN connectors => \A c \in Clients : x \notin signup[c].slugs
  <2>1. s \in DOMAIN connectors
    BY DEF Account!Update
  <2> QED BY <1>2, <1>7, <2>1 DEF Account!Unused
<1>11. DOMAIN connectors \subseteq DOMAIN connectors' \cup renamed'
  BY <1>2, <1>4, <1>6
<1> QED BY <1>2, <1>8, <1>9, <1>10, <1>11, AdministerKeeps

LEMMA DisableKeeps ==
  ASSUME AccountInv, NEW s \in Account!Slugs, Account!Disable(s)
  PROVE  AccountInv'
<1>1. PICK slugs : slugs = {s}
  OBVIOUS
<1>2. Account!Administer(slugs) /\ renamed' = renamed
  BY <1>1 DEF Account!Disable
<1>3. /\ DOMAIN connectors' = DOMAIN connectors
      /\ \A x \in DOMAIN connectors \ slugs : connectors'[x] = connectors[x]
  BY <1>1 DEF Account!Disable
<1>4. \A x \in DOMAIN connectors' : connectors'[x] \in Account!Connector
  BY DEF Account!Disable, AccountInv, ConnectorsAreSound, Account!Connector
<1> QED BY <1>2, <1>3, <1>4, AdministerKeeps

\* The commit of a sign-up.  A new administrator has inserted all that is always
\* listed, so that there is no other one, or all of it was renamed.
LEMMA CommitKeeps ==
  ASSUME AccountInv, NEW c \in Clients, Account!Commit(c)
  PROVE  AccountInv'
<1> DEFINE mine == signup[c].slugs
           email == signup[c].email
<1>0. mine \subseteq Account!Slugs /\ signup[c].step = "commit" /\ UNCHANGED <<settings, renamed>>
  BY DEF AccountInv, Signups, Account!Commit
<1>1. /\ DOMAIN connectors' = DOMAIN connectors \cup mine
      /\ \A s \in mine : connectors'[s] = Account!Fresh(s)
      /\ \A s \in DOMAIN connectors \ mine : connectors'[s] = connectors[s]
  BY DEF Account!Commit, Account!With
<1>2. /\ DOMAIN users' = DOMAIN users \cup {email}
      /\ users'[email] = signup[c].role
      /\ \A e \in DOMAIN users \ {email} : users'[e] = users[e]
  BY DEF Account!Commit, Account!With
<1>3. /\ signup' \in [Clients -> Signups] /\ signup'[c].slugs = {} /\ signup'[c].step = "idle"
      /\ \A d \in Clients \ {c} : signup'[d] = signup[d]
  BY IdleIsSignup DEF Account!Commit, AccountInv, Account!Idle
<1>4. SlugsAreOwn'
  <2>1. Account!Seeds' = Account!Seeds
    BY <1>0 DEF Account!Seeds, Account!Entries
  <2> QED BY <1>1, <1>3, <2>1 DEF AccountInv, SlugsAreOwn
<1>5. ConnectorsAreSound'
  BY <1>0, <1>1, SeededConnectors DEF AccountInv, ConnectorsAreSound, Account!Slugs
<1>6. CASE signup[c].role = "admin"
  <2>1. Account!Seeds \subseteq mine /\ mine \cap DOMAIN connectors = {}
    BY <1>0, <1>6 DEF AccountInv, SlugsAreOwn
  <2>2. Always \subseteq mine /\ Account!Entries \subseteq mine
    BY <2>1 DEF Always, Account!Seeds, Account!Entries
  <2>3. Admins = {} \/ Always \subseteq renamed
    BY <2>1, <2>2 DEF AccountInv, OneAdmin
  <2>4. Admins = {} => Admins' = {email}
    BY <1>2, <1>6 DEF Admins
  <2>5. OneAdmin'
    BY <1>0, <1>1, <2>2, <2>3, <2>4 DEF OneAdmin
  <2>6. SeededInv'
    <3>1. \A s \in Account!Entries : s \in Account!Slugs /\ s \in DOMAIN connectors' /\ connectors'[s] = Account!Fresh(s)
      BY <1>0, <1>1, <2>2
    <3>2. ConnectorsAreSound
      BY DEF AccountInv
    <3>3. \A s \in Account!Entries : Settled(s)'
      BY <1>0, <3>1, <3>2, SeededConnectors
    <3> QED BY <1>0, <3>3 DEF SeededInv, Account!Entries
  <2> QED BY <1>3, <1>4, <1>5, <2>5, <2>6 DEF AccountInv
<1>7. CASE signup[c].role # "admin"
  <2>1. Admins' \subseteq Admins
    BY <1>2, <1>7 DEF Admins
  <2>2. mine \cap DOMAIN connectors = {} /\ touched' = touched
    BY <1>7 DEF AccountInv, SlugsAreOwn, Account!Commit
  <2>3. SeededInv'
    <3> SUFFICES ASSUME Admins # {}, NEW s \in Account!Entries \ touched PROVE Settled(s)'
      BY <1>0, <2>1, <2>2 DEF SeededInv, Account!Entries
    <3>1. Settled(s)
      BY DEF AccountInv, SeededInv
    <3>2. s \in DOMAIN connectors' /\ connectors'[s] = connectors[s]
      BY <1>1, <2>2, <3>1 DEF Settled
    <3> QED BY <1>0, <3>1, <3>2, StaysSettled
  <2>4. OneAdmin'
    BY <1>0, <1>1, <2>1 DEF AccountInv, OneAdmin
  <2> QED BY <1>3, <1>4, <1>5, <2>3, <2>4 DEF AccountInv
<1> QED BY <1>6, <1>7

LEMMA NextAccount == AccountInv /\ [Account!Next]_(Account!vars) => AccountInv'
<1> SUFFICES ASSUME AccountInv, [Account!Next]_(Account!vars) PROVE AccountInv'
  OBVIOUS
<1> USE DEF Account!history
<1>1. CASE Account!Start
  BY <1>1, StartSeeds
<1>2. CASE Account!Reconfigure
  <2>1. UNCHANGED <<users, signup, connectors, renamed>> /\ touched' = Account!Slugs
    BY <1>2 DEF Account!Reconfigure
  <2>2. \A c \in Clients : signup[c] = Account!Idle
    BY <1>2 DEF Account!Reconfigure, Account!Resting
  <2>3. SeededInv'
    BY <2>1 DEF SeededInv, Account!Entries, Account!Slugs
  <2> QED BY <2>1, <2>2, <2>3 DEF AccountInv, SlugsAreOwn, Account!Idle, ConnectorsAreSound, OneAdmin, Admins
<1>3. ASSUME NEW s \in Account!Slugs, NEW url \in BOOLEAN, Account!Create(s, url) PROVE AccountInv'
  BY <1>3, CreateKeeps
<1>3a. ASSUME NEW s \in Account!Slugs, NEW slug, NEW v \in Account!Connector, Account!Update(s, slug, v)
       PROVE  AccountInv'
  BY <1>3a, UpdateKeeps
<1>3b. ASSUME NEW s \in Account!Slugs, Account!Disable(s) PROVE AccountInv'
  BY <1>3b, DisableKeeps
<1>4. ASSUME NEW c \in Clients, NEW e \in Emails, Account!Count(c, e) PROVE AccountInv'
  <2> DEFINE v == [step |-> "insert", email |-> e, slugs |-> {},
                   role |-> IF DOMAIN users = {} THEN "admin" ELSE "user"]
  <2>1. v \in Signups
    BY DEF Signups, Account!Roles
  <2> QED BY <1>4, <2>1, RequestGoesOn DEF Account!Count
<1>5. ASSUME NEW c \in Clients, Account!Insert(c) PROVE AccountInv'
  <2> DEFINE v == [signup[c] EXCEPT !.step = IF signup[c].role = "admin" THEN "seed" ELSE "commit"]
  <2>1. signup' = [signup EXCEPT ![c] = v]
    BY <1>5 DEF Account!Insert, Account!Set
  <2>2. v \in Signups /\ v.slugs = signup[c].slugs /\ ~(v.step = "commit" /\ v.role = "admin")
    BY DEF AccountInv, Signups
  <2> HIDE DEF v
  <2>3. v.slugs \cap DOMAIN connectors = {} /\ \A d \in Clients \ {c} : v.slugs \cap signup[d].slugs = {}
    BY <2>2 DEF AccountInv, SlugsAreOwn
  <2> QED BY <1>5, <2>1, <2>2, <2>3, RequestGoesOn DEF Account!Insert
<1>6. ASSUME NEW c \in Clients, Account!Seeded(c) PROVE AccountInv'
  <2> DEFINE v == [signup[c] EXCEPT !.step = "commit"]
  <2>1. signup' = [signup EXCEPT ![c] = v]
    BY <1>6 DEF Account!Seeded, Account!Set
  <2>2. v \in Signups /\ v.slugs = signup[c].slugs
    BY DEF AccountInv, Signups
  <2>3. Account!Seeds \subseteq v.slugs
    BY <1>6, <2>2 DEF Account!Seeded
  <2> HIDE DEF v
  <2>4. v.slugs \cap DOMAIN connectors = {} /\ \A d \in Clients \ {c} : v.slugs \cap signup[d].slugs = {}
    BY <2>2 DEF AccountInv, SlugsAreOwn
  <2> QED BY <1>6, <2>1, <2>2, <2>3, <2>4, RequestGoesOn DEF Account!Seeded
<1>7. ASSUME NEW c \in Clients, Account!Commit(c) PROVE AccountInv'
  BY <1>7, CommitKeeps
<1>8. ASSUME NEW c \in Clients, Account!Fail(c) PROVE AccountInv'
  BY <1>8, IdleIsSignup, RequestGoesOn DEF Account!Fail, Account!Idle
<1>9. ASSUME NEW c \in Clients, NEW s \in Account!Slugs, Account!Seed(c, s) PROVE AccountInv'
  <2> DEFINE v == [signup[c] EXCEPT !.slugs = signup[c].slugs \cup {s}]
  <2>1. signup' = [signup EXCEPT ![c] = v]
    BY <1>9 DEF Account!Seed, Account!Set
  <2>2. v \in Signups /\ v.slugs = signup[c].slugs \cup {s} /\ v.step = "seed"
    BY <1>9 DEF Account!Seed, AccountInv, Signups
  <2>3. s \notin DOMAIN connectors /\ \A d \in Clients \ {c} : s \notin signup[d].slugs
    BY <1>9 DEF Account!Seed, Account!Unused
  <2> HIDE DEF v
  <2>4. v.slugs \cap DOMAIN connectors = {} /\ \A d \in Clients \ {c} : v.slugs \cap signup[d].slugs = {}
    BY <2>2, <2>3 DEF AccountInv, SlugsAreOwn
  <2> QED BY <1>9, <2>1, <2>2, <2>4, RequestGoesOn DEF Account!Seed
<1>10. CASE UNCHANGED Account!vars
  <2>1. UNCHANGED <<users, signup, connectors, settings, touched, renamed>>
    BY <1>10 DEF Account!vars
  <2>2. SlugsAreOwn' /\ signup' \in [Clients -> Signups]
    BY <2>1 DEF AccountInv, SlugsAreOwn, Account!Seeds, Account!Entries
  <2>3. ConnectorsAreSound' /\ OneAdmin'
    BY <2>1 DEF AccountInv, ConnectorsAreSound, OneAdmin, Admins
  <2>4. SeededInv'
    BY <2>1 DEF AccountInv, SeededInv, Admins, Account!Entries, Settled, Account!Refreshed
  <2> QED BY <2>2, <2>3, <2>4 DEF AccountInv
<1> QED BY <1>1, <1>2, <1>3, <1>3a, <1>3b, <1>4, <1>5, <1>6, <1>7, <1>8, <1>9, <1>10 DEF Account!Next

-----------------------------------------------------------------------------
(* Evaluations *)

\* Every run is rated, so that the UPDATE of a preferring request takes all rows:
\* once it is done, the request holds them all, and each of them is plain.  No
\* other request has a preferred row to commit.
Transactions == [run : EvaluatedRuns \cup {"none"}, preferred : BOOLEAN,
                 step : {"idle", "clear", "read", "update", "commit"}]
EvaluationType ==
    /\ rows \in [EvaluatedRuns -> Evaluation!Values]
    /\ tx \in [Clients -> Transactions]
    /\ todo \in [Clients -> SUBSET EvaluatedRuns]
    /\ DOMAIN wrote = Clients
Sound(c) ==
    /\ tx[c].step = "idle" => DOMAIN wrote[c] = {} /\ ~tx[c].preferred
    /\ tx[c].step # "idle" => tx[c].run \in EvaluatedRuns
    /\ tx[c].preferred /\ tx[c].step = "clear" => EvaluatedRuns \subseteq DOMAIN wrote[c] \cup todo[c]
    /\ tx[c].preferred /\ tx[c].step # "clear" => EvaluatedRuns \subseteq DOMAIN wrote[c]
    /\ \A r \in DOMAIN wrote[c] :
        \/ wrote[c][r] = "plain"
        \/ /\ tx[c].preferred /\ tx[c].step = "commit"
           /\ r = tx[c].run /\ wrote[c][r] = "preferred"
WritesAreSound == \A c \in Clients : Sound(c)
OnlyPreferred == \A r, s \in EvaluatedRuns : rows[r] = "preferred" /\ rows[s] = "preferred" => r = s
EvaluationInv == EvaluationType /\ WritesAreSound /\ OnlyPreferred

LEMMA InitEvaluation == Evaluation!Init => EvaluationInv
<1> SUFFICES ASSUME Evaluation!Init PROVE EvaluationInv
  OBVIOUS
<1>1. rows \in [EvaluatedRuns -> Evaluation!Values]
  BY DEF Evaluation!Init, Evaluation!Values
<1>2. /\ tx \in [Clients -> Transactions] /\ \A c \in Clients : tx[c] = Evaluation!Idle
      /\ todo \in [Clients -> SUBSET EvaluatedRuns]
      /\ DOMAIN wrote = Clients /\ \A c \in Clients : DOMAIN wrote[c] = {}
  BY DEF Evaluation!Init, Evaluation!Idle, Transactions
<1>3. WritesAreSound
  BY <1>2 DEF WritesAreSound, Sound, Evaluation!Idle
<1>4. OnlyPreferred
  <2> DEFINE P == {r \in EvaluatedRuns : rows[r] = "preferred"}
  <2>1. IsFiniteSet(P) /\ Cardinality(P) <= 1
    <3>1. P \in SUBSET EvaluatedRuns
      OBVIOUS
    <3>2. Cardinality(P) <= 1
      BY SameCardinality DEF Evaluation!Init
    <3> HIDE DEF P
    <3> QED BY <3>1, <3>2, EvaluatedAssumption, FS_Subset
  <2>2. ASSUME NEW r \in P, NEW s \in P, r # s PROVE FALSE
    <3>1. IsFiniteSet({r}) /\ Cardinality({r}) = 1
      BY FS_Singleton
    <3>2. Cardinality({r} \cup {s}) = 2
      <4>1. s \notin {r}
        BY <2>2
      <4> QED BY <3>1, <4>1, FS_AddElement
    <3>3. Cardinality({r} \cup {s}) <= Cardinality(P)
      BY <2>1, FS_Subset
    <3>4. Cardinality(P) \in Nat
      BY <2>1, FS_CardinalityType
    <3> QED BY <2>1, <3>2, <3>3, <3>4
  <2> QED BY <2>2 DEF OnlyPreferred
<1> QED BY <1>1, <1>2, <1>3, <1>4 DEF EvaluationInv, EvaluationType

\* A step of one request, which leaves its writes sound, leaves those of the others.
LEMMA TransactionGoesOn ==
  ASSUME EvaluationInv, EvaluationType', OnlyPreferred', NEW c \in Clients, Sound(c)',
         \A d \in Clients \ {c} :
             tx'[d] = tx[d] /\ todo'[d] = todo[d] /\ wrote'[d] = wrote[d]
  PROVE  EvaluationInv'
<1>1. ASSUME NEW d \in Clients \ {c} PROVE Sound(d)'
  <2>1. Sound(d)
    BY DEF EvaluationInv, WritesAreSound
  <2> QED BY <2>1 DEF Sound
<1> QED BY <1>1 DEF EvaluationInv, WritesAreSound

LEMMA NextEvaluation == EvaluationInv /\ [Evaluation!Next]_(Evaluation!vars) => EvaluationInv'
<1> SUFFICES ASSUME EvaluationInv, [Evaluation!Next]_(Evaluation!vars) PROVE EvaluationInv'
  OBVIOUS
<1> USE DEF EvaluationType
<1>0. \A c \in Clients : Sound(c)
  BY DEF EvaluationInv, WritesAreSound
<1>1. ASSUME NEW c \in Clients, NEW r \in EvaluatedRuns, NEW preferred \in BOOLEAN,
             Evaluation!Begin(c, r, preferred)
      PROVE  EvaluationInv'
  <2> DEFINE t == [run |-> r, preferred |-> preferred,
                   step |-> IF preferred THEN "clear" ELSE "read"]
  <2>1. t \in Transactions
    BY DEF Transactions
  <2>2. tx' = [tx EXCEPT ![c] = t] /\ UNCHANGED <<rows, wrote>> /\ tx[c].step = "idle"
    BY <1>1 DEF Evaluation!Begin, Evaluation!Idle
  <2>3. todo' \in [Clients -> SUBSET EvaluatedRuns] /\ (preferred => todo'[c] = EvaluatedRuns)
    BY <1>1 DEF Evaluation!Begin, Evaluation!Snapshot, EvaluationInv, Evaluation!Values
  <2>4. \A d \in Clients \ {c} : tx'[d] = tx[d] /\ todo'[d] = todo[d]
    BY <1>1 DEF Evaluation!Begin, EvaluationInv
  <2>5. Sound(c)'
    BY <1>0, <2>2, <2>3 DEF EvaluationInv, Sound
  <2> QED BY <2>1, <2>2, <2>3, <2>4, <2>5, TransactionGoesOn DEF EvaluationInv, OnlyPreferred
<1>2. ASSUME NEW c \in Clients, NEW r \in EvaluatedRuns, Evaluation!Clear(c, r) PROVE EvaluationInv'
  <2>1. tx[c].step = "clear" /\ UNCHANGED <<rows, tx>> /\ todo' = [todo EXCEPT ![c] = @ \ {r}]
    BY <1>2 DEF Evaluation!Clear
  <2>2. /\ DOMAIN wrote' = Clients /\ \A d \in Clients \ {c} : wrote'[d] = wrote[d]
        /\ wrote'[c] = [x \in DOMAIN wrote[c] \cup {r} |-> IF x = r THEN "plain" ELSE wrote[c][x]]
    BY <1>2 DEF Evaluation!Clear, Evaluation!Write, EvaluationInv
  <2>3. Sound(c)'
    BY <1>0, <2>1, <2>2 DEF EvaluationInv, Sound
  <2> QED BY <2>1, <2>2, <2>3, TransactionGoesOn DEF EvaluationInv, OnlyPreferred
<1>3. ASSUME NEW c \in Clients, Evaluation!Cleared(c) PROVE EvaluationInv'
  <2> DEFINE t == [tx[c] EXCEPT !.step = "read"]
  <2>1. t \in Transactions /\ t.run = tx[c].run /\ t.preferred = tx[c].preferred /\ t.step = "read"
    BY DEF EvaluationInv, Transactions
  <2>2. /\ tx' = [tx EXCEPT ![c] = t] /\ UNCHANGED <<rows, todo, wrote>>
        /\ tx[c].step = "clear" /\ todo[c] = {}
    BY <1>3 DEF Evaluation!Cleared, Evaluation!Step
  <2> HIDE DEF t
  <2>3. Sound(c)'
    BY <1>0, <2>1, <2>2 DEF EvaluationInv, Sound
  <2> QED BY <2>1, <2>2, <2>3, TransactionGoesOn DEF EvaluationInv, OnlyPreferred
<1>4. ASSUME NEW c \in Clients, Evaluation!Read(c) PROVE EvaluationInv'
  <2>1. tx[c].step = "read" /\ UNCHANGED <<rows, todo, wrote>>
    BY <1>4 DEF Evaluation!Read
  <2>2. Evaluation!Seen(c, tx[c].run) # "absent"
    BY <1>0, <2>1 DEF Evaluation!Seen, EvaluationInv, Evaluation!Values, Sound
  <2>3. PICK st \in {"commit", "update"} : tx' = [tx EXCEPT ![c].step = st]
    BY <1>4, <2>2 DEF Evaluation!Read, Evaluation!Step
  <2> DEFINE t == [tx[c] EXCEPT !.step = st]
  <2>4. t \in Transactions /\ t.run = tx[c].run /\ t.preferred = tx[c].preferred /\ t.step = st
    BY DEF EvaluationInv, Transactions
  <2>5. tx' = [tx EXCEPT ![c] = t]
    BY <2>3
  <2> HIDE DEF t
  <2>6. Sound(c)'
    BY <1>0, <2>1, <2>4, <2>5 DEF EvaluationInv, Sound
  <2> QED BY <2>1, <2>4, <2>5, <2>6, TransactionGoesOn DEF EvaluationInv, OnlyPreferred
<1>5. ASSUME NEW c \in Clients, Evaluation!Flush(c) PROVE EvaluationInv'
  <2> DEFINE t == [tx[c] EXCEPT !.step = "commit"]
  <2>1. t \in Transactions /\ t.run = tx[c].run /\ t.preferred = tx[c].preferred /\ t.step = "commit"
    BY DEF EvaluationInv, Transactions
  <2>2. /\ tx' = [tx EXCEPT ![c] = t] /\ UNCHANGED <<rows, todo>>
        /\ tx[c].step = "update"
    BY <1>5 DEF Evaluation!Flush, Evaluation!Step, EvaluationInv, Transactions
  <2>3. /\ DOMAIN wrote' = Clients /\ \A d \in Clients \ {c} : wrote'[d] = wrote[d]
        /\ wrote'[c] = [x \in DOMAIN wrote[c] \cup {tx[c].run} |->
                            IF x = tx[c].run THEN Evaluation!Value(tx[c].preferred) ELSE wrote[c][x]]
    BY <1>5 DEF Evaluation!Flush, Evaluation!Write, EvaluationInv
  <2> HIDE DEF t
  <2>4. Sound(c)'
    BY <1>0, <2>1, <2>2, <2>3 DEF EvaluationInv, Sound, Evaluation!Value
  <2> QED BY <2>1, <2>2, <2>3, <2>4, TransactionGoesOn DEF EvaluationInv, OnlyPreferred
<1>6. ASSUME NEW c \in Clients, Evaluation!Fail(c) PROVE EvaluationInv'
  <2>1. Evaluation!Idle \in Transactions
    BY DEF Evaluation!Idle, Transactions
  <2>2. /\ tx' = [tx EXCEPT ![c] = Evaluation!Idle] /\ todo' = [todo EXCEPT ![c] = {}]
        /\ wrote' = [wrote EXCEPT ![c] = <<>>] /\ UNCHANGED rows
    BY <1>6 DEF Evaluation!Fail
  <2>3. Sound(c)'
    BY <2>2 DEF EvaluationInv, Sound, Evaluation!Idle
  <2> QED BY <2>1, <2>2, <2>3, TransactionGoesOn DEF EvaluationInv, OnlyPreferred
<1>7. ASSUME NEW c \in Clients, Evaluation!Commit(c) PROVE EvaluationInv'
  <2>1. Evaluation!Idle \in Transactions
    BY DEF Evaluation!Idle, Transactions
  <2>2. /\ tx' = [tx EXCEPT ![c] = Evaluation!Idle] /\ UNCHANGED todo
        /\ wrote' = [wrote EXCEPT ![c] = <<>>]
        /\ rows' = [r \in EvaluatedRuns |-> Evaluation!Seen(c, r)] /\ tx[c].step = "commit"
    BY <1>7 DEF Evaluation!Commit
  <2>3. Sound(c)'
    BY <2>2 DEF EvaluationInv, Sound, Evaluation!Idle
  <2>4. rows' \in [EvaluatedRuns -> Evaluation!Values]
    BY <1>0, <2>2 DEF EvaluationInv, Sound, Evaluation!Seen, Evaluation!Values
  <2>5. OnlyPreferred'
    BY <1>0, <2>2 DEF EvaluationInv, Sound, Evaluation!Seen, OnlyPreferred
  <2> QED BY <2>1, <2>2, <2>3, <2>4, <2>5, TransactionGoesOn DEF EvaluationInv
<1>8. CASE UNCHANGED Evaluation!vars
  BY <1>8 DEF Evaluation!vars, EvaluationInv, WritesAreSound, Sound, OnlyPreferred
<1> QED BY <1>1, <1>2, <1>3, <1>4, <1>5, <1>6, <1>7, <1>8 DEF Evaluation!Next

LEMMA EvaluationsAgree == EvaluationInv => Evaluation!OnePreferred
<1> SUFFICES ASSUME EvaluationInv PROVE Evaluation!OnePreferred
  OBVIOUS
<1> DEFINE P == {r \in EvaluatedRuns : rows[r] = "preferred"}
<1>1. Evaluation!OnePreferred <=> Cardinality(P) <= 1
  BY SameCardinality DEF Evaluation!OnePreferred
<1>2. \A r, s \in P : r = s
  BY DEF EvaluationInv, OnlyPreferred
<1> HIDE DEF P
<1> QED BY <1>1, <1>2, AtMostOne

-----------------------------------------------------------------------------
(* GroundTruths *)

\* What an evaluator has read is of the file as it is.
UpToDate(e) ==
    /\ seen[e] # Truth!Nothing => seen[e].version = file
    /\ \A r \in DocumentRuns : flushed[e][r] \in {"none", "same", file}

\* A pipeline evaluates its run, a caller those that are done.
Mine(e) == IF e \in DocumentRuns THEN {e} ELSE finished

\* Only who evaluates has runs pending, compared or flushed, each in one of these
\* stages; who has the row locked evaluates.
TruthType ==
    /\ Truth!TypeOK
    /\ \A e \in Truth!Evaluators : at[e] # "evaluate" =>
          pending[e] = {} /\ seen[e] = Truth!Nothing /\ Truth!Flushed(e) = {}
    /\ holder # "none" => at[holder] = "evaluate"
    /\ \A e \in Truth!Evaluators \ Uploads : at[e] # "saved"
    /\ file = "none" => ~row /\ Truth!Active \cap Uploads = {}
    /\ \A e \in Truth!Evaluators :
          /\ pending[e] \cup Truth!Flushed(e) \subseteq Mine(e)
          /\ pending[e] \cap Truth!Flushed(e) = {}
          /\ seen[e] # Truth!Nothing => seen[e].run \in Mine(e) \ (pending[e] \cup Truth!Flushed(e))
    /\ \A r \in DocumentRuns \ finished :
          /\ evals[r] = "none" /\ flushed[r][r] # "same"
          /\ seen[r] # Truth!Nothing => seen[r].loaded \in {"unread", "none"}

\* A caller that nothing ran beside compares every run with the file.
Handled(e, r) ==
    \/ r \in pending[e]
    \/ seen[e] # Truth!Nothing /\ seen[e].run = r /\ seen[e].loaded \in {"unread", evals[r]}
    \/ flushed[e][r] = file
    \/ flushed[e][r] = "same" /\ evals[r] = file
AloneInv ==
    \A e \in alone \cap Truth!Callers : e \in Truth!Active =>
        /\ Truth!Active = {e}
        /\ UpToDate(e)
        /\ at[e] = "evaluate" /\ Truth!HasGroundTruth(e) => \A r \in finished : Handled(e, r)

\* The evaluation of a run is that of the file, or an upload will make it so.
Owes(c, r) ==
    \/ at[c] = "saved"
    \/ r \in pending[c]
    \/ seen[c] # Truth!Nothing /\ seen[c].run = r /\ seen[c].version = file /\ seen[c].loaded # file
    \/ flushed[c][r] = file /\ file # "none"
Waiting == \E c \in Uploads : at[c] = "saved"
UndisturbedInv ==
    /\ \A e \in Truth!Evaluators : UpToDate(e) \/ (e = holder /\ Waiting)
    /\ \A r \in finished : evals[r] = file \/ \E c \in Uploads : Owes(c, r)
    /\ \A r \in DocumentRuns \ finished :
          at[r] = "evaluate" /\ pending[r] = {} /\ seen[r] = Truth!Nothing /\ flushed[r][r] = "none"
            => file = "none"

TruthInv == TruthType /\ AloneInv /\ (~disturbed => UndisturbedInv)

LEMMA InitTruth == Truth!Init => TruthInv
<1> SUFFICES ASSUME Truth!Init PROVE TruthInv
  OBVIOUS
<1> USE UploadsAssumption
<1>1. Truth!Active = {}
  BY DEF Truth!Init, Truth!Active
<1>2. \A e \in Truth!Evaluators : Truth!Flushed(e) = {}
  BY DEF Truth!Init, Truth!Flushed
<1>3. Truth!TypeOK
  BY DEF Truth!Init, Truth!TypeOK, Truth!Versions
<1>4. TruthType
  BY <1>1, <1>2, <1>3 DEF Truth!Init, TruthType, Truth!Evaluators
<1>5. AloneInv /\ UndisturbedInv
  BY <1>1 DEF Truth!Init, AloneInv, UndisturbedInv, UpToDate, Truth!Evaluators
<1> QED BY <1>4, <1>5 DEF TruthInv

\* Nobody who is at rest has compared anything.
LEMMA RestIsClean ==
  ASSUME TruthType, NEW e \in Truth!Evaluators, at[e] # "evaluate"
  PROVE  UpToDate(e) /\ ~Truth!Compared(e)
BY DEF TruthType, UpToDate, Truth!Compared, Truth!Flushed

\* The evaluators that are active after one of them has moved.
LEMMA Moved ==
  ASSUME TruthType, NEW e \in Truth!Evaluators, NEW s, Truth!Move(e, s)
  PROVE  /\ at'[e] = s /\ \A d \in Truth!Evaluators \ {e} : at'[d] = at[d]
         /\ s \in {"saved", "evaluate"} => Truth!Active' = Truth!Active \cup {e}
         /\ s \notin {"saved", "evaluate"} => Truth!Active' = Truth!Active \ {e}
<1>1. at'[e] = s /\ \A d \in Truth!Evaluators \ {e} : at'[d] = at[d]
  BY DEF Truth!Move, TruthType, Truth!TypeOK
<1> QED BY <1>1 DEF Truth!Active

LEMMA SaveFileKeeps ==
  ASSUME TruthInv, NEW c \in Truth!Callers, Truth!SaveFile(c)
  PROVE  TruthInv'
<1> USE UploadsAssumption
<1>t. TruthType
  BY DEF TruthInv
<1>0. /\ c \in Uploads /\ c \in Truth!Evaluators
      /\ at[c] = "idle" /\ at'[c] = "saved" /\ \A d \in Truth!Evaluators \ {c} : at'[d] = at[d]
      /\ Truth!Active' = Truth!Active \cup {c}
      /\ file' = c /\ UNCHANGED <<row, holder, finished, evals, pending, seen, flushed>>
  BY <1>t, Moved DEF Truth!SaveFile, Truth!Begin, Truth!Evaluators, Truth!Callers
<1>1. TruthType'
  <2>1. Truth!TypeOK'
    BY <1>t, <1>0 DEF Truth!SaveFile, Truth!Begin, Truth!Move, TruthType, Truth!TypeOK, Truth!Versions
  <2>2. \A e \in Truth!Evaluators : Truth!Flushed(e)' = Truth!Flushed(e)
    BY <1>0 DEF Truth!Flushed
  <2>3. holder # "none" => holder \in Truth!Evaluators /\ holder # c
    BY <1>t, <1>0 DEF TruthType, Truth!TypeOK, Truth!Versions, Truth!Evaluators, Truth!Callers
  <2> QED BY <1>t, <1>0, <2>1, <2>2, <2>3 DEF TruthType, Mine
<1>2. AloneInv'
  <2>1. Truth!Active = {} \/ alone' = {}
    BY DEF Truth!SaveFile, Truth!Begin
  <2>2. UpToDate(c)'
    BY <1>t, <1>0, RestIsClean DEF UpToDate, TruthType, Truth!Flushed
  <2>3. alone' \subseteq {c}
    BY DEF Truth!SaveFile, Truth!Begin
  <2> QED BY <1>0, <2>1, <2>2, <2>3 DEF AloneInv
<1>3. ASSUME ~disturbed' PROVE UndisturbedInv'
  <2>1. ~disturbed /\ \A e \in Truth!Evaluators \ {holder} : ~Truth!Compared(e)
    BY <1>3 DEF Truth!SaveFile
  <2>2. \A e \in Truth!Evaluators \ {holder} : UpToDate(e)'
    BY <1>t, <1>0, <2>1 DEF Truth!Compared, UpToDate, TruthType, Truth!Flushed
  <2>3. Waiting' /\ \A r \in DocumentRuns : Owes(c, r)'
    BY <1>0 DEF Waiting, Owes
  <2>4. ASSUME NEW r \in DocumentRuns \ finished, at'[r] = "evaluate", pending'[r] = {}
        PROVE  FALSE
    <3>1. r \in Truth!Evaluators /\ r # holder /\ r # c
      BY <1>t, <1>0 DEF Truth!Evaluators, TruthType, Truth!TypeOK, Truth!Versions, Truth!Callers
    <3> QED BY <1>0, <2>1, <2>4, <3>1 DEF Truth!Compared, Truth!First
  <2>5. finished \subseteq DocumentRuns
    BY <1>t DEF TruthType, Truth!TypeOK
  <2> QED BY <1>0, <2>2, <2>3, <2>4, <2>5 DEF UndisturbedInv
<1> QED BY <1>1, <1>2, <1>3 DEF TruthInv

\* What stays of the type invariant while an evaluator sets out: its runs are done,
\* or its own.
LEMMA BeginKeepsType ==
  ASSUME TruthType, NEW e \in Truth!Evaluators, at[e] # "evaluate",
         at'[e] = "evaluate", \A d \in Truth!Evaluators \ {e} : at'[d] = at[d],
         pending'[e] \subseteq Mine(e),
         \A d \in Truth!Evaluators \ {e} : pending'[d] = pending[d],
         UNCHANGED <<file, row, finished, evals, seen, flushed>>,
         holder' = holder \/ (holder' = e /\ e \in Uploads), Truth!TypeOK',
         file = "none" => e \notin Uploads
  PROVE  TruthType'
<1> USE UploadsAssumption
<1>1. \A d \in Truth!Evaluators : Truth!Flushed(d)' = Truth!Flushed(d)
  BY DEF Truth!Flushed
<1>2. Truth!Active' \cap Uploads \subseteq (Truth!Active \cup {e}) \cap Uploads
  BY DEF Truth!Active
<1>3. holder' # "none" => at'[holder'] = "evaluate"
  BY DEF TruthType, Truth!TypeOK, Truth!Versions, Truth!Evaluators, Truth!Callers
<1>4. Truth!Nothing' = Truth!Nothing
  BY DEF Truth!Nothing
<1> QED BY <1>1, <1>2, <1>3, <1>4 DEF TruthType, Mine

LEMMA FlushRowKeeps ==
  ASSUME TruthInv, NEW c \in Truth!Callers, NEW writes \in BOOLEAN, Truth!FlushRow(c, writes)
  PROVE  TruthInv'
<1> USE UploadsAssumption
<1>t. TruthType
  BY DEF TruthInv
<1>0. /\ c \in Uploads /\ c \in Truth!Evaluators /\ c \in Truth!Active
      /\ at[c] = "saved" /\ at'[c] = "evaluate" /\ \A d \in Truth!Evaluators \ {c} : at'[d] = at[d]
      /\ Truth!Active' = Truth!Active
      /\ pending'[c] = finished /\ \A d \in Truth!Evaluators \ {c} : pending'[d] = pending[d]
      /\ UNCHANGED <<file, row, finished, evals, seen, flushed, alone>>
      /\ holder' = holder \/ (holder' = c /\ holder = "none")
  BY <1>t, Moved DEF Truth!FlushRow, Truth!Evaluators, Truth!Callers, Truth!Active, TruthType, Truth!TypeOK
<1>1. TruthType'
  <2>1. Truth!TypeOK'
    <3>1. at' \in [Truth!Evaluators -> {"idle", "saved", "evaluate", "ended"}]
      BY <1>t DEF Truth!FlushRow, Truth!Move, TruthType, Truth!TypeOK
    <3>2. pending' \in [Truth!Evaluators -> SUBSET DocumentRuns]
      BY <1>t DEF Truth!FlushRow, TruthType, Truth!TypeOK
    <3>3. holder' \in Truth!Versions /\ disturbed' \in BOOLEAN
      BY <1>t, <1>0 DEF Truth!FlushRow, TruthType, Truth!TypeOK, Truth!Versions
    <3> QED BY <1>t, <1>0, <3>1, <3>2, <3>3 DEF TruthType, Truth!TypeOK
  <2>2. file # "none"
    BY <1>t, <1>0 DEF TruthType
  <2>3. pending'[c] \subseteq Mine(c)
    BY <1>0 DEF Mine
  <2> QED BY <1>t, <1>0, <2>1, <2>2, <2>3, BeginKeepsType
<1>2. AloneInv'
  BY <1>0 DEF TruthInv, AloneInv, UpToDate, Handled, Truth!Nothing
<1>3. ASSUME ~disturbed' PROVE UndisturbedInv'
  <2>1. ~disturbed /\ ~(holder # "none" /\ Truth!Compared(holder))
    BY <1>3 DEF Truth!FlushRow
  <2>2. UndisturbedInv
    BY <2>1 DEF TruthInv
  <2>3. \A e \in Truth!Evaluators : UpToDate(e)
    <3> SUFFICES ASSUME NEW e \in Truth!Evaluators, e = holder PROVE UpToDate(e)
      BY <2>2 DEF UndisturbedInv
    <3>1. ~Truth!Compared(e) /\ at[e] = "evaluate"
      BY <1>t, <2>1 DEF Truth!Evaluators, Truth!Callers, TruthType
    <3> QED BY <1>t, <3>1 DEF Truth!Compared, UpToDate, TruthType, Truth!Flushed
  <2>4. \A e \in Truth!Evaluators : UpToDate(e)'
    BY <1>0, <2>3 DEF UpToDate, Truth!Nothing
  <2>5. \A r \in finished : Owes(c, r)'
    BY <1>0 DEF Owes
  <2>6. \A r \in DocumentRuns \ finished : at'[r] = at[r] /\ pending'[r] = pending[r]
    BY <1>0 DEF Truth!Evaluators, Truth!Callers
  <2> QED BY <1>0, <2>2, <2>4, <2>5, <2>6 DEF UndisturbedInv, Truth!Nothing
<1> QED BY <1>1, <1>2, <1>3 DEF TruthInv

\* A recomputation and a pipeline set out alike.
LEMMA SetOutKeeps ==
  ASSUME TruthInv, NEW e \in Truth!Evaluators \ Uploads, Truth!Begin(e, "evaluate"),
         NEW S, pending' = [pending EXCEPT ![e] = S], S \subseteq DocumentRuns,
         S \subseteq Mine(e), e \in DocumentRuns => S # {},
         e \in Truth!Callers => S = finished,
         UNCHANGED <<file, row, holder, finished, evals, seen, flushed, disturbed>>
  PROVE  TruthInv'
<1> USE UploadsAssumption
<1>t. TruthType
  BY DEF TruthInv
<1>0. /\ at[e] = "idle" /\ at'[e] = "evaluate" /\ \A d \in Truth!Evaluators \ {e} : at'[d] = at[d]
      /\ Truth!Active' = Truth!Active \cup {e}
      /\ pending'[e] = S /\ \A d \in Truth!Evaluators \ {e} : pending'[d] = pending[d]
  BY <1>t, Moved DEF Truth!Begin, TruthType, Truth!TypeOK
<1>n. Truth!Nothing' = Truth!Nothing
  BY DEF Truth!Nothing
<1>1. TruthType'
  <2>1. Truth!TypeOK'
    BY <1>t DEF Truth!Begin, Truth!Move, TruthType, Truth!TypeOK
  <2> QED BY <1>t, <1>0, <2>1, BeginKeepsType
<1>2. AloneInv'
  <2>1. Truth!Active = {} \/ alone' = {}
    BY DEF Truth!Begin
  <2>2. UpToDate(e)'
    BY <1>t, <1>0, <1>n, RestIsClean DEF UpToDate
  <2>3. alone' \subseteq {e}
    BY DEF Truth!Begin
  <2> QED BY <1>0, <2>1, <2>2, <2>3 DEF AloneInv, Handled
<1>3. ASSUME ~disturbed' PROVE UndisturbedInv'
  <2>1. UndisturbedInv
    BY <1>3 DEF TruthInv
  <2>2. \A d \in Truth!Evaluators : UpToDate(d) => UpToDate(d)'
    BY <1>n DEF UpToDate
  <2>3. Waiting => Waiting'
    BY <1>0 DEF Waiting, Truth!Evaluators, Truth!Callers
  <2>4. \A c \in Uploads, r \in finished : Owes(c, r) => Owes(c, r)'
    BY <1>0, <1>n DEF Owes, Truth!Evaluators, Truth!Callers
  <2>5. ASSUME NEW r \in DocumentRuns \ finished, at'[r] = "evaluate", pending'[r] = {}
        PROVE  at[r] = "evaluate" /\ pending[r] = {}
    BY <1>0, <2>5 DEF Truth!Evaluators
  <2> QED BY <1>n, <2>1, <2>2, <2>3, <2>4, <2>5 DEF UndisturbedInv
<1> QED BY <1>1, <1>2, <1>3 DEF TruthInv

LEMMA ReadKeeps ==
  ASSUME TruthInv, NEW e \in Truth!Evaluators, NEW r \in DocumentRuns, Truth!Read(e, r)
  PROVE  TruthInv'
<1> USE UploadsAssumption
<1>t. TruthType
  BY DEF TruthInv
<1> DEFINE compared == [run |-> r, version |-> file, loaded |-> "unread"]
<1>n. Truth!Nothing' = Truth!Nothing /\ compared # Truth!Nothing
  BY DEF Truth!Nothing
<1>0. /\ at[e] = "evaluate" /\ seen[e] = Truth!Nothing /\ r \in pending[e]
      /\ pending'[e] = pending[e] \ {r} /\ \A d \in Truth!Evaluators \ {e} : pending'[d] = pending[d]
      /\ seen'[e] = (IF Truth!HasGroundTruth(e) THEN compared ELSE Truth!Nothing)
      /\ \A d \in Truth!Evaluators \ {e} : seen'[d] = seen[d]
      /\ UNCHANGED <<file, row, holder, finished, evals, at, flushed, alone>>
  BY <1>t DEF Truth!Read, TruthType, Truth!TypeOK
<1>a. Truth!Active' = Truth!Active /\ Truth!HasGroundTruth(e)' = Truth!HasGroundTruth(e)
  BY <1>0 DEF Truth!Active, Truth!HasGroundTruth
<1>1. TruthType'
  <2>1. Truth!HasGroundTruth(e) => compared \in Truth!Comparisons
    BY <1>t DEF Truth!HasGroundTruth, TruthType, Truth!TypeOK, Truth!Comparisons, Truth!Versions
  <2>2. seen' \in [Truth!Evaluators -> Truth!Comparisons \cup {Truth!Nothing}]
    BY <1>t, <2>1 DEF Truth!Read, TruthType, Truth!TypeOK
  <2>3. pending' \in [Truth!Evaluators -> SUBSET DocumentRuns] /\ disturbed' \in BOOLEAN
    BY <1>t DEF Truth!Read, TruthType, Truth!TypeOK
  <2>4. Truth!TypeOK'
    BY <1>t, <1>0, <1>n, <2>2, <2>3 DEF TruthType, Truth!TypeOK
  <2>5. \A d \in Truth!Evaluators : Truth!Flushed(d)' = Truth!Flushed(d)
    BY <1>0 DEF Truth!Flushed
  <2>6. \A d \in Truth!Evaluators : seen'[d] # Truth!Nothing =>
          seen'[d].run \in Mine(d) \ (pending'[d] \cup Truth!Flushed(d))
    BY <1>t, <1>0 DEF TruthType
  <2>7. \A x \in DocumentRuns \ finished :
          seen'[x] # Truth!Nothing => seen'[x].loaded \in {"unread", "none"}
    BY <1>t, <1>0 DEF TruthType, Truth!Evaluators
  <2> QED BY <1>t, <1>0, <1>n, <1>a, <2>4, <2>5, <2>6, <2>7 DEF TruthType, Mine
<1>u. \A d \in Truth!Evaluators : UpToDate(d) => UpToDate(d)'
  BY <1>0, <1>n DEF UpToDate
<1>2. AloneInv'
  <2> SUFFICES ASSUME NEW d \in alone \cap Truth!Callers, d \in Truth!Active, AloneInv
               PROVE  /\ Truth!Active' = {d} /\ UpToDate(d)'
                      /\ at'[d] = "evaluate" /\ Truth!HasGroundTruth(d)' => \A x \in finished : Handled(d, x)'
    BY <1>0, <1>a DEF AloneInv, TruthInv
  <2>1. Truth!Active = {d} /\ UpToDate(d) /\ e = d
    BY <1>0 DEF AloneInv, Truth!Active
  <2>2. ASSUME Truth!HasGroundTruth(d), NEW x \in finished, Handled(d, x) PROVE Handled(d, x)'
    BY <1>0, <1>n, <2>1, <2>2 DEF Handled
  <2> QED BY <1>0, <1>a, <1>u, <2>1, <2>2 DEF AloneInv
<1>3. ASSUME ~disturbed' PROVE UndisturbedInv'
  <2>1. ~disturbed /\ (Truth!First(e) /\ file # "none" => Truth!HasGroundTruth(e))
    BY <1>3 DEF Truth!Read
  <2>2. UndisturbedInv
    BY <2>1 DEF TruthInv
  <2>3. Waiting => Waiting'
    BY <1>0 DEF Waiting
  <2>4. ASSUME NEW c \in Uploads, NEW x \in finished, Owes(c, x) PROVE Owes(c, x)'
    <3>1. c \in Truth!Evaluators /\ (c = e => Truth!HasGroundTruth(e))
      BY <1>t, <1>0 DEF Truth!Evaluators, Truth!Callers, Truth!HasGroundTruth, TruthType, Truth!Active
    <3>2. file # "unread"
      BY <1>t DEF TruthType, Truth!TypeOK, Truth!Versions
    <3> QED BY <1>0, <1>n, <2>4, <3>1, <3>2 DEF Owes
  <2>5. ASSUME NEW x \in DocumentRuns \ finished, at'[x] = "evaluate", pending'[x] = {},
               seen'[x] = Truth!Nothing, flushed'[x][x] = "none"
        PROVE  file = "none"
    <3>1. CASE x = e
      BY <1>0, <1>n, <2>1, <2>5, <3>1 DEF Truth!First
    <3>2. CASE x # e
      BY <1>0, <2>2, <2>5, <3>2 DEF UndisturbedInv, Truth!Evaluators
    <3> QED BY <3>1, <3>2
  <2> QED BY <1>0, <1>n, <1>u, <2>2, <2>3, <2>4, <2>5 DEF UndisturbedInv
<1> QED BY <1>1, <1>2, <1>3 DEF TruthInv

LEMMA LoadKeeps ==
  ASSUME TruthInv, NEW e \in Truth!Evaluators, Truth!Load(e)
  PROVE  TruthInv'
<1> USE UploadsAssumption
<1>t. TruthType
  BY DEF TruthInv
<1>n. Truth!Nothing' = Truth!Nothing
  BY DEF Truth!Nothing
<1>0. /\ seen[e] # Truth!Nothing /\ seen[e].loaded = "unread" /\ seen[e] \in Truth!Comparisons
      /\ seen'[e] = [seen[e] EXCEPT !.loaded = evals[seen[e].run]]
      /\ \A d \in Truth!Evaluators \ {e} : seen'[d] = seen[d]
      /\ UNCHANGED <<file, row, holder, finished, evals, at, pending, flushed, alone, disturbed>>
  BY <1>t DEF Truth!Load, TruthType, Truth!TypeOK
<1>s. /\ seen'[e].run = seen[e].run /\ seen'[e].version = seen[e].version
      /\ seen'[e].loaded = evals[seen[e].run] /\ seen[e].run \in DocumentRuns
      /\ seen'[e] \in Truth!Comparisons /\ seen'[e] # Truth!Nothing
  <2>1. evals[seen[e].run] \in Truth!Versions
    BY <1>t, <1>0 DEF TruthType, Truth!TypeOK, Truth!Comparisons
  <2>2. seen'[e] \in Truth!Comparisons
    BY <1>0, <2>1 DEF Truth!Comparisons
  <2>3. seen'[e] # Truth!Nothing
    BY <2>2 DEF Truth!Comparisons, Truth!Nothing
  <2> QED BY <1>0, <2>2, <2>3 DEF Truth!Comparisons
<1>1. TruthType'
  <2>1. seen' \in [Truth!Evaluators -> Truth!Comparisons \cup {Truth!Nothing}]
    BY <1>t, <1>s DEF Truth!Load, TruthType, Truth!TypeOK
  <2>2. Truth!TypeOK'
    BY <1>t, <1>0, <1>n, <2>1 DEF TruthType, Truth!TypeOK
  <2>3. \A d \in Truth!Evaluators : Truth!Flushed(d)' = Truth!Flushed(d)
    BY <1>0 DEF Truth!Flushed
  <2>4. Truth!Active' = Truth!Active
    BY <1>0 DEF Truth!Active
  <2>5. \A d \in Truth!Evaluators : seen'[d] # Truth!Nothing =>
          seen'[d].run \in Mine(d) \ (pending[d] \cup Truth!Flushed(d))
    BY <1>t, <1>0, <1>s DEF TruthType
  <2>6. ASSUME NEW x \in DocumentRuns \ finished, seen'[x] # Truth!Nothing
        PROVE  seen'[x].loaded \in {"unread", "none"}
    <3>1. CASE x = e
      BY <1>t, <1>0, <1>s, <3>1 DEF TruthType, Mine
    <3>2. CASE x # e
      BY <1>t, <1>0, <2>6, <3>2 DEF TruthType, Truth!Evaluators
    <3> QED BY <3>1, <3>2
  <2>7. at[e] = "evaluate"
    BY <1>t, <1>0 DEF TruthType
  <2> QED BY <1>t, <1>0, <1>n, <2>2, <2>3, <2>4, <2>5, <2>6, <2>7 DEF TruthType, Mine
<1>u. \A d \in Truth!Evaluators : UpToDate(d) => UpToDate(d)'
  BY <1>0, <1>n, <1>s DEF UpToDate
<1>2. AloneInv'
  <2>1. Truth!Active' = Truth!Active
    BY <1>0 DEF Truth!Active
  <2>2. ASSUME NEW d \in Truth!Evaluators, NEW x \in finished, Handled(d, x) PROVE Handled(d, x)'
    BY <1>0, <1>n, <1>s, <2>2 DEF Handled
  <2>3. \A d \in Truth!Callers : d \in Truth!Evaluators /\ Truth!HasGroundTruth(d)' = Truth!HasGroundTruth(d)
    BY <1>0 DEF Truth!Evaluators, Truth!HasGroundTruth
  <2> QED BY <1>0, <1>u, <2>1, <2>2, <2>3 DEF AloneInv, TruthInv
<1>3. ASSUME ~disturbed' PROVE UndisturbedInv'
  <2>1. UndisturbedInv
    BY <1>0, <1>3 DEF TruthInv
  <2>2. Waiting => Waiting'
    BY <1>0 DEF Waiting
  <2>3. ASSUME NEW x \in finished, evals[x] # file, NEW c \in Uploads, Owes(c, x) PROVE Owes(c, x)'
    <3>1. c \in Truth!Evaluators
      BY DEF Truth!Evaluators, Truth!Callers
    <3> QED BY <1>0, <1>n, <1>s, <2>3, <3>1 DEF Owes
  <2>4. \A x \in DocumentRuns : seen'[x] = Truth!Nothing => seen[x] = Truth!Nothing
    BY <1>0, <1>s DEF Truth!Evaluators
  <2> QED BY <1>0, <1>n, <1>u, <2>1, <2>2, <2>3, <2>4 DEF UndisturbedInv
<1> QED BY <1>1, <1>2, <1>3 DEF TruthInv

LEMMA FlushKeeps ==
  ASSUME TruthInv, NEW e \in Truth!Evaluators, Truth!Flush(e)
  PROVE  TruthInv'
<1> USE UploadsAssumption
<1>t. TruthType
  BY DEF TruthInv
<1>n. Truth!Nothing' = Truth!Nothing
  BY DEF Truth!Nothing
<1>c. /\ seen[e] # Truth!Nothing /\ seen[e].loaded # "unread" /\ seen[e] \in Truth!Comparisons
      /\ UNCHANGED <<file, row, holder, finished, evals, at, pending, alone, disturbed>>
  BY <1>t DEF Truth!Flush, TruthType, Truth!TypeOK
<1>p. PICK r \in DocumentRuns : r = seen[e].run
  BY <1>c DEF Truth!Comparisons
<1>v. PICK v \in Uploads \cup {"same"} :
        v = IF seen[e].version = seen[e].loaded THEN "same" ELSE seen[e].version
  BY <1>c DEF Truth!Comparisons
<1>0. /\ seen'[e] = Truth!Nothing /\ \A d \in Truth!Evaluators \ {e} : seen'[d] = seen[d]
      /\ flushed'[e][r] = v
      /\ \A x \in DocumentRuns \ {r} : flushed'[e][x] = flushed[e][x]
      /\ \A d \in Truth!Evaluators \ {e} : flushed'[d] = flushed[d]
  BY <1>t, <1>p, <1>v DEF Truth!Flush, TruthType, Truth!TypeOK
<1>a. Truth!Active' = Truth!Active
  BY <1>c DEF Truth!Active
<1>1. TruthType'
  <2>1. seen' \in [Truth!Evaluators -> Truth!Comparisons \cup {Truth!Nothing}]
    BY <1>t DEF Truth!Flush, TruthType, Truth!TypeOK
  <2>2. flushed' \in [Truth!Evaluators -> [DocumentRuns -> Truth!Versions \cup {"same"}]]
    BY <1>t, <1>p, <1>v DEF Truth!Flush, TruthType, Truth!TypeOK, Truth!Versions
  <2>3. Truth!TypeOK'
    BY <1>t, <1>c, <1>n, <2>1, <2>2 DEF TruthType, Truth!TypeOK
  <2>4. /\ Truth!Flushed(e)' \subseteq Truth!Flushed(e) \cup {r}
        /\ \A d \in Truth!Evaluators \ {e} : Truth!Flushed(d)' = Truth!Flushed(d)
    BY <1>0 DEF Truth!Flushed
  <2>5. at[e] = "evaluate" /\ r \in Mine(e) \ (pending[e] \cup Truth!Flushed(e))
    BY <1>t, <1>c, <1>p DEF TruthType
  <2>6. ASSUME NEW x \in DocumentRuns \ finished PROVE flushed'[x][x] # "same"
    <3>1. CASE x = e
      <4>1. r = e
        BY <2>5, <2>6, <3>1 DEF Mine
      <4>2. seen[e].loaded = "none" /\ seen[e].version \in Uploads
        BY <1>t, <1>c, <2>6, <3>1 DEF TruthType, Truth!Comparisons
      <4> QED BY <1>0, <1>v, <3>1, <4>1, <4>2
    <3>2. CASE x # e
      BY <1>t, <1>0, <3>2 DEF TruthType, Truth!Evaluators
    <3> QED BY <3>1, <3>2
  <2>7. \A d \in Truth!Evaluators :
          /\ pending[d] \cup Truth!Flushed(d)' \subseteq Mine(d)
          /\ pending[d] \cap Truth!Flushed(d)' = {}
          /\ seen'[d] # Truth!Nothing =>
                seen'[d].run \in Mine(d) \ (pending[d] \cup Truth!Flushed(d)')
    BY <1>t, <1>0, <2>4, <2>5 DEF TruthType
  <2>8. \A x \in DocumentRuns \ finished :
          seen'[x] # Truth!Nothing => seen'[x].loaded \in {"unread", "none"}
    BY <1>t, <1>0 DEF TruthType, Truth!Evaluators
  <2>9. \A d \in Truth!Evaluators : at[d] # "evaluate" =>
          pending[d] = {} /\ seen'[d] = Truth!Nothing /\ Truth!Flushed(d)' = {}
    BY <1>t, <1>0, <2>4, <2>5 DEF TruthType
  <2> QED BY <1>t, <1>c, <1>n, <1>a, <2>3, <2>6, <2>7, <2>8, <2>9 DEF TruthType, Mine
<1>u. \A d \in Truth!Evaluators : UpToDate(d) => UpToDate(d)'
  BY <1>0, <1>c, <1>n, <1>v DEF UpToDate
<1>2. AloneInv'
  <2> SUFFICES ASSUME NEW d \in alone \cap Truth!Callers, d \in Truth!Active, AloneInv
               PROVE  /\ Truth!Active' = {d} /\ UpToDate(d)'
                      /\ at'[d] = "evaluate" /\ Truth!HasGroundTruth(d)' => \A x \in finished : Handled(d, x)'
    BY <1>c, <1>a DEF AloneInv, TruthInv
  <2>1. Truth!Active = {d} /\ UpToDate(d) /\ e = d
    BY <1>t, <1>c DEF AloneInv, Truth!Active, TruthType
  <2>2. Truth!HasGroundTruth(d)' = Truth!HasGroundTruth(d)
    BY <1>c DEF Truth!HasGroundTruth
  <2>3. ASSUME NEW x \in finished, Handled(d, x) PROVE Handled(d, x)'
    <3>1. CASE x = r
      <4>1. CASE r \in pending[d]
        BY <1>c, <2>3, <3>1, <4>1 DEF Handled
      <4>2. CASE seen[e].loaded = evals[r]
        <5>1. v = file \/ (v = "same" /\ evals[r] = file)
          BY <1>v, <1>c, <2>1, <4>2 DEF UpToDate
        <5> QED BY <1>0, <1>c, <2>1, <3>1, <5>1 DEF Handled
      <4>3. flushed[d][r] = "none" /\ file # "none"
        BY <1>t, <1>c, <1>p, <2>1 DEF TruthType, Truth!Flushed, UpToDate, Truth!Comparisons
      <4> QED BY <1>c, <1>p, <2>1, <2>3, <3>1, <4>1, <4>2, <4>3 DEF Handled
    <3>2. CASE x # r
      BY <1>0, <1>c, <1>n, <1>p, <1>t, <2>1, <2>3, <3>2 DEF Handled, TruthType, Truth!TypeOK
    <3> QED BY <3>1, <3>2
  <2> QED BY <1>c, <1>a, <1>u, <2>1, <2>2, <2>3 DEF AloneInv
<1>3. ASSUME ~disturbed' PROVE UndisturbedInv'
  <2>1. UndisturbedInv
    BY <1>c, <1>3 DEF TruthInv
  <2>2. Waiting => Waiting'
    BY <1>c DEF Waiting
  <2>3. ASSUME NEW x \in finished, NEW c \in Uploads, Owes(c, x) PROVE Owes(c, x)'
    <3>1. c \in Truth!Evaluators /\ x \in DocumentRuns
      BY <1>t DEF Truth!Evaluators, Truth!Callers, TruthType, Truth!TypeOK
    <3>2. CASE c # e
      BY <1>0, <1>c, <1>n, <2>3, <3>1, <3>2 DEF Owes
    <3>3. CASE c = e /\ x # r
      BY <1>0, <1>c, <1>n, <1>p, <2>3, <3>1, <3>3 DEF Owes
    <3>4. CASE c = e /\ x = r
      <4>1. CASE at[c] = "saved" \/ x \in pending[c]
        BY <1>c, <4>1 DEF Owes
      <4>2. CASE seen[c].version = file /\ seen[c].loaded # file
        BY <1>0, <1>c, <1>t, <1>v, <3>4, <4>2 DEF Owes, Truth!Comparisons
      <4>3. CASE flushed[c][x] = file /\ file # "none"
        BY <1>t, <1>c, <1>p, <3>4, <4>3 DEF TruthType, Truth!Flushed
      <4> QED BY <2>3, <4>1, <4>2, <4>3 DEF Owes
    <3> QED BY <3>2, <3>3, <3>4
  <2>4. \A x \in DocumentRuns \ finished :
          seen'[x] = Truth!Nothing /\ flushed'[x][x] = "none" => seen[x] = Truth!Nothing /\ flushed[x][x] = "none"
    <3> SUFFICES ASSUME NEW x \in DocumentRuns \ finished, seen'[x] = Truth!Nothing, flushed'[x][x] = "none"
                 PROVE  seen[x] = Truth!Nothing /\ flushed[x][x] = "none"
      OBVIOUS
    <3>1. CASE x = e
      <4>1. r = e
        BY <1>t, <1>c, <1>p, <3>1 DEF TruthType, Mine
      <4> QED BY <1>0, <1>v, <3>1, <4>1
    <3>2. CASE x # e
      BY <1>0, <3>2 DEF Truth!Evaluators
    <3> QED BY <3>1, <3>2
  <2> QED BY <1>c, <1>n, <1>u, <2>1, <2>2, <2>3, <2>4 DEF UndisturbedInv
<1> QED BY <1>1, <1>2, <1>3 DEF TruthInv

LEMMA EvaluationFailsKeeps ==
  ASSUME TruthInv, NEW r \in DocumentRuns, Truth!EvaluationFails(r)
  PROVE  TruthInv'
<1> USE UploadsAssumption
<1>t. TruthType
  BY DEF TruthInv
<1>n. Truth!Nothing' = Truth!Nothing
  BY DEF Truth!Nothing
<1>0. /\ r \in Truth!Evaluators /\ r \notin Truth!Callers /\ r \notin Uploads
      /\ pending'[r] = {} /\ \A d \in Truth!Evaluators \ {r} : pending'[d] = pending[d]
      /\ seen'[r] = Truth!Nothing /\ \A d \in Truth!Evaluators \ {r} : seen'[d] = seen[d]
      /\ UNCHANGED <<file, row, holder, finished, evals, at, flushed, alone>>
  BY <1>t DEF Truth!EvaluationFails, TruthType, Truth!TypeOK, Truth!Evaluators, Truth!Callers
<1>a. Truth!Active' = Truth!Active
  BY <1>0 DEF Truth!Active
<1>1. TruthType'
  <2>1. /\ pending' \in [Truth!Evaluators -> SUBSET DocumentRuns] /\ disturbed' \in BOOLEAN
        /\ seen' \in [Truth!Evaluators -> Truth!Comparisons \cup {Truth!Nothing}]
    BY <1>t DEF Truth!EvaluationFails, TruthType, Truth!TypeOK
  <2>2. Truth!TypeOK'
    BY <1>t, <1>0, <1>n, <2>1 DEF TruthType, Truth!TypeOK
  <2>3. \A d \in Truth!Evaluators : Truth!Flushed(d)' = Truth!Flushed(d)
    BY <1>0 DEF Truth!Flushed
  <2>4. \A d \in Truth!Evaluators :
          /\ pending'[d] \subseteq pending[d]
          /\ seen'[d] = seen[d] \/ seen'[d] = Truth!Nothing
    BY <1>0
  <2>5. \A x \in DocumentRuns \ finished :
          seen'[x] # Truth!Nothing => seen'[x].loaded \in {"unread", "none"}
    BY <1>t, <2>4 DEF TruthType, Truth!Evaluators
  <2> QED BY <1>t, <1>0, <1>n, <1>a, <2>2, <2>3, <2>4, <2>5 DEF TruthType, Mine
<1>u. \A d \in Truth!Evaluators : UpToDate(d) => UpToDate(d)'
  BY <1>0, <1>n DEF UpToDate
<1>2. AloneInv'
  <2>1. \A d \in Truth!Callers : d # r /\ d \in Truth!Evaluators
    BY <1>0 DEF Truth!Evaluators
  <2>2. \A d \in Truth!Callers, x \in finished : Handled(d, x) => Handled(d, x)'
    BY <1>0, <1>n, <2>1 DEF Handled
  <2>3. \A d \in Truth!Callers : Truth!HasGroundTruth(d)' = Truth!HasGroundTruth(d)
    BY <1>0 DEF Truth!HasGroundTruth
  <2> QED BY <1>0, <1>a, <1>u, <2>1, <2>2, <2>3 DEF AloneInv, TruthInv
<1>3. ASSUME ~disturbed' PROVE UndisturbedInv'
  <2>1. UndisturbedInv /\ (r \in finished \/ file = "none")
    BY <1>3 DEF TruthInv, Truth!EvaluationFails, Truth!First
  <2>2. Waiting => Waiting'
    BY <1>0 DEF Waiting
  <2>3. \A c \in Uploads, x \in finished : Owes(c, x) => Owes(c, x)'
    BY <1>0, <1>n DEF Owes, Truth!Evaluators, Truth!Callers
  <2> QED BY <1>0, <1>n, <1>u, <2>1, <2>2, <2>3 DEF UndisturbedInv, Truth!Evaluators
<1> QED BY <1>1, <1>2, <1>3 DEF TruthInv

\* After the end of a transaction nothing of it is left.
LEMMA EndFrees ==
  ASSUME TruthType, NEW e \in Truth!Evaluators, Truth!End(e)
  PROVE  /\ at'[e] \in {"idle", "ended"} /\ \A d \in Truth!Evaluators \ {e} : at'[d] = at[d]
         /\ Truth!Active' = Truth!Active \ {e}
         /\ pending'[e] = {} /\ \A d \in Truth!Evaluators \ {e} : pending'[d] = pending[d]
         /\ seen'[e] = Truth!Nothing /\ \A d \in Truth!Evaluators \ {e} : seen'[d] = seen[d]
         /\ \A x \in DocumentRuns : flushed'[e][x] = "none"
         /\ \A d \in Truth!Evaluators \ {e} : flushed'[d] = flushed[d]
         /\ holder' \in {holder, "none"} /\ (holder # "none" => holder' # e)
         /\ Truth!Flushed(e)' = {} /\ \A d \in Truth!Evaluators \ {e} : Truth!Flushed(d)' = Truth!Flushed(d)
         /\ UpToDate(e)'
<1>1. /\ pending'[e] = {} /\ \A d \in Truth!Evaluators \ {e} : pending'[d] = pending[d]
      /\ seen'[e] = Truth!Nothing /\ \A d \in Truth!Evaluators \ {e} : seen'[d] = seen[d]
      /\ \A x \in DocumentRuns : flushed'[e][x] = "none"
      /\ \A d \in Truth!Evaluators \ {e} : flushed'[d] = flushed[d]
  BY DEF Truth!End, TruthType, Truth!TypeOK
<1>2. \E s \in {"idle", "ended"} : Truth!Move(e, s)
  BY DEF Truth!End
<1>3. /\ at'[e] \in {"idle", "ended"} /\ \A d \in Truth!Evaluators \ {e} : at'[d] = at[d]
      /\ Truth!Active' = Truth!Active \ {e}
  BY <1>2, Moved
<1>4. holder' \in {holder, "none"} /\ (holder # "none" => holder' # e)
  BY UploadsAssumption DEF Truth!End, Truth!Evaluators, Truth!Callers
<1>5. Truth!Flushed(e)' = {} /\ \A d \in Truth!Evaluators \ {e} : Truth!Flushed(d)' = Truth!Flushed(d)
  BY <1>1 DEF Truth!Flushed
<1>6. UpToDate(e)'
  BY <1>1 DEF UpToDate, Truth!Nothing
<1> QED BY <1>1, <1>3, <1>4, <1>5, <1>6

LEMMA CommitKeepsTruth ==
  ASSUME TruthInv, NEW e \in Truth!Evaluators, Truth!Commit(e)
  PROVE  TruthInv'
<1> USE UploadsAssumption
<1>t. TruthType
  BY DEF TruthInv
<1>n. Truth!Nothing' = Truth!Nothing
  BY DEF Truth!Nothing
<1>c. /\ at[e] = "evaluate" /\ pending[e] = {} /\ seen[e] = Truth!Nothing /\ e \in Truth!Active
      /\ row' = (row \/ e \in Uploads) /\ finished' = finished \cup ({e} \cap DocumentRuns)
      /\ UNCHANGED <<file, alone>>
  BY DEF Truth!Commit, Truth!Active
<1>v. \A x \in DocumentRuns :
        evals'[x] = IF flushed[e][x] \in Uploads THEN flushed[e][x] ELSE evals[x]
  BY DEF Truth!Commit
<1>e. Truth!End(e)
  BY DEF Truth!Commit
<1>0. /\ at'[e] \in {"idle", "ended"} /\ \A d \in Truth!Evaluators \ {e} : at'[d] = at[d]
      /\ Truth!Active' = Truth!Active \ {e}
      /\ pending'[e] = {} /\ \A d \in Truth!Evaluators \ {e} : pending'[d] = pending[d]
      /\ seen'[e] = Truth!Nothing /\ \A d \in Truth!Evaluators \ {e} : seen'[d] = seen[d]
      /\ \A x \in DocumentRuns : flushed'[e][x] = "none"
      /\ \A d \in Truth!Evaluators \ {e} : flushed'[d] = flushed[d]
      /\ holder' \in {holder, "none"} /\ (holder # "none" => holder' # e)
      /\ Truth!Flushed(e)' = {} /\ \A d \in Truth!Evaluators \ {e} : Truth!Flushed(d)' = Truth!Flushed(d)
      /\ UpToDate(e)'
  BY <1>t, <1>e, EndFrees
<1>h. holder \in Truth!Versions /\ (holder # "none" => holder \in Uploads)
  BY <1>t DEF TruthType, Truth!TypeOK, Truth!Versions
<1>m. \A x \in DocumentRuns \ finished' : flushed[e][x] \notin Uploads /\ x # e
  BY <1>t, <1>c DEF TruthType, Mine, Truth!Flushed
<1>1. TruthType'
  <2>1. /\ at' \in [Truth!Evaluators -> {"idle", "saved", "evaluate", "ended"}]
        /\ pending' \in [Truth!Evaluators -> SUBSET DocumentRuns]
        /\ seen' \in [Truth!Evaluators -> Truth!Comparisons \cup {Truth!Nothing}]
        /\ flushed' \in [Truth!Evaluators -> [DocumentRuns -> Truth!Versions \cup {"same"}]]
    BY <1>t, <1>e DEF Truth!End, Truth!Move, TruthType, Truth!TypeOK, Truth!Versions
  <2>2. evals' \in [DocumentRuns -> Truth!Versions]
    BY <1>t DEF Truth!Commit, TruthType, Truth!TypeOK, Truth!Versions
  <2>3. /\ file' \in Truth!Versions /\ row' \in BOOLEAN /\ holder' \in Truth!Versions
        /\ finished' \subseteq DocumentRuns /\ alone' \subseteq Truth!Evaluators
        /\ disturbed' \in BOOLEAN
    BY <1>t, <1>c, <1>0, <1>h DEF Truth!Commit, TruthType, Truth!TypeOK, Truth!Versions
  <2>4. Truth!TypeOK'
    BY <1>n, <2>1, <2>2, <2>3 DEF Truth!TypeOK
  <2>5. \A d \in Truth!Evaluators : Mine(d) \subseteq Mine(d)'
    BY <1>c DEF Mine
  <2>6. \A d \in Truth!Evaluators :
          /\ pending'[d] \cup Truth!Flushed(d)' \subseteq Mine(d)'
          /\ pending'[d] \cap Truth!Flushed(d)' = {}
          /\ seen'[d] # Truth!Nothing =>
                seen'[d].run \in Mine(d)' \ (pending'[d] \cup Truth!Flushed(d)')
    BY <1>t, <1>0, <2>5 DEF TruthType
  <2>7. \A x \in DocumentRuns \ finished' :
          /\ evals'[x] = "none" /\ flushed'[x][x] # "same"
          /\ seen'[x] # Truth!Nothing => seen'[x].loaded \in {"unread", "none"}
    BY <1>t, <1>c, <1>v, <1>m, <1>0 DEF TruthType, Truth!Evaluators
  <2>8. \A d \in Truth!Evaluators :
          /\ at'[d] # "evaluate" => pending'[d] = {} /\ seen'[d] = Truth!Nothing /\ Truth!Flushed(d)' = {}
          /\ d \notin Uploads => at'[d] # "saved"
    BY <1>t, <1>0 DEF TruthType
  <2>9. holder' # "none" => at'[holder'] = "evaluate"
    BY <1>t, <1>0, <1>h DEF TruthType, Truth!Evaluators, Truth!Callers
  <2>10. file' = "none" => ~row' /\ Truth!Active' \cap Uploads = {}
    BY <1>t, <1>c, <1>0 DEF TruthType
  <2> QED BY <1>n, <2>4, <2>6, <2>7, <2>8, <2>9, <2>10 DEF TruthType
<1>2. AloneInv'
  BY <1>c, <1>0 DEF AloneInv, TruthInv
<1>3. ASSUME ~disturbed, ~disturbed' PROVE UndisturbedInv'
  <2>1. UndisturbedInv
    BY <1>3 DEF TruthInv
  <2>2. ASSUME NEW d \in Truth!Evaluators PROVE UpToDate(d)' \/ (d = holder' /\ Waiting')
    <3>1. CASE d = e
      BY <1>0, <3>1
    <3>2. ASSUME d # e, UpToDate(d) PROVE UpToDate(d)'
      BY <1>c, <1>n, <1>0, <3>2 DEF UpToDate
    <3>3. ASSUME d # e, d = holder, Waiting PROVE d = holder' /\ Waiting'
      <4>1. holder' = holder
        BY <1>e, <3>3 DEF Truth!End
      <4>2. PICK w \in Uploads : at[w] = "saved"
        BY <3>3 DEF Waiting
      <4>3. at'[w] = "saved"
        BY <1>c, <1>0, <4>2 DEF Truth!Evaluators, Truth!Callers
      <4> QED BY <3>3, <4>1, <4>3 DEF Waiting
    <3> QED BY <2>1, <3>1, <3>2, <3>3 DEF UndisturbedInv
  <2>3. ASSUME NEW x \in finished PROVE evals'[x] = file \/ \E c \in Uploads : Owes(c, x)'
    <3>0. x \in DocumentRuns /\ flushed[e][x] \in Truth!Versions \cup {"same"} /\ file \in Truth!Versions
      BY <1>t DEF TruthType, Truth!TypeOK
    <3>1. CASE flushed[e][x] \in Uploads /\ UpToDate(e)
      BY <1>v, <3>0, <3>1 DEF UpToDate
    <3>2. CASE Waiting
      <4>1. PICK w \in Uploads : at[w] = "saved"
        BY <3>2 DEF Waiting
      <4>2. Owes(w, x)'
        BY <1>c, <1>0, <4>1 DEF Owes, Truth!Evaluators, Truth!Callers
      <4> QED BY <4>2
    <3>3. CASE flushed[e][x] \notin Uploads /\ evals[x] = file
      BY <1>v, <3>0, <3>3
    <3>4. ASSUME flushed[e][x] \notin Uploads, NEW c \in Uploads, Owes(c, x) PROVE Owes(c, x)'
      <4>1. c # e
        BY <1>c, <3>0, <3>4 DEF Owes, Truth!Versions
      <4>2. c \in Truth!Evaluators
        BY DEF Truth!Evaluators, Truth!Callers
      <4> QED BY <1>0, <1>c, <1>n, <3>4, <4>1, <4>2 DEF Owes
    <3> QED BY <2>1, <3>1, <3>2, <3>3, <3>4 DEF UndisturbedInv
  <2>4. ASSUME NEW x \in finished' \ finished PROVE evals'[x] = file
    <3>1. x = e /\ x \in DocumentRuns /\ x \notin Uploads /\ x # holder
      BY <1>c, <1>h DEF Truth!Callers
    <3>2. UpToDate(e) /\ flushed[e][e] \in Truth!Versions /\ evals[e] = "none"
      BY <1>t, <2>1, <2>4, <3>1 DEF UndisturbedInv, TruthType, Truth!TypeOK
    <3>3. CASE flushed[e][e] = "none"
      BY <1>c, <1>v, <2>1, <2>4, <3>1, <3>2, <3>3 DEF UndisturbedInv
    <3>4. CASE flushed[e][e] \in Uploads
      BY <1>v, <3>1, <3>2, <3>4 DEF UpToDate
    <3> QED BY <3>2, <3>3, <3>4 DEF Truth!Versions
  <2>5. ASSUME NEW x \in DocumentRuns \ finished', at'[x] = "evaluate", pending'[x] = {},
               seen'[x] = Truth!Nothing, flushed'[x][x] = "none"
        PROVE  file = "none"
    BY <1>c, <1>0, <1>m, <2>1, <2>5 DEF UndisturbedInv, Truth!Evaluators
  <2> QED BY <1>c, <1>n, <2>2, <2>3, <2>4, <2>5 DEF UndisturbedInv
<1>4. ASSUME disturbed, ~disturbed' PROVE UndisturbedInv'
  <2>1. e \in alone \cap Truth!Callers /\ Truth!HasGroundTruth(e)
    BY <1>4 DEF Truth!Commit
  <2>2. /\ Truth!Active = {e} /\ UpToDate(e)
        /\ \A x \in finished : flushed[e][x] = file \/ (flushed[e][x] = "same" /\ evals[x] = file)
    BY <1>c, <2>1 DEF AloneInv, TruthInv, Handled
  <2>3. finished' = finished /\ finished \subseteq DocumentRuns /\ file \in Uploads
    BY <1>t, <1>c, <2>1 DEF Truth!Callers, TruthType, Truth!TypeOK, Truth!Versions, Truth!HasGroundTruth
  <2>4. \A x \in finished : evals'[x] = file
    BY <1>v, <2>2, <2>3
  <2>5. \A d \in Truth!Evaluators : at'[d] # "evaluate"
    BY <1>0, <2>2 DEF Truth!Active
  <2>6. \A d \in Truth!Evaluators : UpToDate(d)'
    BY <1>1, <2>5, <1>n DEF UpToDate, TruthType, Truth!Flushed
  <2> QED BY <1>c, <2>3, <2>4, <2>5, <2>6 DEF UndisturbedInv, Truth!Evaluators
<1> QED BY <1>1, <1>2, <1>3, <1>4 DEF TruthInv

LEMMA FailKeepsTruth ==
  ASSUME TruthInv, NEW e \in Truth!Evaluators, Truth!Fail(e)
  PROVE  TruthInv'
<1> USE UploadsAssumption
<1>t. TruthType
  BY DEF TruthInv
<1>n. Truth!Nothing' = Truth!Nothing
  BY DEF Truth!Nothing
<1>c. e \in Truth!Active /\ UNCHANGED <<file, row, finished, evals, alone>>
  BY DEF Truth!Fail
<1>e. Truth!End(e)
  BY DEF Truth!Fail
<1>0. /\ at'[e] \in {"idle", "ended"} /\ \A d \in Truth!Evaluators \ {e} : at'[d] = at[d]
      /\ Truth!Active' = Truth!Active \ {e}
      /\ pending'[e] = {} /\ \A d \in Truth!Evaluators \ {e} : pending'[d] = pending[d]
      /\ seen'[e] = Truth!Nothing /\ \A d \in Truth!Evaluators \ {e} : seen'[d] = seen[d]
      /\ \A x \in DocumentRuns : flushed'[e][x] = "none"
      /\ \A d \in Truth!Evaluators \ {e} : flushed'[d] = flushed[d]
      /\ holder' \in {holder, "none"} /\ (holder # "none" => holder' # e)
      /\ Truth!Flushed(e)' = {} /\ \A d \in Truth!Evaluators \ {e} : Truth!Flushed(d)' = Truth!Flushed(d)
      /\ UpToDate(e)'
  BY <1>t, <1>e, EndFrees
<1>h. holder \in Truth!Versions /\ (holder # "none" => holder \in Uploads)
  BY <1>t DEF TruthType, Truth!TypeOK, Truth!Versions
<1>1. TruthType'
  <2>1. /\ at' \in [Truth!Evaluators -> {"idle", "saved", "evaluate", "ended"}]
        /\ pending' \in [Truth!Evaluators -> SUBSET DocumentRuns]
        /\ seen' \in [Truth!Evaluators -> Truth!Comparisons \cup {Truth!Nothing}]
        /\ flushed' \in [Truth!Evaluators -> [DocumentRuns -> Truth!Versions \cup {"same"}]]
    BY <1>t, <1>e DEF Truth!End, Truth!Move, TruthType, Truth!TypeOK, Truth!Versions
  <2>2. holder' \in Truth!Versions /\ disturbed' \in BOOLEAN
    BY <1>t, <1>0, <1>h DEF Truth!Fail, TruthType, Truth!TypeOK, Truth!Versions
  <2>3. Truth!TypeOK'
    BY <1>t, <1>c, <1>n, <2>1, <2>2 DEF TruthType, Truth!TypeOK
  <2>4. \A d \in Truth!Evaluators :
          /\ pending'[d] \subseteq pending[d] /\ Truth!Flushed(d)' \subseteq Truth!Flushed(d)
          /\ seen'[d] = seen[d] \/ seen'[d] = Truth!Nothing
          /\ at'[d] # "evaluate" => pending'[d] = {} /\ seen'[d] = Truth!Nothing /\ Truth!Flushed(d)' = {}
          /\ d \notin Uploads => at'[d] # "saved"
    BY <1>t, <1>0 DEF TruthType
  <2>5. \A x \in DocumentRuns \ finished :
          /\ evals[x] = "none" /\ flushed'[x][x] # "same"
          /\ seen'[x] # Truth!Nothing => seen'[x].loaded \in {"unread", "none"}
    BY <1>t, <1>0 DEF TruthType, Truth!Evaluators
  <2>6. holder' # "none" => at'[holder'] = "evaluate"
    BY <1>t, <1>0, <1>h DEF TruthType, Truth!Evaluators, Truth!Callers
  <2> QED BY <1>t, <1>c, <1>n, <1>0, <2>3, <2>4, <2>5, <2>6 DEF TruthType, Mine
<1>2. AloneInv'
  BY <1>c, <1>0 DEF AloneInv, TruthInv
<1>3. ASSUME ~disturbed' PROVE UndisturbedInv'
  <2>1. ~disturbed /\ e \notin Uploads
    BY <1>3 DEF Truth!Fail
  <2>2. UndisturbedInv
    BY <2>1 DEF TruthInv
  <2>3. Waiting => Waiting'
    BY <1>0, <2>1 DEF Waiting, Truth!Evaluators, Truth!Callers
  <2>4. \A d \in Truth!Evaluators : UpToDate(d) => UpToDate(d)'
    BY <1>0, <1>c, <1>n DEF UpToDate
  <2>5. holder' = holder
    BY <1>e, <1>h, <2>1 DEF Truth!End
  <2>6. \A c \in Uploads, x \in finished : Owes(c, x) => Owes(c, x)'
    BY <1>0, <1>c, <1>n, <2>1 DEF Owes, Truth!Evaluators, Truth!Callers
  <2>7. ASSUME NEW x \in DocumentRuns \ finished, at'[x] = "evaluate", pending'[x] = {},
               seen'[x] = Truth!Nothing, flushed'[x][x] = "none"
        PROVE  file = "none"
    BY <1>0, <2>2, <2>7 DEF UndisturbedInv, Truth!Evaluators
  <2> QED BY <1>c, <1>n, <2>2, <2>3, <2>4, <2>5, <2>6, <2>7 DEF UndisturbedInv
<1> QED BY <1>1, <1>2, <1>3 DEF TruthInv

LEMMA NextTruth == TruthInv /\ [Truth!Next]_(Truth!vars) => TruthInv'
<1> SUFFICES ASSUME TruthInv, [Truth!Next]_(Truth!vars) PROVE TruthInv'
  OBVIOUS
<1> USE UploadsAssumption
<1>1. ASSUME NEW c \in Truth!Callers, Truth!SaveFile(c) PROVE TruthInv'
  BY <1>1, SaveFileKeeps
<1>2. ASSUME NEW c \in Truth!Callers, NEW writes \in BOOLEAN, Truth!FlushRow(c, writes) PROVE TruthInv'
  BY <1>2, FlushRowKeeps
<1>3. ASSUME NEW c \in Truth!Callers, Truth!Recompute(c) PROVE TruthInv'
  <2>1. /\ c \in Truth!Evaluators \ Uploads /\ c \notin DocumentRuns
        /\ Truth!Begin(c, "evaluate") /\ pending' = [pending EXCEPT ![c] = finished]
        /\ UNCHANGED <<file, row, holder, finished, evals, seen, flushed, disturbed>>
    BY <1>3 DEF Truth!Recompute, Truth!Evaluators, Truth!Callers
  <2>2. finished \subseteq DocumentRuns /\ finished \subseteq Mine(c)
    BY <2>1 DEF TruthInv, TruthType, Truth!TypeOK, Mine
  <2> QED BY <2>1, <2>2, SetOutKeeps
<1>4. ASSUME NEW r \in DocumentRuns, Truth!PipelineEvaluates(r) PROVE TruthInv'
  <2>0. PICK S : S = {r}
    OBVIOUS
  <2>1. /\ r \in Truth!Evaluators \ Uploads /\ r \notin Truth!Callers
        /\ Truth!Begin(r, "evaluate") /\ pending' = [pending EXCEPT ![r] = S]
        /\ UNCHANGED <<file, row, holder, finished, evals, seen, flushed, disturbed>>
    BY <1>4, <2>0 DEF Truth!PipelineEvaluates, Truth!Evaluators, Truth!Callers
  <2>2. S \subseteq DocumentRuns /\ S \subseteq Mine(r) /\ S # {}
    BY <2>0 DEF Mine
  <2> QED BY <2>1, <2>2, SetOutKeeps
<1>5. ASSUME NEW e \in Truth!Evaluators, NEW r \in DocumentRuns, Truth!Read(e, r) PROVE TruthInv'
  BY <1>5, ReadKeeps
<1>6. ASSUME NEW e \in Truth!Evaluators, Truth!Load(e) PROVE TruthInv'
  BY <1>6, LoadKeeps
<1>7. ASSUME NEW e \in Truth!Evaluators, Truth!Flush(e) PROVE TruthInv'
  BY <1>7, FlushKeeps
<1>8. ASSUME NEW r \in DocumentRuns, Truth!EvaluationFails(r) PROVE TruthInv'
  BY <1>8, EvaluationFailsKeeps
<1>9. ASSUME NEW e \in Truth!Evaluators, Truth!Commit(e) PROVE TruthInv'
  BY <1>9, CommitKeepsTruth
<1>10. ASSUME NEW e \in Truth!Evaluators, Truth!Fail(e) PROVE TruthInv'
  BY <1>10, FailKeepsTruth
<1>11. CASE UNCHANGED Truth!vars
  BY <1>11 DEF Truth!vars, TruthInv, TruthType, AloneInv, UndisturbedInv, UpToDate, Handled, Owes,
               Waiting, Mine, Truth!TypeOK, Truth!Active, Truth!Flushed, Truth!Nothing,
               Truth!HasGroundTruth
<1> QED BY <1>1, <1>2, <1>3, <1>4, <1>5, <1>6, <1>7, <1>8, <1>9, <1>10, <1>11 DEF Truth!Next

LEMMA TruthIsFollowed == TruthInv => Truth!EvaluationsMatchFile
<1> SUFFICES ASSUME TruthInv, Truth!Active = {}, ~disturbed, NEW r \in finished PROVE evals[r] = file
  BY DEF Truth!EvaluationsMatchFile
<1>1. \A c \in Uploads : c \in Truth!Evaluators /\ at[c] \notin {"saved", "evaluate"}
  BY DEF Truth!Active, Truth!Evaluators, Truth!Callers
<1>2. r \in DocumentRuns
  BY DEF TruthInv, TruthType, Truth!TypeOK
<1>3. \A c \in Uploads : ~Owes(c, r)
  BY <1>1, <1>2 DEF TruthInv, TruthType, Owes, Truth!Flushed
<1> QED BY <1>3 DEF TruthInv, UndisturbedInv

-----------------------------------------------------------------------------
(* PipelineRunner: batches *)

Segments == [block : Nat \ {0}, start : Nat, end : Nat]
Batches == Seq(Segments)
TextLen(j) == Len(payload.blocks[j].text)

\* The characters counted for a batch.
CountedIn(b) == UNION {{k} \X (1..Runner!Size(b[k])) : k \in DOMAIN b}

LEMMA NothingCounted == CountedIn(<<>>) = {} /\ IsFiniteSet({}) /\ Cardinality({}) = 0
BY FS_EmptySet DEF CountedIn

LEMMA SizeIsNat ==
  ASSUME NEW s \in Segments, s.start <= s.end
  PROVE  Runner!Size(s) \in Nat
BY InputsAssumption DEF Segments, Runner!Size

\* A segment counts for its size.
LEMMA OneMoreCounted ==
  ASSUME NEW b \in Batches, IsFiniteSet(CountedIn(b)),
         NEW s \in Segments, s.start <= s.end
  PROVE  /\ IsFiniteSet(CountedIn(Append(b, s)))
         /\ Cardinality(CountedIn(Append(b, s))) = Cardinality(CountedIn(b)) + Runner!Size(s)
<1> DEFINE n == Len(b) + 1
           new == {n} \X (1..Runner!Size(s))
<1>1. n \in Nat /\ DOMAIN b = 1..(n - 1) /\ DOMAIN Append(b, s) = 1..n
  BY DEF Batches
<1>2. (\A k \in 1..(n - 1) : Append(b, s)[k] = b[k]) /\ Append(b, s)[n] = s
  BY DEF Batches
<1>3. CountedIn(Append(b, s)) = CountedIn(b) \cup new
  <2>1. 1..n = (1..(n - 1)) \cup {n}
    BY <1>1
  <2>2. \A k \in 1..(n - 1) : {k} \X (1..Runner!Size(Append(b, s)[k])) = {k} \X (1..Runner!Size(b[k]))
    BY <1>2
  <2>3. {n} \X (1..Runner!Size(Append(b, s)[n])) = new
    BY <1>2
  <2> HIDE DEF n, new
  <2>4. ASSUME NEW x \in CountedIn(Append(b, s)) PROVE x \in CountedIn(b) \cup new
    <3>1. PICK k \in 1..n : x \in {k} \X (1..Runner!Size(Append(b, s)[k]))
      BY <1>1 DEF CountedIn
    <3>2. CASE k = n
      BY <2>3, <3>1, <3>2
    <3>3. CASE k \in 1..(n - 1)
      BY <1>1, <2>2, <3>1, <3>3, Zenon DEF CountedIn
    <3> QED BY <2>1, <3>2, <3>3
  <2>5. ASSUME NEW x \in CountedIn(b) PROVE x \in CountedIn(Append(b, s))
    <3>1. PICK k \in 1..(n - 1) : x \in {k} \X (1..Runner!Size(b[k]))
      BY <1>1 DEF CountedIn
    <3>2. k \in 1..n
      BY <2>1
    <3> QED BY <1>1, <2>2, <3>1, <3>2, Zenon DEF CountedIn
  <2>6. ASSUME NEW x \in new PROVE x \in CountedIn(Append(b, s))
    <3>1. n \in 1..n
      BY <2>1
    <3> QED BY <1>1, <2>3, <3>1, Zenon DEF CountedIn
  <2> QED BY <2>4, <2>5, <2>6
<1>4. CountedIn(b) \cap new = {}
  <2>1. \A k \in 1..(n - 1) : k # n
    BY <1>1
  <2>2. \A x \in CountedIn(b) : x[1] \in 1..(n - 1)
    BY <1>1 DEF CountedIn
  <2>3. \A x \in new : x[1] = n
    OBVIOUS
  <2> QED BY <2>1, <2>2, <2>3
<1>5. Runner!Size(s) \in Nat
  BY SizeIsNat
<1>6. IsFiniteSet(new) /\ Cardinality(new) = Runner!Size(s)
  <2>1. IsFiniteSet({n}) /\ Cardinality({n}) = 1
    BY FS_Singleton
  <2>2. IsFiniteSet(1..Runner!Size(s)) /\ Cardinality(1..Runner!Size(s)) = Runner!Size(s)
    BY <1>5, FS_Interval
  <2> DEFINE counted == 1..Runner!Size(s)
  <2> HIDE DEF counted, n
  <2>3. /\ IsFiniteSet({n} \X counted)
        /\ Cardinality({n} \X counted) = Cardinality({n}) * Cardinality(counted)
    BY <2>1, <2>2, FS_Product DEF counted
  <2>4. Cardinality({n}) * Cardinality(counted) = Runner!Size(s)
    BY <2>1, <2>2, <1>5 DEF counted
  <2> QED BY <2>3, <2>4 DEF counted
<1>7. Cardinality(CountedIn(b)) \in Nat
  BY FS_CardinalityType
<1> HIDE DEF new
<1>8. /\ IsFiniteSet(CountedIn(b) \cup new)
      /\ Cardinality(CountedIn(b) \cup new) =
            Cardinality(CountedIn(b)) + Cardinality(new) - Cardinality(CountedIn(b) \cap new)
  BY <1>6, FS_Union
<1>9. Cardinality(CountedIn(b) \cap new) = 0
  BY <1>4, FS_EmptySet
<1> QED BY <1>3, <1>5, <1>6, <1>7, <1>8, <1>9

LEMMA PlacesOf ==
  ASSUME NEW bs, NEW w
  PROVE  w \in Runner!Places(bs) <=>
           \E i \in DOMAIN bs : \E k \in DOMAIN bs[i] : w = <<i, k>>
BY DEF Runner!Places

LEMMA PlaceIn ==
  ASSUME NEW bs, NEW n, DOMAIN bs = 1..n, NEW w, w \in Runner!Places(bs)
  PROVE  \E i \in 1..n : \E k \in DOMAIN bs[i] : w = <<i, k>>
BY DEF Runner!Places

\* bs and cs differ by one segment, at the end.
OneMore(bs, cs, z) ==
    /\ Runner!Places(cs) = Runner!Places(bs) \cup {z}
    /\ \A w \in Runner!Places(bs) : Runner!Before(w, z) /\ ~Runner!Before(z, w)
                                    /\ cs[w[1]][w[2]] = bs[w[1]][w[2]]
    /\ ~Runner!Before(z, z)

\* It is put into the last batch ...
LEMMA LastBatchGrows ==
  ASSUME NEW bs \in Seq(Batches), NEW c \in Batches, NEW s \in Segments
  PROVE  \E z : /\ OneMore(Append(bs, c), Append(bs, Append(c, s)), z)
               /\ Append(bs, Append(c, s))[z[1]][z[2]] = s
<1> DEFINE n == Len(bs) + 1
           m == Len(c) + 1
           z == <<n, m>>
           es == Append(bs, c)
           ds == Append(bs, Append(c, s))
<1>1. n \in Nat /\ m \in Nat /\ es \in Seq(Batches) /\ ds \in Seq(Batches)
  BY DEF Batches
<1>2. DOMAIN es = 1..n /\ DOMAIN ds = 1..n /\ es[n] = c /\ ds[n] = Append(c, s)
  BY DEF Batches
<1>3. \A i \in 1..n : i # n => es[i] = bs[i] /\ ds[i] = bs[i]
  BY DEF Batches
<1>4. DOMAIN c = 1..(m - 1) /\ DOMAIN Append(c, s) = 1..m
  BY DEF Batches
<1>5. (\A k \in 1..(m - 1) : Append(c, s)[k] = c[k]) /\ Append(c, s)[m] = s
  BY DEF Batches
<1>6. \A i \in 1..n : i # n => DOMAIN bs[i] \subseteq Nat
  BY DEF Batches
<1>11. DOMAIN es = 1..n
  BY <1>2
<1> HIDE DEF n, m, es, ds
<1>7. Runner!Places(ds) = Runner!Places(es) \cup {z}
  <2>1. ASSUME NEW w, w \in Runner!Places(ds) PROVE w \in Runner!Places(es) \cup {z}
    <3>1. PICK i \in 1..n : \E j \in DOMAIN ds[i] : w = <<i, j>>
      BY <1>1, <1>2, <2>1, PlacesOf
    <3>0. PICK k \in DOMAIN ds[i] : w = <<i, k>>
      BY <3>1
    <3>2. i # n => w \in Runner!Places(es)
      BY <1>1, <1>2, <1>3, <3>0, PlacesOf
    <3>3. i = n /\ k # m => w \in Runner!Places(es)
      <4>1. i = n /\ k # m => k \in 1..(m - 1)
        BY <1>1, <1>2, <1>4, <3>0
      <4> QED BY <1>1, <1>2, <1>4, <3>0, <4>1, PlacesOf
    <3> QED BY <3>0, <3>2, <3>3
  <2>2. ASSUME NEW w, w \in Runner!Places(es) PROVE w \in Runner!Places(ds)
    <3>1. PICK i \in 1..n : \E j \in DOMAIN es[i] : w = <<i, j>>
      BY <1>11, <2>2, PlaceIn
    <3>0. PICK k \in DOMAIN es[i] : w = <<i, k>>
      BY <3>1
    <3>2. k \in DOMAIN ds[i]
      <4>1. 1..(m - 1) \subseteq 1..m
        BY <1>1
      <4>2. CASE i = n
        BY <1>2, <1>4, <3>0, <4>1, <4>2
      <4>3. CASE i # n
        BY <1>3, <3>0, <4>3
      <4> QED BY <4>2, <4>3
    <3> QED BY <1>1, <1>2, <3>0, <3>2, PlacesOf
  <2>3. z \in Runner!Places(ds)
    <3>1. n \in 1..n /\ m \in 1..m
      BY <1>1, <1>2, <1>4 DEF n, m, Batches
    <3> QED BY <1>1, <1>2, <1>4, <3>1, PlacesOf
  <2> QED BY <2>1, <2>2, <2>3
<1>8. ASSUME NEW w, w \in Runner!Places(es)
      PROVE  Runner!Before(w, z) /\ ~Runner!Before(z, w) /\ ds[w[1]][w[2]] = es[w[1]][w[2]]
  <2>1. PICK i \in 1..n : \E j \in DOMAIN es[i] : w = <<i, j>>
    BY <1>11, <1>8, PlaceIn
  <2>0. PICK k \in DOMAIN es[i] : w = <<i, k>>
    BY <2>1
  <2>2. CASE i = n
    <3>1. k \in 1..(m - 1) /\ k < m /\ ~(m < k)
      BY <1>1, <1>2, <1>4, <2>0, <2>2
    <3>2. ds[i][k] = es[i][k]
      BY <1>2, <1>5, <2>2, <3>1
    <3>3. w[1] = n /\ w[2] = k /\ z[1] = n /\ z[2] = m
      BY <2>0, <2>2
    <3>4. ~(n < n)
      BY <1>1
    <3> QED BY <2>0, <2>2, <3>1, <3>2, <3>3, <3>4 DEF Runner!Before
  <2>3. CASE i # n
    <3>1. i < n /\ ~(n < i)
      BY <1>1, <2>3
    <3> QED BY <1>3, <2>0, <2>3, <3>1 DEF Runner!Before
  <2> QED BY <2>2, <2>3
<1>9. ~Runner!Before(z, z)
  BY <1>1 DEF Runner!Before
<1>10. ds[z[1]][z[2]] = s
  BY <1>2, <1>5
<1>12. OneMore(es, ds, z)
  BY <1>7, <1>8, <1>9 DEF OneMore
<1> QED BY <1>10, <1>12 DEF es, ds

\* ... or opens a batch.
LEMMA BatchOpens ==
  ASSUME NEW bs \in Seq(Batches), NEW s \in Segments
  PROVE  \E z : OneMore(bs, Append(bs, <<s>>), z) /\ Append(bs, <<s>>)[z[1]][z[2]] = s
<1> DEFINE n == Len(bs) + 1
           z == <<n, 1>>
           ds == Append(bs, <<s>>)
<1>1. n \in Nat /\ ds \in Seq(Batches)
  BY DEF Batches
<1>2. DOMAIN bs = 1..(n - 1) /\ DOMAIN ds = 1..n /\ ds[n] = <<s>>
  BY DEF Batches
<1>3. \A i \in 1..(n - 1) : ds[i] = bs[i]
  BY DEF Batches
<1>4. 1..n = (1..(n - 1)) \cup {n} /\ \A i \in 1..(n - 1) : i < n /\ ~(n < i)
  BY <1>1 DEF n
<1>5. DOMAIN <<s>> = {1} /\ <<s>>[1] = s
  OBVIOUS
<1> HIDE DEF n, ds
<1>6. Runner!Places(ds) = Runner!Places(bs) \cup {z}
  <2>1. ASSUME NEW w, w \in Runner!Places(ds) PROVE w \in Runner!Places(bs) \cup {z}
    <3>1. PICK i \in 1..n : \E j \in DOMAIN ds[i] : w = <<i, j>>
      BY <1>1, <1>2, <2>1, PlacesOf
    <3>0. PICK k \in DOMAIN ds[i] : w = <<i, k>>
      BY <3>1
    <3>2. i # n => w \in Runner!Places(bs)
      BY <1>2, <1>3, <1>4, <3>0, PlacesOf
    <3>3. i = n => w = z
      BY <1>2, <1>5, <3>0
    <3> QED BY <3>2, <3>3
  <2>2. ASSUME NEW w, w \in Runner!Places(bs) PROVE w \in Runner!Places(ds)
    <3>1. PICK i \in 1..(n - 1) : \E j \in DOMAIN bs[i] : w = <<i, j>>
      BY <1>2, <2>2, PlaceIn
    <3>0. PICK k \in DOMAIN bs[i] : w = <<i, k>>
      BY <3>1
    <3> QED BY <1>1, <1>2, <1>3, <1>4, <3>0, PlacesOf
  <2>3. z \in Runner!Places(ds)
    BY <1>1, <1>2, <1>4, <1>5, PlacesOf
  <2> QED BY <2>1, <2>2, <2>3
<1>7. ASSUME NEW w, w \in Runner!Places(bs)
      PROVE  Runner!Before(w, z) /\ ~Runner!Before(z, w) /\ ds[w[1]][w[2]] = bs[w[1]][w[2]]
  <2>1. PICK i \in 1..(n - 1) : \E j \in DOMAIN bs[i] : w = <<i, j>>
    BY <1>2, <1>7, PlaceIn
  <2>0. PICK k \in DOMAIN bs[i] : w = <<i, k>>
    BY <2>1
  <2>2. i < n /\ ~(n < i) /\ i # n
    BY <1>1, <1>4
  <2> QED BY <1>3, <2>0, <2>2 DEF Runner!Before
<1>8. ~Runner!Before(z, z)
  BY <1>1 DEF Runner!Before
<1>9. ds[z[1]][z[2]] = s
  BY <1>2, <1>5
<1>10. OneMore(bs, ds, z)
  BY <1>6, <1>7, <1>8 DEF OneMore
<1> QED BY <1>9, <1>10 DEF ds

\* The batches hold the document up to character p of block j, in order.
Packed(bs, j, p) ==
    /\ \A w \in Runner!Places(bs) :
          LET s == bs[w[1]][w[2]]
          IN /\ s \in Segments /\ s.block \in DOMAIN payload.blocks
             /\ s.block < j \/ (s.block = j /\ s.end <= p)
    /\ Runner!InDocumentOrder(bs)
    /\ \A i \in DOMAIN payload.blocks : \A q \in 0..(TextLen(i) - 1) :
          i < j \/ (i = j /\ q < p) => Runner!Holds(bs, i, q)

WithinLimit(bs) ==
    \A i \in DOMAIN bs : Len(bs[i]) > 1 => Cardinality(CountedIn(bs[i])) <= config.limit

LEMMA PackedFurther ==
  ASSUME NEW bs, NEW cs, NEW z, OneMore(bs, cs, z),
         NEW j \in DOMAIN payload.blocks, j \in Nat \ {0}, NEW p \in Nat, NEW e \in Nat, p <= e,
         cs[z[1]][z[2]] = [block |-> j, start |-> p, end |-> e],
         Packed(bs, j, p)
  PROVE  Packed(cs, j, e)
<1> DEFINE At(xs, w) == xs[w[1]][w[2]]
<1>1. /\ At(cs, z) \in Segments /\ At(cs, z).block = j /\ At(cs, z).start = p
      /\ At(cs, z).end = e
  BY DEF Segments
<1>2. \A w \in Runner!Places(bs) : At(cs, w) = At(bs, w) /\ Runner!Before(w, z) /\ ~Runner!Before(z, w)
  BY DEF OneMore
<1>3. Runner!Places(cs) = Runner!Places(bs) \cup {z} /\ ~Runner!Before(z, z)
  BY DEF OneMore
<1>4. \A w \in Runner!Places(bs) :
         /\ At(bs, w) \in Segments /\ At(bs, w).block \in DOMAIN payload.blocks
         /\ At(bs, w).block < j \/ (At(bs, w).block = j /\ At(bs, w).end <= p)
  BY DEF Packed
<1>5. \A v, w \in Runner!Places(bs) : Runner!Before(v, w) =>
         At(bs, v).block < At(bs, w).block
            \/ (At(bs, v).block = At(bs, w).block /\ At(bs, v).end <= At(bs, w).start)
  BY DEF Packed, Runner!InDocumentOrder
<1>6. \A i \in DOMAIN payload.blocks : \A q \in 0..(TextLen(i) - 1) : i < j \/ (i = j /\ q < p) =>
         \E w \in Runner!Places(bs) : At(bs, w).block = i /\ At(bs, w).start <= q /\ q < At(bs, w).end
  BY DEF Packed, Runner!Holds
<1> HIDE DEF At
<1>7. ASSUME NEW w \in Runner!Places(cs)
      PROVE  /\ At(cs, w) \in Segments /\ At(cs, w).block \in DOMAIN payload.blocks
             /\ At(cs, w).block < j \/ (At(cs, w).block = j /\ At(cs, w).end <= e)
  <2>1. CASE w = z
    BY <1>1, <2>1
  <2>2. CASE w \in Runner!Places(bs)
    <3>1. At(bs, w).end \in Nat
      BY <1>4, <2>2 DEF Segments
    <3> QED BY <1>2, <1>4, <2>2, <3>1
  <2> QED BY <1>3, <2>1, <2>2
<1>8. ASSUME NEW v \in Runner!Places(cs), NEW w \in Runner!Places(cs), Runner!Before(v, w)
      PROVE  At(cs, v).block < At(cs, w).block
                \/ (At(cs, v).block = At(cs, w).block /\ At(cs, v).end <= At(cs, w).start)
  <2>1. v # z
    <3>1. ASSUME v = z PROVE FALSE
      <4>1. CASE w = z
        BY <1>3, <1>8, <3>1, <4>1
      <4>2. CASE w \in Runner!Places(bs)
        BY <1>2, <1>8, <3>1, <4>2
      <4> QED BY <1>3, <4>1, <4>2
    <3> QED BY <3>1
  <2>2. v \in Runner!Places(bs)
    BY <1>3, <2>1
  <2>3. CASE w = z
    BY <1>1, <1>2, <1>4, <2>2, <2>3
  <2>4. CASE w \in Runner!Places(bs)
    BY <1>2, <1>5, <1>8, <2>2, <2>4
  <2> QED BY <1>3, <2>3, <2>4
<1>9. ASSUME NEW i \in DOMAIN payload.blocks, NEW q \in 0..(TextLen(i) - 1), i < j \/ (i = j /\ q < e)
      PROVE  \E w \in Runner!Places(cs) : At(cs, w).block = i /\ At(cs, w).start <= q /\ q < At(cs, w).end
  <2>1. CASE i < j \/ (i = j /\ q < p)
    BY <1>2, <1>3, <1>6, <2>1
  <2>2. CASE ~(i < j \/ (i = j /\ q < p))
    <3>1. i = j /\ p <= q /\ q < e
      BY <1>9, <2>2
    <3> QED BY <1>1, <1>3, <3>1
  <2> QED BY <2>1, <2>2
<1>10. Runner!InDocumentOrder(cs)
  BY <1>8 DEF At, Runner!InDocumentOrder
<1>11. \A i \in DOMAIN payload.blocks : \A q \in 0..(TextLen(i) - 1) :
          i < j \/ (i = j /\ q < e) => Runner!Holds(cs, i, q)
  BY <1>9 DEF At, Runner!Holds
<1> QED BY <1>7, <1>10, <1>11 DEF At, Packed

\* A block is packed with its last character.
LEMMA BlockPacked ==
  ASSUME NEW bs, NEW j \in Nat, IsList(payload.blocks), TextLen(j) \in Nat,
         Packed(bs, j, TextLen(j))
  PROVE  Packed(bs, j + 1, 0)
<1>1. ASSUME NEW w \in Runner!Places(bs)
      PROVE  LET s == bs[w[1]][w[2]]
             IN /\ s \in Segments /\ s.block \in DOMAIN payload.blocks
                /\ s.block < j + 1 \/ (s.block = j + 1 /\ s.end <= 0)
  <2> DEFINE s == bs[w[1]][w[2]]
  <2>1. s \in Segments /\ s.block \in DOMAIN payload.blocks /\ s.block <= j
    BY DEF Packed, IsList
  <2> QED BY <2>1 DEF Segments
<1>2. ASSUME NEW i \in DOMAIN payload.blocks, NEW q \in 0..(TextLen(i) - 1),
             i < j + 1 \/ (i = j + 1 /\ q < 0)
      PROVE  Runner!Holds(bs, i, q)
  <2>1. i < j \/ (i = j /\ q < TextLen(j))
    <3>1. i <= j /\ i \in Nat
      BY <1>2 DEF IsList
    <3>2. CASE i = j
      BY <3>2
    <3>3. CASE i # j
      BY <3>1, <3>3
    <3> QED BY <3>2, <3>3
  <2> QED BY <2>1 DEF Packed
<1> QED BY <1>1, <1>2 DEF Packed

\* While the blocks are packed, the batches hold what is before the next segment;
\* afterwards they hold the document.
PackInv ==
    /\ stage = "begin" =>
         batches = <<>> /\ current = <<>> /\ current_chars = 0 /\ index = 1 /\ start = 0
    /\ stage = "packing" =>
         /\ index <= Len(payload.blocks) + 1
         /\ start = 0 \/ (index <= Len(payload.blocks) /\ start < TextLen(index))
         /\ Packed(Append(batches, current), index, start)
         /\ WithinLimit(Append(batches, current))
         /\ IsFiniteSet(CountedIn(current)) /\ current_chars = Cardinality(CountedIn(current))
         /\ current = <<>> => index = 1
    /\ stage \notin {"begin", "packing", "failed"} =>
         /\ Packed(batches, Len(payload.blocks) + 1, 0)
         /\ WithinLimit(batches)
         /\ batches # <<>>

-----------------------------------------------------------------------------
(* PipelineRunner: chunks, calls and answers *)

BlockIds == {payload.blocks[j].id : j \in DOMAIN payload.blocks}
QuestionIds == {payload.questions[j].id : j \in DOMAIN payload.questions}
Chunks == [unit : Nat, start : Nat, end : Nat, sources : SUBSET BlockIds]
AnswerRows == [question : QuestionIds, evidence : SUBSET BlockIds]
Stages == {"begin", "packing", "packed", "synthesis", "passthrough", "chunking", "chunked",
           "qa", "done", "failed"}

RunnerType ==
    /\ payload \in Payloads /\ config \in RunnerConfigs
    /\ batches \in Seq(Batches) /\ current \in Batches /\ current_chars \in Nat
    /\ stage \in Stages
    /\ index \in Nat \ {0} /\ start \in Nat /\ IsList(text)
    /\ chunks \in Seq(Chunks) /\ answers \in Seq(AnswerRows)
    /\ calls \in Nat

\* Nothing is done for inputs that were refused.
CheckedInv ==
    stage \notin {"begin", "failed"} => Runner!ValidConfig(config) /\ Runner!ValidPayload(payload)

\* The batch or block at work is one of them.
UnitInv ==
    /\ stage = "packed" => index = 1
    /\ stage \in {"synthesis", "passthrough", "chunking", "chunked"} => index <= Runner!Units
    /\ stage = "synthesis" => Runner!Synthesizing
    /\ stage = "passthrough" => ~Runner!Synthesizing

SynthesisCalls == IF Runner!Synthesizing THEN Len(batches) ELSE 0

\* One call for every batch that was written and every question that was answered.
CallInv ==
    /\ stage \in {"begin", "packing", "packed", "passthrough"} => calls = 0
    /\ stage = "synthesis" => calls = index - 1
    /\ stage \in {"chunking", "chunked"} => calls = IF Runner!Synthesizing THEN index ELSE 0
    /\ stage \in {"qa", "done"} => calls = SynthesisCalls + Len(answers)
    /\ stage \notin {"begin", "packing", "packed", "failed"} =>
          Runner!Preflight <= config.max_calls

\* Questions are answered in order.
AnswerInv ==
    /\ stage \notin {"qa", "done", "failed"} => answers = <<>>
    /\ stage = "qa" => Len(answers) < Len(payload.questions)
    /\ stage = "done" => Len(answers) = Len(payload.questions)
    /\ \A i \in DOMAIN answers : answers[i].question = payload.questions[i].id

\* The chunks of the text at work cover it up to the start of the next.
CutInv ==
    /\ stage \in {"begin", "packing", "packed"} => chunks = <<>>
    /\ \A k \in DOMAIN chunks :
         /\ chunks[k].start < chunks[k].end /\ chunks[k].end - chunks[k].start <= config.size
         /\ chunks[k].unit <= index
    /\ \A k \in DOMAIN chunks \ {1} :
         chunks[k].unit = chunks[k - 1].unit => chunks[k - 1].start < chunks[k].start
    /\ stage \in {"synthesis", "passthrough"} => \A k \in DOMAIN chunks : chunks[k].unit < index
    /\ stage = "chunking" =>
         /\ start <= Len(text)
         /\ \A p \in 0..(start - 1) : \E k \in DOMAIN chunks :
               chunks[k].unit = index /\ chunks[k].start <= p /\ p < chunks[k].end
         /\ \A k \in DOMAIN chunks : chunks[k].unit = index => chunks[k].start < start
    /\ stage = "chunked" =>
         \A p \in 0..(Len(text) - 1) : \E k \in DOMAIN chunks :
            chunks[k].unit = index /\ chunks[k].start <= p /\ p < chunks[k].end

RunnerInv ==
    /\ RunnerType /\ CheckedInv /\ PackInv /\ UnitInv /\ CallInv /\ AnswerInv /\ CutInv

LEMMA InputFacts ==
  ASSUME RunnerType
  PROVE  /\ IsList(payload.blocks) /\ IsList(payload.questions)
         /\ \A j \in DOMAIN payload.blocks : IsList(payload.blocks[j].text) /\ TextLen(j) \in Nat
         /\ config.limit \in Int /\ config.size \in Int /\ config.overlap \in Int
         /\ config.max_calls \in Int
BY InputsAssumption DEF RunnerType, IsList, TextLen

LEMMA InitRunner == Runner!Init => RunnerInv
<1> SUFFICES ASSUME Runner!Init PROVE RunnerInv
  OBVIOUS
<1>1. RunnerType
  <2>1. <<>> \in Seq(Batches) /\ <<>> \in Batches /\ <<>> \in Seq(Chunks) /\ <<>> \in Seq(AnswerRows)
    BY DEF Batches
  <2>2. IsList(<<>>)
    BY DEF IsList
  <2> QED BY <2>1, <2>2 DEF Runner!Init, RunnerType, Stages
<1>2. CheckedInv /\ PackInv /\ UnitInv /\ CallInv
  BY DEF Runner!Init, CheckedInv, PackInv, UnitInv, CallInv
<1>3. AnswerInv /\ CutInv
  BY DEF Runner!Init, AnswerInv, CutInv
<1> QED BY <1>1, <1>2, <1>3 DEF RunnerInv

\* What a step that packs nothing leaves of PackInv.
LEMMA PackStands ==
  ASSUME PackInv, UNCHANGED <<payload, config, batches, current>>,
         stage \notin {"begin", "packing"}, stage' \notin {"begin", "packing"},
         stage = "failed" => stage' = "failed"
  PROVE  PackInv'
<1>1. stage' \notin {"begin", "packing", "failed"} =>
         /\ Packed(batches, Len(payload.blocks) + 1, 0) /\ WithinLimit(batches) /\ batches # <<>>
  BY DEF PackInv
<1>2. Packed(batches, Len(payload.blocks) + 1, 0) => Packed(batches, Len(payload.blocks) + 1, 0)'
  BY DEF Packed, TextLen
<1>3. WithinLimit(batches) => WithinLimit(batches)'
  BY DEF WithinLimit
<1> QED BY <1>1, <1>2, <1>3 DEF PackInv

LEMMA FailKeeps == RunnerInv /\ Runner!Fail => RunnerInv'
<1> SUFFICES ASSUME RunnerInv, Runner!Fail PROVE RunnerInv'
  OBVIOUS
<1> USE DEF RunnerInv, Runner!Fail, Runner!inputs, Runner!packing, Runner!cutting, Runner!asking
<1>1. RunnerType'
  BY DEF RunnerType, Stages, Chunks, AnswerRows, BlockIds, QuestionIds
<1>2. CheckedInv' /\ PackInv' /\ UnitInv' /\ CallInv'
  BY DEF CheckedInv, PackInv, UnitInv, CallInv
<1>3. AnswerInv' /\ CutInv'
  BY DEF AnswerInv, CutInv
<1> QED BY <1>1, <1>2, <1>3

LEMMA AcceptKeeps == RunnerInv /\ Runner!Accept => RunnerInv'
<1> SUFFICES ASSUME RunnerInv, Runner!Accept PROVE RunnerInv'
  OBVIOUS
<1> USE DEF RunnerInv, Runner!Accept, Runner!inputs, Runner!packing, Runner!cutting, Runner!asking
<1>1. RunnerType'
  BY DEF RunnerType, Stages, Chunks, AnswerRows, BlockIds, QuestionIds
<1>2. CheckedInv'
  BY DEF CheckedInv, Runner!Accepted
<1>3. UnitInv' /\ CallInv' /\ AnswerInv' /\ CutInv'
  BY DEF UnitInv, CallInv, AnswerInv, CutInv
<1>4. PackInv'
  <2> DEFINE bs == Append(<<>>, <<>>)
  <2>1. batches = <<>> /\ current = <<>> /\ current_chars = 0 /\ index = 1 /\ start = 0
    BY DEF PackInv
  <2>2. bs = <<<<>>>> /\ DOMAIN bs = 1..1 /\ bs[1] = <<>> /\ DOMAIN <<>> = {}
    OBVIOUS
  <2>3. Runner!Places(bs) = {}
    <3>1. \A i \in DOMAIN bs : DOMAIN bs[i] = {}
      BY <2>2
    <3> HIDE DEF bs
    <3>2. \A w : w \notin Runner!Places(bs)
      BY <3>1, PlacesOf
    <3> QED BY <3>2
  <2>4. WithinLimit(bs)
    <3>1. \A i \in DOMAIN bs : Len(bs[i]) = 0
      BY <2>2
    <3> QED BY <3>1 DEF WithinLimit
  <2> HIDE DEF bs
  <2>5. Packed(bs, 1, 0)
    <3>1. \A i \in DOMAIN payload.blocks : i \in Nat /\ i >= 1
      BY InputFacts DEF IsList
    <3>2. ASSUME NEW i \in DOMAIN payload.blocks, NEW q \in 0..(TextLen(i) - 1) PROVE ~(i < 1) /\ ~(q < 0)
      BY <3>1
    <3> QED BY <2>3, <3>2 DEF Packed, Runner!InDocumentOrder
  <2>6. Packed(bs, 1, 0)' /\ WithinLimit(bs)'
    BY <2>4, <2>5 DEF Packed, TextLen, WithinLimit
  <2>7. IsFiniteSet(CountedIn(<<>>)) /\ Cardinality(CountedIn(<<>>)) = 0
    BY NothingCounted
  <2>8. 1 <= Len(payload.blocks) + 1
    BY InputFacts DEF IsList
  <2>9. /\ Append(batches, current)' = bs /\ index' = 1 /\ start' = 0 /\ stage' = "packing"
        /\ current' = <<>> /\ current_chars' = 0 /\ payload' = payload
    BY <2>1 DEF bs
  <2> QED BY <2>6, <2>7, <2>8, <2>9 DEF PackInv
<1> QED BY <1>1, <1>2, <1>3, <1>4

LEMMA PackSegmentKeeps == RunnerInv /\ Runner!PackSegment => RunnerInv'
<1> SUFFICES ASSUME RunnerInv, Runner!PackSegment PROVE RunnerInv'
  OBVIOUS
<1> USE DEF RunnerInv
<1> DEFINE s == Runner!Segment
           n == TextLen(index)
           bs == Append(batches, current)
           cs == Append(batches', current')
<1>1. /\ stage = "packing" /\ stage' = "packing" /\ index \in Nat \ {0} /\ start \in Nat
      /\ index \in DOMAIN payload.blocks /\ index <= Len(payload.blocks) /\ n \in Nat
      /\ Len(payload.blocks) \in Nat /\ config.limit \in Int /\ config.limit > 0
  <2>1. /\ stage = "packing" /\ stage' = "packing" /\ index <= Len(payload.blocks)
        /\ index \in Nat \ {0} /\ start \in Nat
    BY DEF Runner!PackSegment, RunnerType
  <2>2. Len(payload.blocks) \in Nat /\ DOMAIN payload.blocks = 1..Len(payload.blocks)
    BY InputFacts DEF IsList
  <2>3. index \in DOMAIN payload.blocks
    BY <2>1, <2>2
  <2>4. n \in Nat /\ config.limit \in Int
    BY <2>3, InputFacts
  <2>5. config.limit > 0
    BY <2>1 DEF CheckedInv, Runner!ValidConfig
  <2> QED BY <2>1, <2>2, <2>3, <2>4, <2>5
<1>2. /\ s = [block |-> index, start |-> start, end |-> s.end]
      /\ s.end \in Nat /\ start <= s.end /\ s.end <= n
      /\ s.end - start <= config.limit /\ s \in Segments
  <2>1. start = 0 \/ start < n
    BY <1>1 DEF PackInv
  <2>2. s.end = Runner!MinN(n, start + config.limit)
    BY DEF Runner!Segment, TextLen
  <2>3. s.end \in Nat /\ start <= s.end /\ s.end <= n /\ s.end - start <= config.limit
    BY <1>1, <2>1, <2>2 DEF Runner!MinN
  <2>4. s = [block |-> index, start |-> start, end |-> s.end]
    BY DEF Runner!Segment
  <2> QED BY <1>1, <2>3, <2>4 DEF Segments
<1>3. /\ UNCHANGED <<payload, config, text, chunks, answers, tries, calls>>
      /\ batches' = IF Runner!Fits THEN batches ELSE bs
      /\ current' = IF Runner!Fits THEN Append(current, s) ELSE <<s>>
      /\ current_chars' = IF Runner!Fits THEN current_chars + Runner!Size(s) ELSE Runner!Size(s)
      /\ index' = (IF s.end = n THEN index + 1 ELSE index)
      /\ start' = (IF s.end = n THEN 0 ELSE s.end)
  BY DEF Runner!PackSegment, Runner!inputs, Runner!asking, Runner!BlockEnds, TextLen
<1>4. Runner!Fits <=> current = <<>> \/ current_chars + Runner!Size(s) <= config.limit
  BY DEF Runner!Fits
<1>5. /\ batches \in Seq(Batches) /\ current \in Batches /\ current_chars \in Nat
      /\ Packed(bs, index, start) /\ WithinLimit(bs)
      /\ IsFiniteSet(CountedIn(current)) /\ current_chars = Cardinality(CountedIn(current))
  BY <1>1 DEF RunnerType, PackInv
<1>6. Runner!Size(s) \in Nat
  <2>1. s.start = start
    BY <1>2
  <2> HIDE DEF s
  <2> QED BY <1>2, <2>1, SizeIsNat
<1> HIDE DEF s, n
<1>7. bs \in Seq(Batches) /\ Append(current, s) \in Batches /\ <<s>> \in Batches
  BY <1>2, <1>5 DEF Batches
<1>8. RunnerType'
  <2>1. batches' \in Seq(Batches) /\ current' \in Batches
    BY <1>3, <1>5, <1>7
  <2>2. current_chars' \in Nat
    BY <1>3, <1>5, <1>6
  <2>3. index' \in Nat \ {0} /\ start' \in Nat
    BY <1>1, <1>2, <1>3
  <2> QED BY <1>1, <1>3, <2>1, <2>2, <2>3
          DEF RunnerType, Stages, Chunks, AnswerRows, BlockIds, QuestionIds
<1>9. CheckedInv' /\ UnitInv' /\ CallInv' /\ AnswerInv' /\ CutInv'
  BY <1>1, <1>3 DEF CheckedInv, UnitInv, CallInv, AnswerInv, CutInv, Runner!ValidConfig, Runner!ValidPayload
<1>10. \E z : OneMore(bs, cs, z) /\ cs[z[1]][z[2]] = s
  <2>1. CASE Runner!Fits
    <3>1. cs = Append(batches, Append(current, s))
      BY <1>3, <2>1
    <3>2. \E z : /\ OneMore(Append(batches, current), Append(batches, Append(current, s)), z)
                 /\ Append(batches, Append(current, s))[z[1]][z[2]] = s
      <4> HIDE DEF bs, cs
      <4> QED BY <1>2, <1>5, LastBatchGrows
    <3> QED BY <3>1, <3>2
  <2>2. CASE ~Runner!Fits
    <3>1. cs = Append(bs, <<s>>)
      BY <1>3, <2>2
    <3> HIDE DEF bs, cs
    <3>2. \E z : OneMore(bs, Append(bs, <<s>>), z) /\ Append(bs, <<s>>)[z[1]][z[2]] = s
      BY <1>2, <1>7, BatchOpens
    <3> QED BY <3>1, <3>2
  <2> QED BY <2>1, <2>2
<1>11. Packed(cs, index, s.end)
  <2>1. PICK z : OneMore(bs, cs, z) /\ cs[z[1]][z[2]] = s
    BY <1>10
  <2> HIDE DEF bs, cs
  <2> QED BY <1>1, <1>2, <1>5, <2>1, PackedFurther
<1>12. Packed(cs, index', start')
  <2> HIDE DEF cs
  <2>1. CASE s.end = n
    <3>1. Packed(cs, index + 1, 0)
      BY <1>1, <1>11, <2>1, InputFacts, BlockPacked DEF n
    <3> QED BY <1>3, <2>1, <3>1
  <2>2. CASE s.end # n
    BY <1>3, <1>11, <2>2
  <2> QED BY <2>1, <2>2
<1>13. IsFiniteSet(CountedIn(current')) /\ current_chars' = Cardinality(CountedIn(current'))
  <2>1. CASE Runner!Fits
    <3>1. s.start <= s.end
      BY <1>2
    <3> QED BY <1>2, <1>3, <1>5, <2>1, <3>1, OneMoreCounted
  <2>2. CASE ~Runner!Fits
    <3>1. s.start <= s.end /\ <<>> \in Batches /\ Append(<<>>, s) = <<s>>
      BY <1>2 DEF Batches
    <3>2. /\ IsFiniteSet(CountedIn(Append(<<>>, s)))
          /\ Cardinality(CountedIn(Append(<<>>, s))) = 0 + Runner!Size(s)
      BY <1>2, <3>1, NothingCounted, OneMoreCounted
    <3> QED BY <1>3, <1>6, <2>2, <3>1, <3>2
  <2> QED BY <2>1, <2>2
<1>14. WithinLimit(cs)
  <2>1. CASE Runner!Fits
    <3>1. cs = Append(batches, current') /\ current' = Append(current, s)
      BY <1>3, <2>1
    <3>2. /\ DOMAIN cs = 1..(Len(batches) + 1) /\ DOMAIN bs = 1..(Len(batches) + 1)
          /\ Len(batches) \in Nat
      BY <1>5, <1>7, <3>1
    <3>3. /\ cs[Len(batches) + 1] = current'
          /\ \A i \in 1..(Len(batches) + 1) : i # Len(batches) + 1 => cs[i] = bs[i]
      BY <1>5, <1>7, <3>1
    <3>4. Len(current') > 1 => Cardinality(CountedIn(current')) <= config.limit
      <4>1. CASE current = <<>>
        <5>1. Len(current') = 1
          BY <3>1, <4>1
        <5> QED BY <5>1
      <4>2. CASE current # <<>>
        <5>1. current_chars' <= config.limit
          BY <1>3, <1>4, <2>1, <4>2
        <5> QED BY <1>13, <5>1
      <4> QED BY <4>1, <4>2
    <3> HIDE DEF bs, cs
    <3>5. ASSUME NEW i \in DOMAIN cs, Len(cs[i]) > 1
          PROVE  Cardinality(CountedIn(cs[i])) <= config.limit
      <4>1. CASE i = Len(batches) + 1
        BY <3>3, <3>4, <3>5, <4>1
      <4>2. CASE i # Len(batches) + 1
        <5>1. cs[i] = bs[i] /\ i \in DOMAIN bs
          BY <3>2, <3>3, <4>2
        <5> QED BY <1>5, <3>5, <5>1 DEF WithinLimit
      <4> QED BY <4>1, <4>2
    <3> QED BY <3>5 DEF WithinLimit
  <2>2. CASE ~Runner!Fits
    <3>1. cs = Append(bs, <<s>>)
      BY <1>3, <2>2
    <3> HIDE DEF bs
    <3>2. /\ DOMAIN cs = 1..(Len(bs) + 1) /\ DOMAIN bs = 1..Len(bs) /\ Len(bs) \in Nat
          /\ cs[Len(bs) + 1] = <<s>> /\ \A i \in 1..Len(bs) : cs[i] = bs[i]
      BY <1>7, <3>1
    <3>3. Len(<<s>>) = 1
      OBVIOUS
    <3> HIDE DEF cs
    <3>4. ASSUME NEW i \in DOMAIN cs, Len(cs[i]) > 1
          PROVE  Cardinality(CountedIn(cs[i])) <= config.limit
      <4>1. i # Len(bs) + 1
        <5>1. ASSUME i = Len(bs) + 1 PROVE FALSE
          <6>1. cs[i] = <<s>>
            BY <3>2, <5>1
          <6> QED BY <3>3, <3>4, <6>1
        <5> QED BY <5>1
      <4>2. cs[i] = bs[i] /\ i \in DOMAIN bs
        BY <3>2, <4>1
      <4> QED BY <1>5, <3>4, <4>2 DEF WithinLimit
    <3> QED BY <3>4 DEF WithinLimit
  <2> QED BY <2>1, <2>2
<1>15. PackInv'
  <2>1. index' <= Len(payload.blocks) + 1
    BY <1>1, <1>3
  <2>2. start' = 0 \/ (index' <= Len(payload.blocks) /\ start' < TextLen(index)')
    <3>1. CASE s.end = n
      BY <1>3, <3>1
    <3>2. CASE s.end # n
      <4>1. start' = s.end /\ index' = index /\ s.end < n
        BY <1>1, <1>2, <1>3, <3>2
      <4> QED BY <1>1, <1>3, <4>1 DEF n, TextLen
    <3> QED BY <3>1, <3>2
  <2>3. current' # <<>>
    BY <1>3, <1>5, <1>7 DEF Batches
  <2>4. Packed(cs, index', start') => Packed(Append(batches, current), index, start)'
    BY <1>3 DEF Packed, TextLen
  <2>5. WithinLimit(cs) => WithinLimit(Append(batches, current))'
    BY <1>3 DEF WithinLimit
  <2>6. payload' = payload
    BY <1>3
  <2> HIDE DEF cs
  <2> QED BY <1>1, <1>12, <1>13, <1>14, <2>1, <2>2, <2>3, <2>4, <2>5, <2>6 DEF PackInv
<1> QED BY <1>8, <1>9, <1>15

LEMMA EndPackingKeeps == RunnerInv /\ Runner!EndPacking => RunnerInv'
<1> SUFFICES ASSUME RunnerInv, Runner!EndPacking PROVE RunnerInv'
  OBVIOUS
<1> USE DEF RunnerInv
<1>1. /\ stage = "packing" /\ stage' = "packed" /\ index' = 1 /\ start' = 0
      /\ current' = <<>> /\ current_chars' = 0
      /\ batches' = IF current = <<>> THEN batches ELSE Append(batches, current)
      /\ UNCHANGED <<payload, config, text, chunks, answers, tries, calls>>
  BY DEF Runner!EndPacking, Runner!inputs, Runner!asking
<1>2. index = Len(payload.blocks) + 1 /\ start = 0 /\ index # 1
  <2>1. Len(payload.blocks) \in Nat /\ DOMAIN payload.blocks = 1..Len(payload.blocks)
    BY InputFacts DEF IsList
  <2>2. payload.blocks # <<>> /\ index \in Nat
    BY <1>1 DEF CheckedInv, Runner!ValidPayload, RunnerType
  <2>3. index > Len(payload.blocks) /\ index <= Len(payload.blocks) + 1
        /\ (start = 0 \/ index <= Len(payload.blocks))
    BY <1>1 DEF PackInv, Runner!EndPacking
  <2>4. \E j : j \in DOMAIN payload.blocks
    <3>1. payload.questions # <<>> /\ IsList(payload.questions)
      BY <1>1, InputFacts DEF CheckedInv, Runner!ValidPayload
    <3>2. PICK i : i \in DOMAIN payload.questions
      BY <3>1 DEF IsList
    <3> QED BY <1>1, <3>2 DEF CheckedInv, Runner!ValidPayload
  <2> QED BY <2>1, <2>2, <2>3, <2>4
<1>3. current # <<>> /\ batches' = Append(batches, current)
  BY <1>1, <1>2 DEF PackInv
<1>4. batches' \in Seq(Batches) /\ batches' # <<>>
  BY <1>3 DEF RunnerType
<1>5. RunnerType'
  <2>1. <<>> \in Batches
    BY DEF Batches
  <2> QED BY <1>1, <1>4, <2>1 DEF RunnerType, Stages, Chunks, AnswerRows, BlockIds, QuestionIds
<1>6. CheckedInv' /\ UnitInv' /\ CallInv' /\ AnswerInv' /\ CutInv'
  BY <1>1 DEF CheckedInv, UnitInv, CallInv, AnswerInv, CutInv, Runner!ValidConfig, Runner!ValidPayload
<1>7. PackInv'
  <2>1. Packed(batches', Len(payload.blocks) + 1, 0) /\ WithinLimit(batches')
    BY <1>1, <1>2, <1>3 DEF PackInv
  <2>2. Packed(batches', Len(payload.blocks) + 1, 0) => Packed(batches, Len(payload.blocks) + 1, 0)'
    BY <1>1 DEF Packed, TextLen
  <2>3. WithinLimit(batches') => WithinLimit(batches)'
    BY <1>1 DEF WithinLimit
  <2> QED BY <1>1, <1>4, <2>1, <2>2, <2>3 DEF PackInv
<1> QED BY <1>5, <1>6, <1>7

LEMMA ChunkFacts ==
  ASSUME RunnerType, NEW k \in DOMAIN chunks
  PROVE  /\ chunks[k].unit \in Nat /\ chunks[k].start \in Nat /\ chunks[k].end \in Nat
         /\ chunks[k].sources \subseteq BlockIds
<1>1. chunks[k] \in Chunks
  <2>1. chunks \in Seq(Chunks)
    BY DEF RunnerType
  <2> QED BY <2>1
<1> QED BY <1>1 DEF Chunks

\* Making a text the one that is cut, or going on to the next, leaves these alone.
LEMMA SynthesizeKeeps ==
  ASSUME NEW t \in Answers, RunnerInv, Runner!Synthesize(t)
  PROVE  RunnerInv'
<1> USE DEF RunnerInv
<1>1. /\ stage = "synthesis" /\ stage' = "chunking" /\ text' = t /\ start' = 0
      /\ calls' = calls + 1
      /\ UNCHANGED <<payload, config, batches, current, current_chars, index, chunks, answers>>
  BY DEF Runner!Synthesize, Runner!Cut, Runner!inputs, Runner!packing
<1>2. RunnerType'
  <2>1. IsList(t)
    BY InputsAssumption
  <2> QED BY <1>1, <2>1 DEF RunnerType, Stages, Chunks, AnswerRows, BlockIds, QuestionIds
<1>3. PackInv'
  BY <1>1, PackStands
<1>4. CheckedInv' /\ UnitInv' /\ AnswerInv'
  BY <1>1 DEF CheckedInv, UnitInv, AnswerInv, Runner!ValidConfig, Runner!ValidPayload,
         Runner!Units, Runner!Synthesizing
<1>5. CallInv'
  <2>1. Runner!Synthesizing /\ calls = index - 1 /\ index \in Nat
    BY <1>1 DEF CallInv, UnitInv, RunnerType
  <2>2. calls' = index
    BY <1>1, <2>1
  <2> QED BY <1>1, <2>1, <2>2 DEF CallInv, Runner!Synthesizing, Runner!Preflight
<1>6. CutInv'
  <2>1. Len(t) \in Nat
    BY InputsAssumption DEF IsList
  <2>2. \A k \in DOMAIN chunks : chunks[k].unit < index /\ chunks[k].unit \in Nat
    BY <1>1, ChunkFacts DEF CutInv
  <2>3. \A k \in DOMAIN chunks : chunks[k].unit # index
    BY <2>2 DEF RunnerType
  <2> QED BY <1>1, <2>1, <2>3 DEF CutInv
<1> QED BY <1>2, <1>3, <1>4, <1>5, <1>6

LEMMA PassthroughKeeps == RunnerInv /\ Runner!Passthrough => RunnerInv'
<1> SUFFICES ASSUME RunnerInv, Runner!Passthrough PROVE RunnerInv'
  OBVIOUS
<1> USE DEF RunnerInv
<1>1. /\ stage = "passthrough" /\ stage' = "chunking" /\ start' = 0
      /\ text' = payload.blocks[index].text /\ calls' = calls
      /\ UNCHANGED <<payload, config, batches, current, current_chars, index, chunks, answers>>
  BY DEF Runner!Passthrough, Runner!Cut, Runner!inputs, Runner!packing, Runner!asking
<1>2. IsList(text')
  <2>1. index <= Len(payload.blocks) /\ index \in Nat \ {0}
    BY <1>1 DEF UnitInv, Runner!Units, RunnerType
  <2>2. index \in DOMAIN payload.blocks
    BY <2>1, InputFacts DEF IsList
  <2> QED BY <1>1, <2>2, InputFacts
<1>3. RunnerType'
  BY <1>1, <1>2 DEF RunnerType, Stages, Chunks, AnswerRows, BlockIds, QuestionIds
<1>4. PackInv'
  BY <1>1, PackStands
<1>5. CheckedInv' /\ UnitInv' /\ AnswerInv'
  BY <1>1 DEF CheckedInv, UnitInv, AnswerInv, Runner!ValidConfig, Runner!ValidPayload,
         Runner!Units, Runner!Synthesizing
<1>6. CallInv'
  BY <1>1 DEF CallInv, UnitInv, RunnerType, Runner!Synthesizing, Runner!Preflight
<1>7. CutInv'
  <2>1. Len(text') \in Nat
    BY <1>2 DEF IsList
  <2>2. \A k \in DOMAIN chunks : chunks[k].unit < index /\ chunks[k].unit \in Nat
    BY <1>1, ChunkFacts DEF CutInv
  <2>3. \A k \in DOMAIN chunks : chunks[k].unit # index
    BY <2>2 DEF RunnerType
  <2> QED BY <1>1, <2>1, <2>3 DEF CutInv
<1> QED BY <1>3, <1>4, <1>5, <1>6, <1>7

\* The steps that only move to another stage.
LEMMA MovesKeep ==
  RunnerInv /\ (Runner!Begin \/ Runner!RequestFails \/ Runner!NothingToCut
                   \/ Runner!NextUnit \/ Runner!StartAsking) => RunnerInv'
<1> SUFFICES ASSUME RunnerInv,
                    Runner!Begin \/ Runner!RequestFails \/ Runner!NothingToCut
                      \/ Runner!NextUnit \/ Runner!StartAsking
             PROVE  RunnerInv'
  OBVIOUS
<1> USE DEF RunnerInv, Runner!inputs, Runner!packing, Runner!cutting, Runner!asking
<1>0. /\ UNCHANGED <<payload, config, batches, current, current_chars, text, start, chunks,
                     answers, calls>>
      /\ stage \notin {"begin", "packing", "failed"} /\ stage' \in Stages \ {"begin", "packing"}
      /\ index' \in Nat \ {0}
  BY DEF Runner!Begin, Runner!RequestFails, Runner!NothingToCut, Runner!NextUnit,
         Runner!StartAsking, RunnerType, Stages
<1>1. RunnerType'
  BY <1>0 DEF RunnerType, Chunks, AnswerRows, BlockIds, QuestionIds, Stages
<1>2. PackInv'
  BY <1>0, PackStands
<1>3. CheckedInv'
  BY <1>0 DEF CheckedInv, Runner!ValidConfig, Runner!ValidPayload
<1>4. Len(payload.blocks) \in Nat /\ Len(payload.blocks) >= 1
      /\ Len(payload.questions) \in Nat /\ Len(payload.questions) >= 1
      /\ Len(batches) \in Nat /\ Len(batches) >= 1
  <2>1. payload.blocks # <<>> /\ payload.questions # <<>> /\ batches # <<>>
    BY <1>0 DEF CheckedInv, Runner!ValidPayload, PackInv
  <2>2. Len(payload.blocks) \in Nat /\ Len(payload.questions) \in Nat
    BY InputFacts DEF IsList
  <2>3. Len(payload.blocks) # 0
    BY <2>1, InputFacts DEF IsList
  <2>4. Len(payload.questions) # 0
    BY <2>1, InputFacts DEF IsList
  <2>5. Len(batches) \in Nat /\ Len(batches) # 0
    BY <2>1 DEF RunnerType
  <2> QED BY <2>2, <2>3, <2>4, <2>5
<1>10. /\ Runner!Preflight' = Runner!Preflight /\ config'.max_calls = config.max_calls
       /\ stage # "packed" => Runner!Preflight <= config.max_calls
  BY <1>0 DEF CallInv, Runner!Preflight, Runner!Synthesizing
<1>5. CASE Runner!Begin
  <2>1. /\ stage = "packed" /\ index = 1 /\ index' = 1 /\ calls = 0
        /\ stage' = IF Runner!Synthesizing THEN "synthesis" ELSE "passthrough"
        /\ Runner!Preflight <= config.max_calls
    BY <1>5 DEF Runner!Begin, UnitInv, CallInv
  <2>3. UnitInv'
    BY <1>0, <1>4, <2>1 DEF UnitInv, Runner!Units, Runner!Synthesizing
  <2>4. CallInv'
    <3>1. stage' \in {"synthesis", "passthrough"} /\ calls' = 0 /\ index' - 1 = 0
      BY <1>0, <2>1
    <3> QED BY <1>10, <2>1, <3>1 DEF CallInv
  <2>5. AnswerInv'
    BY <1>0, <2>1 DEF AnswerInv
  <2>2. CutInv'
    BY <1>0, <2>1 DEF CutInv
  <2> QED BY <1>1, <1>2, <1>3, <2>2, <2>3, <2>4, <2>5
<1>6. CASE Runner!RequestFails
  <2>1. UnitInv' /\ CallInv' /\ AnswerInv'
    BY <1>0, <1>6 DEF Runner!RequestFails, UnitInv, CallInv, AnswerInv,
           Runner!Units, Runner!Synthesizing, Runner!Preflight, SynthesisCalls
  <2>2. CutInv'
    BY <1>0, <1>6 DEF Runner!RequestFails, CutInv
  <2> QED BY <1>1, <1>2, <1>3, <2>1, <2>2
<1>7. CASE Runner!NothingToCut
  <2>1. UnitInv' /\ CallInv' /\ AnswerInv'
    BY <1>0, <1>7 DEF Runner!NothingToCut, UnitInv, CallInv, AnswerInv,
           Runner!Units, Runner!Synthesizing, Runner!Preflight, SynthesisCalls
  <2>2. CutInv'
    BY <1>0, <1>7 DEF Runner!NothingToCut, CutInv
  <2> QED BY <1>1, <1>2, <1>3, <2>1, <2>2
<1>8. CASE Runner!NextUnit
  <2>1. /\ stage = "chunked" /\ index' = index + 1 /\ index < Runner!Units /\ index \in Nat
        /\ stage' = IF Runner!Synthesizing THEN "synthesis" ELSE "passthrough"
    BY <1>8 DEF Runner!NextUnit, RunnerType
  <2>3. Runner!Units' = Runner!Units /\ Runner!Units \in Nat /\ (Runner!Synthesizing' <=> Runner!Synthesizing)
    BY <1>0, <1>4 DEF Runner!Units, Runner!Synthesizing
  <2>4. UnitInv'
    BY <2>1, <2>3 DEF UnitInv
  <2>5. calls = IF Runner!Synthesizing THEN index ELSE 0
    BY <2>1 DEF CallInv
  <2>6. CallInv'
    <3>1. /\ stage' = "synthesis" \/ (stage' = "passthrough" /\ ~Runner!Synthesizing)
          /\ stage' = "synthesis" => Runner!Synthesizing
          /\ calls' = calls
      BY <1>0, <2>1
    <3>2. stage' = "synthesis" => calls' = index' - 1
      BY <2>1, <2>5, <3>1
    <3>3. stage' = "passthrough" => calls' = 0
      BY <2>5, <3>1
    <3> QED BY <1>10, <2>1, <3>1, <3>2, <3>3 DEF CallInv
  <2>7. AnswerInv'
    BY <1>0, <2>1 DEF AnswerInv
  <2>2. CutInv'
    <3>1. index' = index + 1 /\ stage = "chunked" /\ stage' \in {"synthesis", "passthrough"}
      BY <2>1
    <3>2. \A k \in DOMAIN chunks : chunks[k].unit < index' /\ chunks[k].unit <= index'
      <4>1. ASSUME NEW k \in DOMAIN chunks PROVE chunks[k].unit <= index /\ chunks[k].unit \in Nat
        BY ChunkFacts DEF CutInv
      <4> QED BY <2>1, <4>1
    <3> QED BY <1>0, <3>1, <3>2 DEF CutInv
  <2> QED BY <1>1, <1>2, <1>3, <2>2, <2>4, <2>6, <2>7
<1>9. CASE Runner!StartAsking
  <2>1. /\ stage = "chunked" /\ index = Runner!Units /\ index' = index
        /\ stage' \in {"failed", "qa"} /\ answers = <<>>
    BY <1>9 DEF Runner!StartAsking, AnswerInv
  <2>3. UnitInv' /\ AnswerInv'
    BY <1>0, <1>4, <2>1 DEF UnitInv, AnswerInv
  <2>4. calls = SynthesisCalls
    BY <2>1 DEF CallInv, SynthesisCalls, Runner!Units
  <2>5. SynthesisCalls \in Nat /\ Len(answers) = 0 /\ SynthesisCalls' = SynthesisCalls
    BY <1>0, <1>4, <2>1 DEF SynthesisCalls, Runner!Synthesizing
  <2>6. CallInv'
    <3>1. calls' = SynthesisCalls' + Len(answers')
      BY <1>0, <2>1, <2>4, <2>5
    <3> QED BY <1>10, <2>1, <3>1 DEF CallInv
  <2>2. CutInv'
    BY <1>0, <2>1 DEF CutInv
  <2> QED BY <1>1, <1>2, <1>3, <2>2, <2>3, <2>6
<1> QED BY <1>5, <1>6, <1>7, <1>8, <1>9

LEMMA LeastExists ==
  ASSUME NEW T, T \subseteq Nat, T # {}, NEW R, IsWellFoundedOn(R, Nat)
  PROVE  \E x \in T : \A y \in T : ~(<<y, x>> \in R)
BY WFMin

\* A set of integers below a bound has a last one.
LEMMA LastExists ==
  ASSUME NEW b \in Int, NEW S, S # {}, \A p \in S : p \in Int /\ p <= b
  PROVE  Runner!LastOf(S) \in S /\ \A q \in S : q <= Runner!LastOf(S)
<1> DEFINE T == {n \in Nat : b - n \in S}
<1>1. T \subseteq Nat /\ T # {}
  <2>1. PICK p \in S : TRUE
    OBVIOUS
  <2>2. b - p \in Nat /\ b - (b - p) = p
    BY <2>1
  <2> QED BY <2>1, <2>2
<1>2. PICK R : IsWellFoundedOn(R, Nat) /\ \A i, j \in Nat : i < j => <<i, j>> \in R
  <2> DEFINE Q == OpToRel(<, Nat)
  <2>1. IsWellFoundedOn(Q, Nat)
    BY NatLessThanWellFounded
  <2>2. \A i, j \in Nat : i < j => <<i, j>> \in Q
    BY DEF OpToRel
  <2> QED BY <2>1, <2>2
<1> HIDE DEF T
<1>3. PICK n \in T : \A m \in T : ~(<<m, n>> \in R)
  BY <1>1, <1>2, LeastExists
<1>4. b - n \in S /\ \A q \in S : q <= b - n
  <2>1. n \in Nat /\ b - n \in S
    BY <1>1, <1>3 DEF T
  <2>2. ASSUME NEW q \in S PROVE ~(q > b - n)
    <3>1. ASSUME q > b - n PROVE FALSE
      <4>1. b - q \in Nat /\ b - (b - q) = q /\ b - q < n
        BY <2>1, <3>1
      <4>2. b - q \in T
        BY <4>1 DEF T
      <4> QED BY <1>2, <1>3, <2>1, <4>1, <4>2
    <3> QED BY <3>1
  <2> QED BY <2>1, <2>2
<1> QED BY <1>4 DEF Runner!LastOf

\* A chunk is not empty, keeps the limit and ends in the text.
LEMMA ChunkEnds ==
  ASSUME RunnerInv, stage = "chunking", start < Len(text)
  PROVE  /\ Runner!ChunkEnd \in Nat /\ start < Runner!ChunkEnd
         /\ Runner!ChunkEnd <= Len(text) /\ Runner!ChunkEnd - start <= config.size
<1> DEFINE end == Runner!MinN(Len(text), start + config.size)
           found == Runner!Breaks(end)
<1>1. /\ Len(text) \in Nat /\ start \in Nat /\ config.size \in Int /\ config.size > 0
  BY InputFacts DEF RunnerInv, RunnerType, IsList, CheckedInv, Runner!ValidConfig
<1>2. end \in Nat /\ start < end /\ end <= Len(text) /\ end - start <= config.size
  BY <1>1 DEF Runner!MinN
<1>3. Runner!ChunkEnd = IF end < Len(text) /\ found # {} /\ Runner!LastOf(found) > start
                        THEN Runner!LastOf(found) ELSE end
  BY DEF Runner!ChunkEnd
<1> HIDE DEF end
<1>4. \A p \in found : p \in Int /\ p <= end - 1
  <2>1. config.size \div 2 \in Int
    BY <1>1
  <2> QED BY <1>1, <1>2, <2>1 DEF Runner!Breaks
<1> HIDE DEF found
<1>5. ASSUME found # {} PROVE Runner!LastOf(found) \in Int /\ Runner!LastOf(found) <= end - 1
  <2>1. Runner!LastOf(found) \in found
    BY <1>2, <1>4, <1>5, LastExists
  <2> QED BY <1>4, <2>1
<1>6. CASE end < Len(text) /\ found # {} /\ Runner!LastOf(found) > start
  BY <1>1, <1>2, <1>3, <1>5, <1>6
<1>7. CASE ~(end < Len(text) /\ found # {} /\ Runner!LastOf(found) > start)
  BY <1>2, <1>3, <1>7
<1> QED BY <1>6, <1>7

\* A unit is made of blocks of the document.
LEMMA SourcesKnown ==
  ASSUME RunnerInv, stage = "chunking"
  PROVE  Runner!Sources(index) \subseteq BlockIds
<1> USE DEF RunnerInv
<1>1. index \in Nat \ {0} /\ index <= Runner!Units
  BY DEF RunnerType, UnitInv
<1>2. CASE Runner!Synthesizing
  <2>1. index \in DOMAIN batches
    BY <1>1, <1>2 DEF RunnerType, Runner!Units
  <2>2. ASSUME NEW i \in DOMAIN batches[index]
        PROVE  batches[index][i].block \in DOMAIN payload.blocks
    <3>1. <<index, i>> \in Runner!Places(batches)
      BY <2>1, PlacesOf
    <3>2. \A w \in Runner!Places(batches) : batches[w[1]][w[2]].block \in DOMAIN payload.blocks
      BY DEF PackInv, Packed
    <3> QED BY <3>1, <3>2
  <2> QED BY <1>2, <2>2 DEF Runner!Sources, BlockIds
<1>3. CASE ~Runner!Synthesizing
  <2>1. index \in DOMAIN payload.blocks
    BY <1>1, <1>3, InputFacts DEF Runner!Units, IsList
  <2> QED BY <1>3, <2>1 DEF Runner!Sources, BlockIds
<1> QED BY <1>2, <1>3

LEMMA ShorterRange ==
  ASSUME NEW m \in Nat, NEW n \in Nat, m <= n
  PROVE  \A p \in 0..(m - 1) : p \in 0..(n - 1)
OBVIOUS

LEMMA ChunkKeeps == RunnerInv /\ Runner!Chunk => RunnerInv'
<1> SUFFICES ASSUME RunnerInv, Runner!Chunk PROVE RunnerInv'
  OBVIOUS
<1> USE DEF RunnerInv
<1> DEFINE end == Runner!ChunkEnd
           c == [unit |-> index, start |-> start, end |-> end,
                 sources |-> Runner!ChunkSources(start, end)]
           n == Len(chunks) + 1
<1>1. /\ stage = "chunking" /\ start < Len(text)
      /\ chunks' = Append(chunks, c)
      /\ start' = IF end = Len(text) THEN start ELSE Runner!NextStart(end)
      /\ stage' = IF end = Len(text) THEN "chunked" ELSE "chunking"
      /\ UNCHANGED <<payload, config, batches, current, current_chars, index, text, answers,
                     calls>>
  BY DEF Runner!Chunk, Runner!inputs, Runner!packing, Runner!asking
<1>2. /\ end \in Nat /\ start < end /\ end <= Len(text) /\ end - start <= config.size
      /\ start \in Nat /\ index \in Nat \ {0} /\ Len(text) \in Nat /\ config.size \in Int
      /\ config.overlap \in Int /\ 0 <= config.overlap
  BY <1>1, ChunkEnds, InputFacts
     DEF RunnerType, IsList, CheckedInv, Runner!ValidConfig
<1>3. /\ c.unit = index /\ c.start = start /\ c.end = end
      /\ c.sources \subseteq BlockIds /\ c \in Chunks
  <2>1. Runner!ChunkSources(start, end) \subseteq Runner!Sources(index)
    BY DEF Runner!ChunkSources, Runner!Referenced
  <2>2. Runner!ChunkSources(start, end) \subseteq BlockIds
    BY <1>1, <2>1, SourcesKnown
  <2> HIDE DEF end
  <2> QED BY <1>2, <2>2 DEF Chunks
<1>4. end # Len(text) => start < start' /\ start' <= end /\ start' \in Nat
  BY <1>1, <1>2 DEF Runner!NextStart
<1> HIDE DEF end, c
<1>5. /\ n \in Nat /\ n > 0 /\ DOMAIN chunks = 1..(n - 1) /\ DOMAIN chunks' = 1..n
      /\ chunks' \in Seq(Chunks) /\ chunks'[n] = c
      /\ \A k \in 1..(n - 1) : chunks'[k] = chunks[k] /\ k \in DOMAIN chunks'
  BY <1>1, <1>3 DEF RunnerType
<1> HIDE DEF n
<1>6. RunnerType'
  <2>1. start' \in Nat /\ stage' \in Stages
    BY <1>1, <1>2, <1>4 DEF Stages
  <2>2. chunks' \in Seq(Chunks)'
    BY <1>1, <1>5 DEF Chunks, BlockIds
  <2> QED BY <1>1, <2>1, <2>2 DEF RunnerType, AnswerRows, BlockIds, QuestionIds
<1>7. PackInv'
  BY <1>1, PackStands
<1>8. CheckedInv' /\ UnitInv' /\ AnswerInv'
  BY <1>1 DEF CheckedInv, UnitInv, AnswerInv, Runner!ValidConfig, Runner!ValidPayload,
         Runner!Units, Runner!Synthesizing
<1>9. CallInv'
  <2>1. Runner!Preflight' = Runner!Preflight /\ Runner!Preflight <= config.max_calls
    BY <1>1 DEF CallInv, Runner!Preflight, Runner!Synthesizing
  <2>2. calls' = IF Runner!Synthesizing' THEN index' ELSE 0
    BY <1>1 DEF CallInv, Runner!Synthesizing
  <2>3. stage' \in {"chunking", "chunked"}
    BY <1>1
  <2> QED BY <1>1, <2>1, <2>2, <2>3 DEF CallInv
<1>10. ASSUME NEW k \in DOMAIN chunks'
       PROVE  /\ chunks'[k].start < chunks'[k].end /\ chunks'[k].end - chunks'[k].start <= config.size
              /\ chunks'[k].unit <= index
              /\ chunks'[k].unit = index => chunks'[k].start <= start
              /\ k # n => k \in DOMAIN chunks /\ chunks'[k] = chunks[k]
              /\ k # n /\ chunks'[k].unit = index => chunks'[k].start < start
  <2>1. CASE k = n
    BY <1>2, <1>3, <1>5, <2>1
  <2>2. CASE k # n
    <3>1. k \in DOMAIN chunks /\ chunks'[k] = chunks[k]
      BY <1>5, <2>2
    <3>2. /\ chunks[k].start < chunks[k].end /\ chunks[k].end - chunks[k].start <= config.size
          /\ chunks[k].unit <= index /\ (chunks[k].unit = index => chunks[k].start < start)
      BY <1>1, <3>1 DEF CutInv
    <3>3. chunks[k].start \in Nat
      BY <3>1, ChunkFacts
    <3> QED BY <1>2, <2>2, <3>1, <3>2, <3>3
  <2> QED BY <2>1, <2>2
<1>11. ASSUME NEW k \in DOMAIN chunks' \ {1}, chunks'[k].unit = chunks'[k - 1].unit
       PROVE  chunks'[k - 1].start < chunks'[k].start
  <2>1. k - 1 \in 1..(n - 1) /\ k - 1 # n /\ k - 1 \in DOMAIN chunks'
    BY <1>5
  <2>2. CASE k = n
    <3>1. chunks'[k - 1].unit = index
      BY <1>3, <1>5, <1>11, <2>2
    <3> QED BY <1>3, <1>5, <1>10, <2>1, <2>2, <3>1
  <2>3. CASE k # n
    <3>1. k \in DOMAIN chunks \ {1} /\ chunks'[k] = chunks[k] /\ chunks'[k - 1] = chunks[k - 1]
      BY <1>5, <2>1, <2>3
    <3> QED BY <1>11, <3>1 DEF CutInv
  <2> QED BY <2>2, <2>3
<1>12. ASSUME NEW p \in 0..(end - 1)
       PROVE  \E k \in DOMAIN chunks' :
                 chunks'[k].unit = index /\ chunks'[k].start <= p /\ p < chunks'[k].end
  <2>1. CASE p < start
    <3>1. p \in 0..(start - 1)
      BY <1>2, <2>1
    <3>2. PICK k \in DOMAIN chunks : chunks[k].unit = index /\ chunks[k].start <= p /\ p < chunks[k].end
      BY <1>1, <3>1 DEF CutInv
    <3> QED BY <1>5, <3>2
  <2>2. CASE ~(p < start)
    <3>1. n \in DOMAIN chunks' /\ start <= p /\ p < end
      BY <1>2, <1>5, <2>2
    <3> QED BY <1>3, <1>5, <3>1
  <2> QED BY <2>1, <2>2
<1>13. CutInv'
  <2>1. stage' \in {"chunking", "chunked"} /\ text' = text /\ index' = index /\ config' = config
    BY <1>1
  <2>2. CASE end = Len(text)
    <3>1. stage' = "chunked"
      BY <1>1, <2>2
    <3> QED BY <1>10, <1>11, <1>12, <2>1, <2>2, <3>1 DEF CutInv
  <2>3. CASE end # Len(text)
    <3>1. stage' = "chunking" /\ start < start' /\ start' <= end /\ start' \in Nat
      BY <1>1, <1>4, <2>3
    <3>2. start' <= Len(text)
      BY <1>2, <3>1
    <3>3. \A p \in 0..(start' - 1) : p \in 0..(end - 1)
      BY <1>2, <3>1, ShorterRange
    <3>4. ASSUME NEW k \in DOMAIN chunks', chunks'[k].unit = index PROVE chunks'[k].start < start'
      <4>1. chunks'[k].start <= start /\ chunks'[k].start \in Nat
        BY <1>2, <1>3, <1>5, <1>10, <3>4, ChunkFacts
      <4> QED BY <1>2, <3>1, <4>1
    <3>5. \A p \in 0..(start' - 1) : \E k \in DOMAIN chunks' :
             chunks'[k].unit = index /\ chunks'[k].start <= p /\ p < chunks'[k].end
      BY <1>12, <3>3
    <3> QED BY <1>10, <1>11, <2>1, <3>1, <3>2, <3>4, <3>5 DEF CutInv
  <2> QED BY <2>2, <2>3
<1> QED BY <1>6, <1>7, <1>8, <1>9, <1>13

LEMMA AnswerKeeps ==
  ASSUME NEW r \in Runner!Retrievals, NEW cited \in SUBSET r, RunnerInv, Runner!Answer(r, cited)
  PROVE  RunnerInv'
<1> USE DEF RunnerInv
<1> DEFINE n == Len(answers) + 1
           a == [question |-> payload.questions[n].id, evidence |-> Runner!Evidence(cited)]
<1>1. /\ stage = "qa" /\ calls' = calls + 1
      /\ answers' = Append(answers, a)
      /\ stage' = IF n = Len(payload.questions) THEN "done" ELSE "qa"
      /\ UNCHANGED <<payload, config, batches, current, current_chars, index, text, start, chunks>>
  BY DEF Runner!Answer, Runner!Asked, Runner!inputs, Runner!packing, Runner!cutting
<1>2. /\ n \in Nat \ {0} /\ n <= Len(payload.questions) /\ Len(payload.questions) \in Nat
      /\ n \in DOMAIN payload.questions
  BY <1>1, InputFacts DEF AnswerInv, RunnerType, IsList
<1>3. a \in AnswerRows
  <2>1. cited \subseteq DOMAIN chunks
    BY DEF Runner!Retrievals
  <2>2. Runner!Evidence(cited) \subseteq BlockIds
    BY <2>1, ChunkFacts DEF Runner!Evidence
  <2> HIDE DEF n
  <2> QED BY <1>2, <2>2 DEF AnswerRows, QuestionIds
<1>4. /\ answers' \in Seq(AnswerRows) /\ Len(answers') = n /\ DOMAIN answers' = 1..n
      /\ answers'[n] = a /\ DOMAIN answers = 1..(n - 1)
      /\ \A i \in 1..(n - 1) : answers'[i] = answers[i]
  BY <1>1, <1>3 DEF RunnerType
<1> HIDE DEF n, a
<1>5. RunnerType'
  <2>1. answers' \in Seq(AnswerRows)'
    BY <1>1, <1>4 DEF AnswerRows, BlockIds, QuestionIds
  <2> QED BY <1>1, <2>1 DEF RunnerType, Stages, Chunks, BlockIds
<1>6. PackInv'
  BY <1>1, PackStands
<1>7. CheckedInv' /\ UnitInv' /\ CutInv'
  BY <1>1 DEF CheckedInv, UnitInv, CutInv, Runner!ValidConfig, Runner!ValidPayload
<1>8. CallInv'
  <2>1. Runner!Preflight' = Runner!Preflight /\ Runner!Preflight <= config.max_calls
    BY <1>1 DEF CallInv, Runner!Preflight, Runner!Synthesizing
  <2>2. SynthesisCalls \in Nat /\ SynthesisCalls' = SynthesisCalls
    BY <1>1 DEF SynthesisCalls, RunnerType, Runner!Synthesizing
  <2>3. calls = SynthesisCalls + (n - 1)
    BY <1>1, <1>2 DEF CallInv, n, RunnerType
  <2>4. calls' = SynthesisCalls' + Len(answers')
    BY <1>1, <1>2, <1>4, <2>2, <2>3
  <2>5. stage' \in {"qa", "done"}
    BY <1>1
  <2> QED BY <1>1, <2>1, <2>4, <2>5 DEF CallInv
<1>9. AnswerInv'
  <2>1. ASSUME NEW i \in DOMAIN answers' PROVE answers'[i].question = payload.questions[i].id
    <3>1. CASE i = n
      BY <1>4, <3>1 DEF a
    <3>2. CASE i # n
      <4>1. i \in DOMAIN answers /\ answers'[i] = answers[i]
        BY <1>2, <1>4, <3>2
      <4> QED BY <4>1 DEF AnswerInv
    <3> QED BY <3>1, <3>2
  <2>2. stage' = "qa" => Len(answers') < Len(payload.questions)
    BY <1>1, <1>2, <1>4
  <2>3. stage' \in {"qa", "done"} /\ (stage' = "done" => Len(answers') = Len(payload.questions))
    BY <1>1, <1>4
  <2> QED BY <1>1, <2>1, <2>2, <2>3 DEF AnswerInv
<1> QED BY <1>5, <1>6, <1>7, <1>8, <1>9

LEMMA NextRunner == RunnerInv /\ [Runner!Next]_(Runner!vars) => RunnerInv'
<1> SUFFICES ASSUME RunnerInv, [Runner!Next]_(Runner!vars) PROVE RunnerInv'
  OBVIOUS
<1>1. CASE \/ Runner!Refuse \/ Runner!TooManyCalls \/ Runner!NoGenerator
           \/ Runner!Unfinished \/ Runner!BadAnswer
  BY <1>1, FailKeeps DEF Runner!Refuse, Runner!TooManyCalls, Runner!NoGenerator,
     Runner!Unfinished, Runner!BadAnswer
<1>2. CASE Runner!Accept
  BY <1>2, AcceptKeeps
<1>3. CASE Runner!PackSegment
  BY <1>3, PackSegmentKeeps
<1>4. CASE Runner!EndPacking
  BY <1>4, EndPackingKeeps
<1>5. CASE \/ Runner!Begin \/ Runner!RequestFails \/ Runner!NothingToCut
           \/ Runner!NextUnit \/ Runner!StartAsking
  BY <1>5, MovesKeep
<1>6. ASSUME NEW t \in Answers, Runner!Synthesize(t) PROVE RunnerInv'
  BY <1>6, SynthesizeKeeps
<1>7. CASE Runner!Passthrough
  BY <1>7, PassthroughKeeps
<1>8. CASE Runner!Chunk
  BY <1>8, ChunkKeeps
<1>9. ASSUME NEW r \in Runner!Retrievals, NEW cited \in SUBSET r, Runner!Answer(r, cited)
      PROVE  RunnerInv'
  BY <1>9, AnswerKeeps
<1>10. CASE UNCHANGED Runner!vars
  <2>1. UNCHANGED <<payload, config, batches, current, current_chars, stage, index, text, start,
                    chunks, answers, calls>>
    BY <1>10 DEF Runner!vars, Runner!inputs, Runner!packing, Runner!cutting, Runner!asking
  <2>2. RunnerType'
    BY <2>1 DEF RunnerInv, RunnerType, Chunks, AnswerRows, BlockIds, QuestionIds
  <2>3. CheckedInv' /\ UnitInv' /\ AnswerInv' /\ CutInv'
    BY <2>1 DEF RunnerInv, CheckedInv, UnitInv, AnswerInv, CutInv, Runner!ValidConfig,
       Runner!ValidPayload, Runner!Units, Runner!Synthesizing
  <2>5. CallInv'
    <3>1. /\ SynthesisCalls' = SynthesisCalls /\ Runner!Preflight' = Runner!Preflight
          /\ Runner!Synthesizing' = Runner!Synthesizing
      BY <2>1 DEF SynthesisCalls, Runner!Preflight, Runner!Synthesizing
    <3> QED BY <2>1, <3>1 DEF RunnerInv, CallInv
  <2>4. PackInv'
    BY <2>1 DEF RunnerInv, PackInv, Packed, TextLen, WithinLimit
  <2> QED BY <2>2, <2>3, <2>4, <2>5 DEF RunnerInv
<1> QED BY <1>1, <1>2, <1>3, <1>4, <1>5, <1>6, <1>7, <1>8, <1>9, <1>10
        DEF Runner!Next, Runner!Progress

\* What is packed is the document, and what is cut is covered.
LEMMA RunnerKeepsText == RunnerInv => Runner!ChunksCover /\ Runner!BatchesKeepText
<1> SUFFICES ASSUME RunnerInv PROVE Runner!ChunksCover /\ Runner!BatchesKeepText
  OBVIOUS
<1> USE DEF RunnerInv
<1>1. Runner!ChunksCover
  BY DEF CutInv, Runner!ChunksCover, Runner!UnitChunks
<1>2. ASSUME stage \notin {"begin", "packing", "failed"}
      PROVE  /\ Runner!InDocumentOrder(batches)
             /\ \A j \in DOMAIN payload.blocks : \A p \in 0..(TextLen(j) - 1) :
                   Runner!Holds(batches, j, p)
             /\ \A i \in DOMAIN batches : Len(batches[i]) > 1 =>
                   Runner!Counted(batches[i]) <= config.limit
  <2>1. Packed(batches, Len(payload.blocks) + 1, 0) /\ WithinLimit(batches)
    BY <1>2 DEF PackInv
  <2>2. \A j \in DOMAIN payload.blocks : j < Len(payload.blocks) + 1
    BY InputFacts DEF IsList
  <2>3. \A b : Runner!Counted(b) = Cardinality(CountedIn(b))
    BY SameCardinality DEF Runner!Counted, CountedIn
  <2> QED BY <2>1, <2>2, <2>3 DEF Packed, WithinLimit
<1>3. Runner!BatchesKeepText
  BY <1>2 DEF Runner!BatchesKeepText, TextLen
<1> QED BY <1>1, <1>3

\* The answers of a completed execution are those the pilot waits for.
LEMMA RunnerIsAccepted == RunnerInv => Runner!ResponseAccepted
<1> SUFFICES ASSUME RunnerInv PROVE Runner!ResponseAccepted
  OBVIOUS
<1> USE DEF RunnerInv
<1>1. /\ Len(payload.questions) \in Nat /\ DOMAIN payload.questions = 1..Len(payload.questions)
      /\ SynthesisCalls \in Nat /\ Len(answers) \in Nat /\ DOMAIN answers = 1..Len(answers)
      /\ config.max_calls \in Int
  BY InputFacts DEF RunnerType, IsList, SynthesisCalls
<1>2. ASSUME stage = "done" PROVE Runner!ValidResponse /\ calls = Runner!Preflight
  <2>1. Len(answers) = Len(payload.questions) /\ DOMAIN answers = DOMAIN payload.questions
    BY <1>1, <1>2 DEF AnswerInv
  <2>2. \A i \in DOMAIN answers : answers[i].question = payload.questions[i].id
    BY DEF AnswerInv
  <2>3. \A i, j \in DOMAIN answers : answers[i].question = answers[j].question => i = j
    BY <1>2, <2>1, <2>2 DEF CheckedInv, Runner!ValidPayload, Runner!Distinct
  <2>4. {answers[i].question : i \in DOMAIN answers} =
           {payload.questions[i].id : i \in DOMAIN payload.questions}
    BY <2>1, <2>2
  <2>5. \A i \in DOMAIN answers : answers[i].evidence \subseteq BlockIds
    <3>1. \A i \in DOMAIN answers : answers[i] \in AnswerRows
      BY DEF RunnerType
    <3> QED BY <3>1 DEF AnswerRows
  <2>6. calls = SynthesisCalls + Len(payload.questions) /\ calls = Runner!Preflight
    BY <1>2, <2>1 DEF CallInv, SynthesisCalls, Runner!Preflight
  <2>7. Len(payload.questions) # 0
    BY <1>2, InputFacts DEF CheckedInv, Runner!ValidPayload, IsList
  <2>8. calls >= 1
    BY <1>1, <2>6, <2>7
  <2> QED BY <2>3, <2>4, <2>5, <2>6, <2>8 DEF Runner!ValidResponse, BlockIds
<1>3. calls <= config.max_calls \/ stage \in {"begin", "failed"}
  <2>1. CASE stage \in {"packing", "packed"}
    BY <1>1, <2>1 DEF CallInv, CheckedInv, Runner!ValidConfig
  <2>2. CASE stage \notin {"begin", "packing", "packed", "failed"}
    <3>1. Runner!Preflight <= config.max_calls /\ Runner!Preflight = SynthesisCalls + Len(payload.questions)
      BY <2>2 DEF CallInv, Runner!Preflight, SynthesisCalls
    <3>2. calls <= SynthesisCalls + Len(payload.questions)
      <4>1. CASE stage \in {"qa", "done"}
        BY <1>1, <4>1 DEF CallInv, AnswerInv
      <4>2. CASE stage = "passthrough"
        BY <1>1, <4>2 DEF CallInv
      <4>3. CASE stage \in {"synthesis", "chunking", "chunked"}
        <5>1. index \in Nat /\ index <= Runner!Units
          BY <4>3 DEF UnitInv, RunnerType
        <5>2. CASE Runner!Synthesizing
          BY <1>1, <4>3, <5>1, <5>2 DEF CallInv, SynthesisCalls, Runner!Units
        <5>3. CASE ~Runner!Synthesizing
          BY <1>1, <4>3, <5>3 DEF CallInv, UnitInv
        <5> QED BY <5>2, <5>3
      <4> QED BY <2>2, <4>1, <4>2, <4>3 DEF RunnerType, Stages
    <3> QED BY <1>1, <3>1, <3>2 DEF RunnerType
  <2> QED BY <2>1, <2>2
<1> QED BY <1>2, <1>3 DEF Runner!ResponseAccepted

-----------------------------------------------------------------------------
(* Repairs *)

Text == Seq(STRING)

\* A text with a span x, and one with two spans x and y, that edits replace.
Three(p, x, q) == p \o (x \o q)
Five(p, x, m, y, q) == Three(p, x, Three(m, y, q))

\* Three parts in two ways.
LEMMA JoinedAgain ==
  ASSUME NEW p \in Text, NEW x \in Text, NEW q \in Text
  PROVE  (p \o x) \o q = Three(p, x, q)
BY ConcatAssociative DEF Text, Three

LEMMA ThreeIsText ==
  ASSUME NEW p \in Text, NEW x \in Text, NEW q \in Text
  PROVE  /\ Three(p, x, q) \in Text
         /\ Len(Three(p, x, q)) = Len(p) + Len(x) + Len(q)
         /\ Len(p) \in Nat /\ Len(x) \in Nat /\ Len(q) \in Nat
BY DEF Text, Three

\* The parts of a text that was put together from three.
LEMMA SlicesOfThree ==
  ASSUME NEW p \in Text, NEW x \in Text, NEW q \in Text
  PROVE  /\ Repair!Slice(Three(p, x, q), 0, Len(p)) = p
         /\ Repair!Slice(Three(p, x, q), Len(p), Len(p) + Len(x)) = x
         /\ Repair!Slice(Three(p, x, q), Len(p) + Len(x), Len(Three(p, x, q))) = q
<1>0. PICK t : t = p \o (x \o q)
  OBVIOUS
<1>1. /\ x \o q \in Text /\ Len(x \o q) = Len(x) + Len(q)
      /\ t \in Text /\ Len(t) = Len(p) + Len(x) + Len(q)
      /\ Len(p) \in Nat /\ Len(x) \in Nat /\ Len(q) \in Nat
  BY <1>0 DEF Text
<1>2. \A i \in 1..Len(t) :
        t[i] = IF i <= Len(p) THEN p[i]
               ELSE IF i <= Len(p) + Len(x) THEN x[i - Len(p)] ELSE q[i - Len(p) - Len(x)]
  BY <1>0, <1>1 DEF Text
<1>3. Repair!Slice(t, 0, Len(p)) = p
  <2>1. Repair!Slice(t, 0, Len(p)) = SubSeq(t, 1, Len(p))
    BY <1>1 DEF Repair!Slice, Repair!MinN
  <2>2. SubSeq(t, 1, Len(p)) \in Text /\ Len(SubSeq(t, 1, Len(p))) = Len(p)
    BY <1>1 DEF Text
  <2>3. \A i \in 1..Len(p) : SubSeq(t, 1, Len(p))[i] = p[i]
    BY <1>1, <1>2 DEF Text
  <2> QED BY <2>1, <2>2, <2>3, SeqEqual DEF Text
<1>4. Repair!Slice(t, Len(p), Len(p) + Len(x)) = x
  <2> DEFINE s == SubSeq(t, Len(p) + 1, Len(p) + Len(x))
  <2>1. Repair!Slice(t, Len(p), Len(p) + Len(x)) = s
    BY <1>1 DEF Repair!Slice, Repair!MinN
  <2>2. s \in Text /\ Len(s) = Len(x)
    BY <1>1 DEF Text
  <2>3. \A i \in 1..Len(x) : s[i] = x[i]
    <3>1. \A i \in 1..Len(x) : s[i] = t[Len(p) + i]
      BY <1>1
    <3> HIDE DEF s
    <3> QED BY <1>1, <1>2, <3>1
  <2> HIDE DEF s
  <2> QED BY <2>1, <2>2, <2>3, SeqEqual DEF Text
<1>5. Repair!Slice(t, Len(p) + Len(x), Len(t)) = q
  <2> DEFINE s == SubSeq(t, Len(p) + Len(x) + 1, Len(t))
  <2>1. Repair!Slice(t, Len(p) + Len(x), Len(t)) = s
    BY <1>1 DEF Repair!Slice, Repair!MinN
  <2>2. s \in Text /\ Len(s) = Len(q)
    BY <1>1 DEF Text
  <2>3. \A i \in 1..Len(q) : s[i] = q[i]
    <3>1. \A i \in 1..Len(q) : s[i] = t[Len(p) + Len(x) + i]
      BY <1>1
    <3> HIDE DEF s
    <3> QED BY <1>1, <1>2, <3>1
  <2> HIDE DEF s
  <2> QED BY <2>1, <2>2, <2>3, SeqEqual DEF Text
<1> QED BY <1>0, <1>3, <1>4, <1>5 DEF Three

\* A text is the span between a and b, with what is around it.
Cut(t, a, b) ==
    \E p, x, q \in Text :
        t = Three(p, x, q) /\ Len(p) = a /\ Len(x) = b - a /\ x = Repair!Slice(t, a, b)

LEMMA CutInThree ==
  ASSUME NEW t \in Text, NEW a \in Nat, NEW b \in Nat, a <= b, b <= Len(t)
  PROVE  Cut(t, a, b)
<1> DEFINE p == SubSeq(t, 1, a)
           x == SubSeq(t, a + 1, b)
           q == SubSeq(t, b + 1, Len(t))
<1>1. p \in Text /\ Len(p) = a /\ x \in Text /\ Len(x) = b - a /\ q \in Text
  BY DEF Text
<1>0. /\ Len(t) \in Nat /\ Len(t) \in b..Len(t) /\ Len(t) \in a..Len(t)
      /\ a + 1 \in 1..Len(t) + 1 /\ 1 \in 1..Len(t) + 1
      /\ b \in ((a + 1) - 1)..Len(t) /\ a \in (1 - 1)..Len(t)
  BY DEF Text
<1>2. x \o q = SubSeq(t, a + 1, Len(t))
  BY <1>0, ConcatAdjacentSubSeq, Zenon DEF Text
<1>3. p \o SubSeq(t, a + 1, Len(t)) = SubSeq(t, 1, Len(t))
  BY <1>0, ConcatAdjacentSubSeq, Zenon DEF Text
<1>4. SubSeq(t, 1, Len(t)) = t
  BY SubSeqFull DEF Text
<1>5. x = Repair!Slice(t, a, b)
  BY DEF Repair!Slice, Repair!MinN, Text
<1> HIDE DEF p, x, q
<1> QED BY <1>1, <1>2, <1>3, <1>4, <1>5 DEF Three, Cut

\* What an edit makes of the text around it.
LEMMA Spliced ==
  ASSUME NEW p \in Text, NEW x \in Text, NEW q \in Text, NEW e,
         e.start = Len(p), e.end = Len(p) + Len(x), e.after \in Text
  PROVE  Repair!Apply(Three(p, x, q), e) = Three(p, e.after, q)
<1>1. PICK t : t = Three(p, x, q)
  OBVIOUS
<1>2. Repair!Slice(t, 0, Len(p)) = p /\ Repair!Slice(t, Len(p) + Len(x), Len(t)) = q
  BY <1>1, SlicesOfThree
<1>3. Repair!Apply(t, e) = (p \o e.after) \o q
  BY <1>2 DEF Repair!Apply
<1> QED BY <1>1, <1>3, JoinedAgain

\* The loop of repaired_blocks() for no edit, one, and two.
LEMMA RoundsOfOne ==
  ASSUME NEW f, NEW r, NEW t, f[r].start \in Nat
  PROVE  /\ Repair!RepairedText(f, {}, t) = t
         /\ Repair!RepairedText(f, {r}, t) = Repair!Apply(t, f[r])
<1>1. Repair!WithoutLast(f, {}) = {}
  BY DEF Repair!WithoutLast
<1>2. Repair!Last(f, {r}) = r
  BY DEF Repair!Last
<1>3. Repair!WithoutLast(f, {r}) = {}
  BY <1>2 DEF Repair!WithoutLast
<1> QED BY <1>1, <1>2, <1>3 DEF Repair!RepairedText, Repair!ApplyLast

LEMMA RoundsOfTwo ==
  ASSUME NEW f, NEW r, NEW s, NEW t, f[r].start \in Nat, f[s].start \in Nat,
         f[r].start < f[s].start
  PROVE  Repair!RepairedText(f, {r, s}, t) = Repair!Apply(Repair!Apply(t, f[s]), f[r])
<1>1. Repair!Last(f, {r, s}) = s
  BY DEF Repair!Last
<1>2. Repair!WithoutLast(f, {r, s}) = {r}
  BY <1>1 DEF Repair!WithoutLast
<1>3. Repair!Last(f, {r}) = r
  BY DEF Repair!Last
<1> QED BY <1>1, <1>2, <1>3 DEF Repair!RepairedText, Repair!ApplyLast

LEMMA Regrouped ==
  ASSUME NEW p \in Text, NEW x \in Text, NEW m \in Text, NEW y \in Text, NEW q \in Text
  PROVE  Five(p, x, m, y, q) = Three(Three(p, x, m), y, q)
<1>1. y \o q \in Text /\ x \o m \in Text
  BY DEF Text
<1>2. PICK z : z = y \o q /\ z \in Text
  BY <1>1
<1>3. PICK v : v = x \o m /\ v \in Text
  BY <1>1
<1>4. (x \o m) \o z = Three(x, m, z)
  BY <1>2, JoinedAgain
<1>5. (p \o v) \o z = Three(p, v, z)
  BY <1>2, <1>3, JoinedAgain
<1> QED BY <1>2, <1>3, <1>4, <1>5 DEF Three, Five

\* Edits r and s of f replace x and y, after p and m.
Placed(f, r, s, p, x, m, y) ==
    /\ Len(x) > 0 /\ f[r].start = Len(p) /\ f[r].end = Len(p) + Len(x) /\ f[r].after \in Text
    /\ f[s].start = Len(p) + Len(x) + Len(m)
    /\ f[s].end = Len(p) + Len(x) + Len(m) + Len(y) /\ f[s].after \in Text
Replaced(f, r, s, p, x, m, y, q) ==
    LET t == Five(p, x, m, y, q) IN
    /\ Repair!RepairedText(f, {}, t) = t
    /\ Repair!RepairedText(f, {r}, t) = Five(p, f[r].after, m, y, q)
    /\ Repair!RepairedText(f, {s}, t) = Five(p, x, m, f[s].after, q)
    /\ Repair!RepairedText(f, {r, s}, t) = Five(p, f[r].after, m, f[s].after, q)

\* Edits of two spans do not disturb each other.
LEMMA TwoSpans ==
  ASSUME NEW p \in Text, NEW x \in Text, NEW m \in Text, NEW y \in Text, NEW q \in Text,
         NEW f, NEW r, NEW s, Placed(f, r, s, p, x, m, y)
  PROVE  Replaced(f, r, s, p, x, m, y, q)
<1>0. PICK e, g : e = f[r] /\ g = f[s]
  OBVIOUS
<1>1. PICK t : t = Five(p, x, m, y, q)
  OBVIOUS
<1>2. PICK u : u = Five(p, x, m, g.after, q)
  OBVIOUS
<1>3. /\ e.start = Len(p) /\ e.end = Len(p) + Len(x) /\ e.after \in Text
      /\ g.start = Len(p) + Len(x) + Len(m) /\ g.end = g.start + Len(y) /\ g.after \in Text
  BY <1>0 DEF Placed
<1>4. Repair!Apply(t, g) = u
  <2>1. PICK w \in Text : w = Three(p, x, m) /\ Len(w) = Len(p) + Len(x) + Len(m)
    BY ThreeIsText
  <2>2. g.start = Len(w) /\ g.end = Len(w) + Len(y)
    BY <1>3, <2>1
  <2>3. t = Three(w, y, q) /\ u = Three(w, g.after, q)
    BY <1>1, <1>2, <1>3, <2>1, Regrouped
  <2>4. Repair!Apply(Three(w, y, q), g) = Three(w, g.after, q)
    BY <1>3, <2>2, Spliced
  <2> QED BY <2>3, <2>4
<1>5. Repair!Apply(t, e) = Five(p, e.after, m, y, q)
  <2>1. PICK v \in Text : v = Three(m, y, q)
    BY ThreeIsText
  <2>2. Repair!Apply(Three(p, x, v), e) = Three(p, e.after, v)
    BY <1>3, Spliced
  <2> QED BY <1>1, <2>1, <2>2 DEF Five
<1>6. Repair!Apply(u, e) = Five(p, e.after, m, g.after, q)
  <2>1. PICK v \in Text : v = Three(m, g.after, q)
    BY <1>3, ThreeIsText
  <2>2. Repair!Apply(Three(p, x, v), e) = Three(p, e.after, v)
    BY <1>3, Spliced
  <2> QED BY <1>2, <2>1, <2>2 DEF Five
<1>7. f[r].start \in Nat /\ f[s].start \in Nat /\ f[r].start < f[s].start
  <2>1. Len(p) \in Nat /\ Len(x) \in Nat /\ Len(m) \in Nat
    BY DEF Text
  <2> QED BY <2>1 DEF Placed
<1>8. Repair!RepairedText(f, {}, t) = t /\ Repair!RepairedText(f, {r}, t) = Repair!Apply(t, e)
  BY <1>0, <1>7, RoundsOfOne
<1>9. Repair!RepairedText(f, {s}, t) = Repair!Apply(t, g)
  BY <1>0, <1>7, RoundsOfOne
<1>10. Repair!RepairedText(f, {r, s}, t) = Repair!Apply(Repair!Apply(t, g), e)
  BY <1>0, <1>7, RoundsOfTwo
<1> QED BY <1>0, <1>1, <1>2, <1>4, <1>5, <1>6, <1>8, <1>9, <1>10 DEF Replaced

LEMMA OneSpan ==
  ASSUME NEW p \in Text, NEW x \in Text, NEW q \in Text, NEW f, NEW r,
         f[r].start = Len(p), f[r].end = Len(p) + Len(x), f[r].after \in Text
  PROVE  /\ Repair!RepairedText(f, {}, Three(p, x, q)) = Three(p, x, q)
         /\ Repair!RepairedText(f, {r}, Three(p, x, q)) = Three(p, f[r].after, q)
<1>1. PICK t, e : t = Three(p, x, q) /\ e = f[r]
  OBVIOUS
<1>2. f[r].start \in Nat
  BY ThreeIsText
<1>3. Repair!RepairedText(f, {}, t) = t /\ Repair!RepairedText(f, {r}, t) = Repair!Apply(t, e)
  BY <1>1, <1>2, RoundsOfOne
<1>4. Repair!Apply(Three(p, x, q), e) = Three(p, e.after, q)
  BY <1>1, Spliced
<1> QED BY <1>1, <1>3, <1>4

\* Edit v takes back edit e, which now begins at n.
Reverses(v, e, n) ==
    v.start = n /\ v.end = n + Len(e.after) /\ v.before = e.after /\ v.after = e.before
Anchored(e) == Len(e.after) > 0
IsBefore(d, e) == d.end <= e.start
Added(d) == Len(d.after) - Len(d.before)

\* An edit of text t, as validate_case() accepts it.
Fits(t, e) ==
    /\ e.start \in Nat /\ e.end \in Nat /\ e.start < e.end /\ e.end <= Len(t)
    /\ e.before = Repair!Slice(t, e.start, e.end)
    /\ e.after \in Text

\* A block with one edit.
LEMMA TakenBackAlone ==
  ASSUME NEW t \in Text, NEW f, NEW g, NEW r, Fits(t, f[r]), Anchored(f[r]),
         Reverses(g[r], f[r], f[r].start)
  PROVE  \E u \in Text :
            /\ u = Repair!RepairedText(f, {r}, t) /\ t = Repair!RepairedText(f, {}, t)
            /\ u = Repair!RepairedText(g, {}, u) /\ t = Repair!RepairedText(g, {r}, u)
            /\ Fits(u, g[r])
<1>1. PICK e, v : e = f[r] /\ v = g[r]
  OBVIOUS
<1>2. Fits(t, e) /\ Len(e.after) > 0 /\ Reverses(v, e, e.start)
  BY <1>1 DEF Anchored
<1>3. PICK p, x, q \in Text : /\ t = Three(p, x, q) /\ Len(p) = e.start /\ Len(x) = e.end - e.start
                              /\ x = Repair!Slice(t, e.start, e.end)
  <2>1. e.start \in Nat /\ e.end \in Nat /\ e.start <= e.end /\ e.end <= Len(t)
    BY <1>2 DEF Fits
  <2>2. Cut(t, e.start, e.end)
    BY <2>1, CutInThree
  <2> QED BY <2>2 DEF Cut
<1>4. PICK u : u = Three(p, e.after, q)
  OBVIOUS
<1>5. e.start = Len(p) /\ e.end = Len(p) + Len(x) /\ e.before = x /\ e.after \in Text
  <2>1. e.start \in Nat /\ e.end \in Nat /\ e.before = Repair!Slice(t, e.start, e.end) /\ e.after \in Text
    BY <1>2 DEF Fits
  <2> QED BY <1>3, <2>1
<1>6. v.start = Len(p) /\ v.end = Len(p) + Len(e.after) /\ v.before = e.after /\ v.after = x
  BY <1>2, <1>5 DEF Reverses
<1>7. t = Repair!RepairedText(f, {}, t) /\ u = Repair!RepairedText(f, {r}, t)
  <2>1. f[r].start = Len(p) /\ f[r].end = Len(p) + Len(x) /\ f[r].after \in Text
    BY <1>1, <1>5
  <2>2. /\ Repair!RepairedText(f, {}, Three(p, x, q)) = Three(p, x, q)
        /\ Repair!RepairedText(f, {r}, Three(p, x, q)) = Three(p, f[r].after, q)
    BY <2>1, OneSpan
  <2> QED BY <1>1, <1>3, <1>4, <2>2
<1>8. u = Repair!RepairedText(g, {}, u) /\ t = Repair!RepairedText(g, {r}, u)
  <2>1. PICK a \in Text : a = e.after
    BY <1>5
  <2>2. g[r].start = Len(p) /\ g[r].end = Len(p) + Len(a) /\ g[r].after \in Text
    BY <1>1, <1>6, <2>1
  <2>3. /\ Repair!RepairedText(g, {}, Three(p, a, q)) = Three(p, a, q)
        /\ Repair!RepairedText(g, {r}, Three(p, a, q)) = Three(p, g[r].after, q)
    BY <2>2, OneSpan
  <2> QED BY <1>1, <1>3, <1>4, <1>6, <2>1, <2>3
<1>9. u \in Text /\ Len(u) = Len(p) + Len(e.after) + Len(q) /\ Len(e.after) \in Nat
      /\ Len(p) \in Nat /\ Len(q) \in Nat
  BY <1>4, <1>5, ThreeIsText
<1>10. Repair!Slice(u, Len(p), Len(p) + Len(e.after)) = e.after
  <2>1. PICK a \in Text : a = e.after
    BY <1>5
  <2>2. Repair!Slice(Three(p, a, q), Len(p), Len(p) + Len(a)) = a
    BY SlicesOfThree
  <2> QED BY <1>4, <2>1, <2>2
<1>11. Fits(u, v)
  BY <1>2, <1>6, <1>9, <1>10 DEF Fits
<1> QED BY <1>1, <1>7, <1>8, <1>9, <1>11

SpansAre(t, p, x, m, y, q) ==
    LET k == Len(p) + Len(x) + Len(m) IN
    /\ t \in Text /\ Len(t) = k + Len(y) + Len(q)
    /\ Repair!Slice(t, Len(p), Len(p) + Len(x)) = x
    /\ Repair!Slice(t, k, k + Len(y)) = y

LEMMA SpansOfFive ==
  ASSUME NEW p \in Text, NEW x \in Text, NEW m \in Text, NEW y \in Text, NEW q \in Text
  PROVE  SpansAre(Five(p, x, m, y, q), p, x, m, y, q)
<1>1. PICK v \in Text : v = Three(m, y, q)
  BY ThreeIsText
<1>2. PICK w \in Text : w = Three(p, x, m) /\ Len(w) = Len(p) + Len(x) + Len(m)
  BY ThreeIsText
<1>3. PICK t : t = Five(p, x, m, y, q)
  OBVIOUS
<1>4. t = Three(p, x, v)
  BY <1>1, <1>3 DEF Five
<1>5. t = Three(w, y, q)
  BY <1>2, <1>3, Regrouped
<1>6. Repair!Slice(t, Len(p), Len(p) + Len(x)) = x
  BY <1>4, SlicesOfThree
<1>7. Repair!Slice(t, Len(w), Len(w) + Len(y)) = y
  BY <1>5, SlicesOfThree
<1>8. t \in Text /\ Len(t) = Len(w) + Len(y) + Len(q)
  BY <1>5, ThreeIsText
<1> QED BY <1>2, <1>3, <1>6, <1>7, <1>8 DEF SpansAre

\* t in five parts, with the boundaries i, j, k and l.
InFive(t, i, j, k, l) ==
  \E p, x, m, y, q \in Text :
     /\ t = Five(p, x, m, y, q)
     /\ Len(p) = i /\ Len(x) = j - i /\ Len(m) = k - j /\ Len(y) = l - k

\* Every text can be cut at four places.
LEMMA CutInFive ==
  ASSUME NEW t \in Text, NEW i \in Nat, NEW j \in Nat, NEW k \in Nat, NEW l \in Nat,
         i <= j, j <= k, k <= l, l <= Len(t)
  PROVE  InFive(t, i, j, k, l)
<1>1. PICK w, y, q \in Text : t = Three(w, y, q) /\ Len(w) = k /\ Len(y) = l - k
  <2>1. Cut(t, k, l)
    BY CutInThree
  <2> QED BY <2>1 DEF Cut
<1>2. PICK p, x, m \in Text : w = Three(p, x, m) /\ Len(p) = i /\ Len(x) = j - i
  <2>1. i <= j /\ j <= Len(w)
    BY <1>1
  <2>2. Cut(w, i, j)
    BY <2>1, CutInThree
  <2> QED BY <2>2 DEF Cut
<1>3. Len(m) = k - j
  <2>1. Len(Three(p, x, m)) = Len(p) + Len(x) + Len(m)
    BY ThreeIsText
  <2>2. Len(p) \in Nat /\ Len(x) \in Nat /\ Len(m) \in Nat
    BY DEF Text
  <2>3. Len(p) + Len(x) + Len(m) = k /\ Len(p) = i /\ Len(x) = j - i
    <3>1. Len(w) = k
      BY <1>1
    <3>2. w = Three(p, x, m) /\ Len(p) = i /\ Len(x) = j - i
      BY <1>2
    <3> QED BY <2>1, <3>1, <3>2
  <2> QED BY <2>2, <2>3
<1>4. t = Five(p, x, m, y, q)
  BY <1>1, <1>2, Regrouped
<1> QED BY <1>1, <1>2, <1>3, <1>4 DEF InFive

\* A block with two edits, r before s.
LEMMA TakenBackTogether ==
  ASSUME NEW t \in Text, NEW f, NEW g, NEW r, NEW s, Fits(t, f[r]), Fits(t, f[s]),
         IsBefore(f[r], f[s]), Anchored(f[r]), Anchored(f[s]),
         Reverses(g[r], f[r], f[r].start), Reverses(g[s], f[s], f[s].start + Added(f[r]))
  PROVE  \E u \in Text :
            /\ u = Repair!RepairedText(f, {r, s}, t) /\ t = Repair!RepairedText(f, {}, t)
            /\ u = Repair!RepairedText(g, {}, u) /\ t = Repair!RepairedText(g, {r, s}, u)
            /\ Repair!RepairedText(f, {s}, t) = Repair!RepairedText(g, {r}, u)
            /\ Repair!RepairedText(f, {r}, t) = Repair!RepairedText(g, {s}, u)
            /\ Fits(u, g[r]) /\ Fits(u, g[s]) /\ IsBefore(g[r], g[s])
<1>1. PICK d, e : d = f[r] /\ e = f[s]
  OBVIOUS
<1>2. /\ d.start \in Nat /\ d.end \in Nat /\ d.start < d.end /\ d.end <= e.start
      /\ e.start \in Nat /\ e.end \in Nat /\ e.start < e.end /\ e.end <= Len(t)
      /\ d.before = Repair!Slice(t, d.start, d.end) /\ e.before = Repair!Slice(t, e.start, e.end)
      /\ Len(d.after) > 0 /\ Len(e.after) > 0
  BY <1>1 DEF Fits, IsBefore, Anchored
<1>3. PICK p, x, m, y, q \in Text :
         /\ t = Five(p, x, m, y, q)
         /\ Len(p) = d.start /\ Len(x) = d.end - d.start
         /\ Len(m) = e.start - d.end /\ Len(y) = e.end - e.start
  <2>1. PICK i, j, k, l \in Nat : i = d.start /\ j = d.end /\ k = e.start /\ l = e.end
    BY <1>2
  <2>2. i <= j /\ j <= k /\ k <= l /\ l <= Len(t)
    BY <1>2, <2>1
  <2>3. InFive(t, i, j, k, l)
    BY <2>1, <2>2, CutInFive
  <2> QED BY <2>1, <2>3 DEF InFive
<1>4. /\ Len(p) \in Nat /\ Len(x) \in Nat /\ Len(m) \in Nat /\ Len(y) \in Nat /\ Len(q) \in Nat
  BY DEF Text
<1>5. /\ d.start = Len(p) /\ d.end = Len(p) + Len(x) /\ Len(x) > 0
      /\ e.start = Len(p) + Len(x) + Len(m) /\ e.end = Len(p) + Len(x) + Len(m) + Len(y)
  <2>1. d.start \in Nat /\ d.end \in Nat /\ d.start < d.end /\ e.start \in Nat /\ e.end \in Nat
    BY <1>2
  <2>2. Len(p) = d.start /\ Len(x) = d.end - d.start
    BY <1>3
  <2>3. Len(m) = e.start - d.end /\ Len(y) = e.end - e.start
    BY <1>3
  <2>4. d.start = Len(p) /\ d.end = Len(p) + Len(x) /\ Len(x) > 0
    BY <2>1, <2>2
  <2>5. e.start = d.end + Len(m) /\ e.end = e.start + Len(y)
    BY <2>1, <2>3
  <2> QED BY <2>4, <2>5
<1>6. d.before = x /\ e.before = y
  <2>1. /\ Repair!Slice(t, Len(p), Len(p) + Len(x)) = x
        /\ Repair!Slice(t, Len(p) + Len(x) + Len(m), Len(p) + Len(x) + Len(m) + Len(y)) = y
    <3>1. SpansAre(t, p, x, m, y, q)
      BY <1>3, SpansOfFive
    <3> QED BY <3>1 DEF SpansAre
  <2> QED BY <1>2, <1>5, <2>1
<1>7. PICK a \in Text, b \in Text : a = d.after /\ b = e.after
  BY <1>1 DEF Fits
<1>8. PICK u : u = Five(p, a, m, b, q)
  OBVIOUS
<1>9. Len(a) \in Nat /\ Len(b) \in Nat /\ Len(a) > 0 /\ Len(b) > 0
  <2>1. Len(a) \in Nat /\ Len(b) \in Nat
    BY DEF Text
  <2> QED BY <1>2, <1>7, <2>1
<1>10. Placed(f, r, s, p, x, m, y) /\ f[r].after = a /\ f[s].after = b
  BY <1>1, <1>5, <1>7 DEF Placed
<1>11. /\ g[r].start = Len(p) /\ g[r].end = Len(p) + Len(a) /\ g[r].after = x /\ g[r].before = a
       /\ g[s].start = Len(p) + Len(a) + Len(m)
       /\ g[s].end = Len(p) + Len(a) + Len(m) + Len(b) /\ g[s].after = y /\ g[s].before = b
  <2>1. /\ g[r].start = d.start /\ g[r].end = d.start + Len(a)
        /\ g[r].before = a /\ g[r].after = x
    BY <1>1, <1>6, <1>7 DEF Reverses
  <2>2. Added(f[r]) = Len(a) - Len(x)
    BY <1>1, <1>6, <1>7 DEF Added
  <2>3. /\ g[s].start = e.start + (Len(a) - Len(x))
        /\ g[s].end = e.start + (Len(a) - Len(x)) + Len(b)
        /\ g[s].before = b /\ g[s].after = y
    BY <1>1, <1>6, <1>7, <2>2 DEF Reverses
  <2>4. e.start + (Len(a) - Len(x)) = Len(p) + Len(a) + Len(m)
    BY <1>4, <1>5, <1>9
  <2> QED BY <1>5, <2>1, <2>3, <2>4
<1>12. Placed(g, r, s, p, a, m, b)
  BY <1>9, <1>11 DEF Placed
<1>13. /\ Repair!RepairedText(f, {}, t) = t
       /\ Repair!RepairedText(f, {r}, t) = Five(p, a, m, y, q)
       /\ Repair!RepairedText(f, {s}, t) = Five(p, x, m, b, q)
       /\ Repair!RepairedText(f, {r, s}, t) = u
  <2>1. Replaced(f, r, s, p, x, m, y, q)
    BY <1>10, TwoSpans
  <2> QED BY <1>3, <1>8, <1>10, <2>1 DEF Replaced
<1>14. /\ Repair!RepairedText(g, {}, u) = u
       /\ Repair!RepairedText(g, {r}, u) = Five(p, x, m, b, q)
       /\ Repair!RepairedText(g, {s}, u) = Five(p, a, m, y, q)
       /\ Repair!RepairedText(g, {r, s}, u) = t
  <2>1. Replaced(g, r, s, p, a, m, b, q)
    BY <1>12, TwoSpans
  <2> QED BY <1>3, <1>8, <1>11, <2>1 DEF Replaced
<1>15. /\ u \in Text /\ Len(u) = Len(p) + Len(a) + Len(m) + Len(b) + Len(q)
       /\ Repair!Slice(u, Len(p), Len(p) + Len(a)) = a
       /\ Repair!Slice(u, Len(p) + Len(a) + Len(m), Len(p) + Len(a) + Len(m) + Len(b)) = b
  <2>1. SpansAre(u, p, a, m, b, q)
    BY <1>8, SpansOfFive
  <2> QED BY <2>1 DEF SpansAre
<1>16. Fits(u, g[r]) /\ Fits(u, g[s]) /\ IsBefore(g[r], g[s])
  <2>1. IsBefore(g[r], g[s])
    BY <1>4, <1>9, <1>11 DEF IsBefore
  <2>2. Fits(u, g[r])
    BY <1>4, <1>9, <1>11, <1>15 DEF Fits
  <2>3. Fits(u, g[s])
    BY <1>4, <1>9, <1>11, <1>15 DEF Fits
  <2> QED BY <2>1, <2>2, <2>3
<1> QED BY <1>13, <1>14, <1>15, <1>16

\* The block of text t and edits is made whole again, and its inverses are edits.
Restored(f, g, edits, t) ==
    \E u \in Text :
        /\ u = Repair!RepairedText(f, edits, t)
        /\ \A r \in edits : Fits(u, g[r])
        /\ \A sel \in SUBSET edits :
              Repair!RepairedText(g, sel, u) = Repair!RepairedText(f, edits \ sel, t)

LEMMA NoneRestored ==
  ASSUME NEW t \in Text, NEW f, NEW g
  PROVE  Restored(f, g, {}, t)
<1>1. \A h : Repair!RepairedText(h, {}, t) = t
  BY DEF Repair!RepairedText, Repair!ApplyLast, Repair!WithoutLast
<1> QED BY <1>1 DEF Restored

LEMMA OneRestored ==
  ASSUME NEW t \in Text, NEW f, NEW g, NEW r, Fits(t, f[r]), Anchored(f[r]),
         Reverses(g[r], f[r], f[r].start)
  PROVE  Restored(f, g, {r}, t)
<1>1. PICK u \in Text :
            /\ u = Repair!RepairedText(f, {r}, t) /\ t = Repair!RepairedText(f, {}, t)
            /\ u = Repair!RepairedText(g, {}, u) /\ t = Repair!RepairedText(g, {r}, u)
            /\ Fits(u, g[r])
  BY TakenBackAlone
<1>2. ASSUME NEW sel \in SUBSET {r}
      PROVE  Repair!RepairedText(g, sel, u) = Repair!RepairedText(f, {r} \ sel, t)
  <2>1. CASE sel = {} /\ {r} \ sel = {r}
    BY <1>1, <2>1
  <2>2. CASE sel = {r} /\ {r} \ sel = {}
    BY <1>1, <2>2
  <2> QED BY <2>1, <2>2
<1> QED BY <1>1, <1>2 DEF Restored

LEMMA TwoRestored ==
  ASSUME NEW t \in Text, NEW f, NEW g, NEW r, NEW s, Fits(t, f[r]), Fits(t, f[s]),
         IsBefore(f[r], f[s]), Anchored(f[r]), Anchored(f[s]), r # s,
         Reverses(g[r], f[r], f[r].start), Reverses(g[s], f[s], f[s].start + Added(f[r]))
  PROVE  Restored(f, g, {r, s}, t) /\ IsBefore(g[r], g[s])
<1>1. PICK u \in Text :
            /\ u = Repair!RepairedText(f, {r, s}, t) /\ t = Repair!RepairedText(f, {}, t)
            /\ u = Repair!RepairedText(g, {}, u) /\ t = Repair!RepairedText(g, {r, s}, u)
            /\ Repair!RepairedText(f, {s}, t) = Repair!RepairedText(g, {r}, u)
            /\ Repair!RepairedText(f, {r}, t) = Repair!RepairedText(g, {s}, u)
            /\ Fits(u, g[r]) /\ Fits(u, g[s]) /\ IsBefore(g[r], g[s])
  BY TakenBackTogether
<1>2. ASSUME NEW sel \in SUBSET {r, s}
      PROVE  Repair!RepairedText(g, sel, u) = Repair!RepairedText(f, {r, s} \ sel, t)
  <2>1. CASE sel = {} /\ {r, s} \ sel = {r, s}
    BY <1>1, <2>1
  <2>2. CASE sel = {r} /\ {r, s} \ sel = {s}
    BY <1>1, <2>2
  <2>3. CASE sel = {s} /\ {r, s} \ sel = {r}
    BY <1>1, <2>3
  <2>4. CASE sel = {r, s} /\ {r, s} \ sel = {}
    BY <1>1, <2>4
  <2> QED BY <2>1, <2>2, <2>3, <2>4
<1> QED BY <1>1, <1>2 DEF Restored

\* A case as it is read: candidates that lie in blocks, all texts strings.
TypedCase(c) ==
    /\ \A b \in DOMAIN c.blocks : c.blocks[b] \in Text
    /\ c.repairs \in [Repair!Candidates ->
          [block : DOMAIN c.blocks, start : Nat, end : Nat, before : Text, after : Text]]
\* A case that injected_case() takes.
Injectable(c) ==
    /\ TypedCase(c) /\ Repair!ValidCase(c)
    /\ \A r \in Repair!Candidates : c.repairs[r].after # <<>>
EditsOf(c, b) == {r \in Repair!Candidates : c.repairs[r].block = b}

\* What validate_case() has found.
LEMMA CandidatesFit ==
  ASSUME NEW c, Injectable(c), NEW r \in Repair!Candidates
  PROVE  /\ c.repairs[r].block \in DOMAIN c.blocks
         /\ c.blocks[c.repairs[r].block] \in Text
         /\ Fits(c.blocks[c.repairs[r].block], c.repairs[r])
         /\ Anchored(c.repairs[r])
         /\ c.repairs[r].before \in Text
         /\ c.repairs[r].before # c.repairs[r].after
<1>1. PICK e : e = c.repairs[r]
  OBVIOUS
<1>2. e \in [block : DOMAIN c.blocks, start : Nat, end : Nat, before : Text, after : Text]
  BY <1>1 DEF Injectable, TypedCase
<1>3. PICK t : t = c.blocks[e.block]
  OBVIOUS
<1>4. e.block \in DOMAIN c.blocks /\ t \in Text /\ e.before \in Text
  BY <1>2, <1>3 DEF Injectable, TypedCase
<1>5. /\ e.start < e.end /\ e.end <= Len(t) /\ e.after # e.before
      /\ e.before = Repair!Slice(t, e.start, e.end)
  BY <1>1, <1>3 DEF Injectable, Repair!ValidCase, Repair!ValidEdit, Repair!Before
<1>6. Fits(t, e)
  BY <1>2, <1>5 DEF Fits
<1>7. e.after \in Text /\ e.after # <<>>
  BY <1>1, <1>2 DEF Injectable
<1>8. Len(e.after) > 0
  <2>1. Len(e.after) \in Nat /\ Len(e.after) # 0
    BY <1>7, EmptySeq DEF Text
  <2> QED BY <2>1
<1> QED BY <1>1, <1>3, <1>4, <1>5, <1>6, <1>8 DEF Anchored

\* The inverse of an edit, moved by what the other one adds.
LEMMA InverseReverses ==
  ASSUME NEW c, Injectable(c), NEW r \in Repair!Candidates
  PROVE  /\ Reverses(Repair!InverseEdit(c.repairs, r), c.repairs[r],
                     c.repairs[r].start + Repair!Shift(c.repairs, r))
         /\ Repair!InverseEdit(c.repairs, r).block = c.repairs[r].block
<1>1. PICK e, n : e = c.repairs[r] /\ n = e.start + Repair!Shift(c.repairs, r)
  OBVIOUS
<1>2. e \in [block : DOMAIN c.blocks, start : Nat, end : Nat, before : Text, after : Text]
  BY <1>1 DEF Injectable, TypedCase
<1>3. Repair!InverseEdit(c.repairs, r) =
        [e EXCEPT !.start = n, !.end = n + Len(e.after), !.before = e.after, !.after = e.before]
  BY <1>1 DEF Repair!InverseEdit
<1>4. Reverses(Repair!InverseEdit(c.repairs, r), e, n)
  BY <1>2, <1>3 DEF Reverses
<1>5. Repair!InverseEdit(c.repairs, r).block = e.block
  BY <1>2, <1>3
<1> QED BY <1>1, <1>4, <1>5

\* Of two edits of a block one ends before the other begins.
LEMMA OneIsBefore ==
  ASSUME NEW c, Injectable(c), c.repairs["A"].block = c.repairs["B"].block
  PROVE  IsBefore(c.repairs["A"], c.repairs["B"]) \/ IsBefore(c.repairs["B"], c.repairs["A"])
<1>1. PICK d, e : d = c.repairs["A"] /\ e = c.repairs["B"]
  OBVIOUS
<1>2. /\ d.start \in Nat /\ d.end \in Nat /\ d.start < d.end
      /\ e.start \in Nat /\ e.end \in Nat /\ e.start < e.end
  BY <1>1, CandidatesFit DEF Fits, Repair!Candidates
<1>3. ~Repair!Overlap(d, e) /\ d.block = e.block
  BY <1>1 DEF Injectable, Repair!ValidCase
<1>4. d.end <= e.start \/ e.end <= d.start
  BY <1>2, <1>3 DEF Repair!Overlap, Repair!MaxN, Repair!MinN
<1> QED BY <1>1, <1>4 DEF IsBefore

\* Which way an edit is moved.
LEMMA Shifts ==
  ASSUME NEW c, Injectable(c), NEW r \in Repair!Candidates, NEW s \in Repair!Candidates, r # s
  PROVE  /\ c.repairs[s].block # c.repairs[r].block => Repair!Shift(c.repairs, r) = 0
         /\ c.repairs[s].block = c.repairs[r].block /\ IsBefore(c.repairs[r], c.repairs[s]) =>
               /\ Repair!Shift(c.repairs, r) = 0
               /\ Repair!Shift(c.repairs, s) = Added(c.repairs[r])
<1>1. PICK d, e : d = c.repairs[r] /\ e = c.repairs[s]
  OBVIOUS
<1>2. Repair!Other(r) = s /\ Repair!Other(s) = r
  BY DEF Repair!Other, Repair!Candidates
<1>3. /\ d.start \in Nat /\ d.end \in Nat /\ d.start < d.end
      /\ e.start \in Nat /\ e.end \in Nat /\ e.start < e.end
  BY <1>1, CandidatesFit DEF Fits
<1>4. Repair!Shift(c.repairs, r) =
        IF e.block = d.block /\ e.end <= d.start THEN Len(e.after) - Len(e.before) ELSE 0
  BY <1>1, <1>2 DEF Repair!Shift
<1>5. Repair!Shift(c.repairs, s) =
        IF d.block = e.block /\ d.end <= e.start THEN Len(d.after) - Len(d.before) ELSE 0
  BY <1>1, <1>2 DEF Repair!Shift
<1>6. ASSUME e.block # d.block PROVE Repair!Shift(c.repairs, r) = 0
  BY <1>4, <1>6
<1>7. ASSUME e.block = d.block, d.end <= e.start
      PROVE  /\ Repair!Shift(c.repairs, r) = 0
             /\ Repair!Shift(c.repairs, s) = Len(d.after) - Len(d.before)
  <2>1. ~(e.end <= d.start)
    BY <1>3, <1>7
  <2> QED BY <1>4, <1>5, <1>7, <2>1
<1> QED BY <1>1, <1>6, <1>7 DEF IsBefore, Added

\* Every block is restored by the inverses of its edits.
LEMMA BlockRestored ==
  ASSUME NEW c, Injectable(c), NEW b \in DOMAIN c.blocks
  PROVE  Restored(c.repairs, Repair!InjectedCase(c).repairs, EditsOf(c, b), c.blocks[b])
<1>1. PICK f, g, t : /\ f = c.repairs /\ g = Repair!InjectedCase(c).repairs
                     /\ t = c.blocks[b]
  OBVIOUS
<1>2. t \in Text
  BY <1>1 DEF Injectable, TypedCase
<1>3. \A r \in Repair!Candidates :
        Anchored(f[r]) /\ Reverses(g[r], f[r], f[r].start + Repair!Shift(f, r))
  BY <1>1, CandidatesFit, InverseReverses DEF Repair!InjectedCase
<1>4. \A r \in EditsOf(c, b) : Fits(t, f[r]) /\ r \in Repair!Candidates /\ f[r].block = b
  BY <1>1, CandidatesFit DEF EditsOf
<1>5. \A r \in Repair!Candidates : f[r].start + 0 = f[r].start
  BY <1>1, CandidatesFit DEF Fits
<1>6. CASE EditsOf(c, b) = {}
  BY <1>1, <1>2, <1>6, NoneRestored
<1>7. ASSUME NEW r \in Repair!Candidates, NEW s \in Repair!Candidates, r # s,
             EditsOf(c, b) = {r}
      PROVE  Restored(f, g, EditsOf(c, b), t)
  <2>1. f[s].block # f[r].block
    BY <1>1, <1>4, <1>7 DEF EditsOf
  <2>2. Repair!Shift(f, r) = 0
    BY <1>1, <1>7, <2>1, Shifts
  <2>3. Reverses(g[r], f[r], f[r].start)
    BY <1>3, <1>5, <2>2
  <2>4. Fits(t, f[r]) /\ Anchored(f[r])
    BY <1>3, <1>4, <1>7
  <2> QED BY <1>2, <1>7, <2>3, <2>4, OneRestored
<1>8. ASSUME NEW r \in Repair!Candidates, NEW s \in Repair!Candidates, r # s,
             EditsOf(c, b) = {r, s}, IsBefore(f[r], f[s])
      PROVE  Restored(f, g, EditsOf(c, b), t)
  <2>1. f[s].block = f[r].block
    BY <1>4, <1>8
  <2>2. Repair!Shift(f, r) = 0 /\ Repair!Shift(f, s) = Added(f[r])
    BY <1>1, <1>8, <2>1, Shifts
  <2>3. Reverses(g[r], f[r], f[r].start) /\ Reverses(g[s], f[s], f[s].start + Added(f[r]))
    BY <1>3, <1>5, <2>2
  <2>4. Fits(t, f[r]) /\ Anchored(f[r]) /\ Fits(t, f[s]) /\ Anchored(f[s])
    BY <1>3, <1>4, <1>8
  <2>5. Restored(f, g, {r, s}, t)
    BY <1>2, <1>8, <2>3, <2>4, TwoRestored
  <2> QED BY <1>8, <2>5
<1>9. CASE EditsOf(c, b) = {"A", "B"}
  <2>1. f["A"].block = f["B"].block
    BY <1>4, <1>9
  <2>2. IsBefore(f["A"], f["B"]) \/ IsBefore(f["B"], f["A"])
    BY <1>1, <2>1, OneIsBefore
  <2>3. EditsOf(c, b) = {"B", "A"} /\ "A" # "B"
    BY <1>9
  <2> QED BY <1>1, <1>8, <1>9, <2>2, <2>3 DEF Repair!Candidates
<1>10. EditsOf(c, b) \in {{}, {"A"}, {"B"}, {"A", "B"}}
  BY DEF EditsOf, Repair!Candidates
<1>11. CASE EditsOf(c, b) \in {{"A"}, {"B"}}
  BY <1>1, <1>7, <1>11 DEF Repair!Candidates
<1> QED BY <1>6, <1>9, <1>10, <1>11

\* The inverses of the edits of a block lie apart.
LEMMA InversesApart ==
  ASSUME NEW c, Injectable(c)
  PROVE  ~Repair!Overlap(Repair!InjectedCase(c).repairs["A"], Repair!InjectedCase(c).repairs["B"])
<1>1. PICK f, g : f = c.repairs /\ g = Repair!InjectedCase(c).repairs
  OBVIOUS
<1>2. \A r \in Repair!Candidates : g[r].block = f[r].block
  BY <1>1, InverseReverses DEF Repair!InjectedCase
<1>3. CASE f["A"].block # f["B"].block
  BY <1>1, <1>2, <1>3 DEF Repair!Overlap, Repair!Candidates
<1>4. CASE f["A"].block = f["B"].block
  <2>1. ASSUME NEW r \in Repair!Candidates, NEW s \in Repair!Candidates, r # s,
               IsBefore(f[r], f[s]), f[r].block = f[s].block
        PROVE  /\ IsBefore(g[r], g[s])
               /\ g[r].start \in Nat /\ g[r].end \in Nat /\ g[s].start \in Nat /\ g[s].end \in Nat
    <3>1. PICK t : t = c.blocks[f[r].block]
      OBVIOUS
    <3>2. /\ t \in Text /\ Fits(t, f[r]) /\ Fits(t, f[s]) /\ Anchored(f[r]) /\ Anchored(f[s])
      BY <1>1, <2>1, <3>1, CandidatesFit
    <3>3. Repair!Shift(f, r) = 0 /\ Repair!Shift(f, s) = Added(f[r])
      BY <1>1, <2>1, Shifts
    <3>4. /\ Reverses(g[r], f[r], f[r].start + Repair!Shift(f, r))
          /\ Reverses(g[s], f[s], f[s].start + Repair!Shift(f, s))
      BY <1>1, InverseReverses DEF Repair!InjectedCase
    <3>5. f[r].start + 0 = f[r].start
      BY <3>2 DEF Fits
    <3>6. Reverses(g[r], f[r], f[r].start) /\ Reverses(g[s], f[s], f[s].start + Added(f[r]))
      BY <3>3, <3>4, <3>5
    <3>7. Restored(f, g, {r, s}, t) /\ IsBefore(g[r], g[s])
      BY <2>1, <3>2, <3>6, TwoRestored
    <3> QED BY <3>7 DEF Restored, Fits
  <2>2. IsBefore(f["A"], f["B"]) \/ IsBefore(f["B"], f["A"])
    BY <1>1, <1>4, OneIsBefore
  <2>3. \/ IsBefore(g["A"], g["B"]) \/ IsBefore(g["B"], g["A"])
    BY <1>4, <2>1, <2>2 DEF Repair!Candidates
  <2>4. /\ g["A"].start \in Nat /\ g["A"].end \in Nat
        /\ g["B"].start \in Nat /\ g["B"].end \in Nat
    BY <1>4, <2>1, <2>2 DEF Repair!Candidates
  <2> QED BY <1>1, <2>3, <2>4 DEF IsBefore, Repair!Overlap, Repair!MaxN, Repair!MinN
<1> QED BY <1>3, <1>4

LEMMA InjectedInverts ==
  ASSUME NEW c, Injectable(c)
  PROVE  /\ Repair!ValidCase(Repair!InjectedCase(c))
         /\ \A selected \in SUBSET Repair!Candidates :
               Repair!RepairedBlocks(Repair!InjectedCase(c), selected)
                 = Repair!RepairedBlocks(c, Repair!Candidates \ selected)
<1>1. PICK d, f, g : /\ d = Repair!InjectedCase(c) /\ f = c.repairs /\ g = d.repairs
  OBVIOUS
<1>2. /\ d.blocks = Repair!RepairedBlocks(c, Repair!Candidates)
      /\ \A r \in Repair!Candidates : g[r] = Repair!InverseEdit(f, r)
  BY <1>1 DEF Repair!InjectedCase
<1>3. /\ DOMAIN d.blocks = DOMAIN c.blocks
      /\ \A b \in DOMAIN c.blocks :
            d.blocks[b] = Repair!RepairedText(f, EditsOf(c, b), c.blocks[b])
  BY <1>1, <1>2 DEF Repair!RepairedBlocks, EditsOf
<1>4. \A b \in DOMAIN c.blocks : Restored(f, g, EditsOf(c, b), c.blocks[b])
  BY <1>1, BlockRestored
<1>5. \A b \in DOMAIN c.blocks :
        /\ d.blocks[b] \in Text
        /\ \A r \in EditsOf(c, b) : Fits(d.blocks[b], g[r])
        /\ \A sel \in SUBSET EditsOf(c, b) :
              Repair!RepairedText(g, sel, d.blocks[b])
                = Repair!RepairedText(f, EditsOf(c, b) \ sel, c.blocks[b])
  BY <1>3, <1>4 DEF Restored
<1>6. \A r \in Repair!Candidates :
        /\ g[r].block = f[r].block /\ f[r].block \in DOMAIN c.blocks /\ r \in EditsOf(c, f[r].block)
        /\ g[r].before = f[r].after /\ g[r].after = f[r].before /\ f[r].before # f[r].after
  BY <1>1, <1>2, CandidatesFit, InverseReverses DEF Reverses, EditsOf
<1>7. ASSUME NEW r \in Repair!Candidates PROVE Repair!ValidEdit(d.blocks, g[r])
  <2>1. PICK e, u : e = g[r] /\ u = d.blocks[e.block]
    OBVIOUS
  <2>2. e.block \in DOMAIN d.blocks /\ Fits(u, e) /\ e.after # e.before
    BY <1>3, <1>5, <1>6, <2>1
  <2> QED BY <2>1, <2>2 DEF Repair!ValidEdit, Repair!Before, Fits
<1>8. Repair!ValidCase(d)
  BY <1>1, <1>7, InversesApart DEF Repair!ValidCase
<1>9. ASSUME NEW selected \in SUBSET Repair!Candidates
      PROVE  Repair!RepairedBlocks(d, selected)
               = Repair!RepairedBlocks(c, Repair!Candidates \ selected)
  <2>1. ASSUME NEW b \in DOMAIN c.blocks
        PROVE  Repair!RepairedText(g, {r \in selected : g[r].block = b}, d.blocks[b])
                 = Repair!RepairedText(f, {r \in Repair!Candidates \ selected : f[r].block = b},
                                       c.blocks[b])
    <3>1. PICK sel : sel = {r \in selected : g[r].block = b}
      OBVIOUS
    <3>2. sel \in SUBSET EditsOf(c, b)
      BY <1>1, <1>6, <3>1 DEF EditsOf
    <3>3. EditsOf(c, b) \ sel = {r \in Repair!Candidates \ selected : f[r].block = b}
      BY <1>1, <1>6, <3>1 DEF EditsOf
    <3> QED BY <1>5, <3>1, <3>2, <3>3
  <2> QED BY <1>1, <1>3, <2>1 DEF Repair!RepairedBlocks
<1> QED BY <1>1, <1>8, <1>9

RepairInv ==
    /\ TypedCase(given)
    /\ case \notin {given, Repair!Refused} =>
          Injectable(given) /\ case = Repair!InjectedCase(given)

LEMMA InitRepair == Repair!Init => RepairInv
<1> SUFFICES ASSUME Repair!Init PROVE RepairInv
  OBVIOUS
<1>1. PICK blocks \in CaseBlocks, a \in CaseEdits, b \in CaseEdits :
         /\ {a.block, b.block} \subseteq DOMAIN blocks
         /\ given = [blocks |-> blocks,
                     repairs |-> [r \in Repair!Candidates |->
                        LET e == IF r = "A" THEN a ELSE b IN
                        [block |-> e.block, start |-> e.start, end |-> e.end,
                         before |-> Repair!Before(blocks, e), after |-> e.after]]]
  BY DEF Repair!Init
<1>2. \A k \in DOMAIN blocks : blocks[k] \in Text
  BY CasesAssumption DEF Text
<1>3. ASSUME NEW e \in CaseEdits, e.block \in DOMAIN blocks
      PROVE  [block |-> e.block, start |-> e.start, end |-> e.end,
              before |-> Repair!Before(blocks, e), after |-> e.after]
               \in [block : DOMAIN blocks, start : Nat, end : Nat, before : Text, after : Text]
  <2>1. e.start \in Nat /\ e.end \in Nat /\ e.after \in Text
    BY CasesAssumption DEF Text
  <2>2. PICK t \in Text : t = blocks[e.block]
    BY <1>2, <1>3
  <2>3. Repair!Slice(t, e.start, e.end) \in Text
    <3>1. Len(t) \in Nat
      BY DEF Text
    <3>2. PICK n \in Nat : n = Repair!MinN(e.end, Len(t)) /\ n <= Len(t)
      BY <2>1, <3>1 DEF Repair!MinN
    <3>3. SubSeq(t, e.start + 1, n) \in Text
      BY <2>1, <3>1, <3>2 DEF Text
    <3> QED BY <3>2, <3>3 DEF Repair!Slice
  <2>4. Repair!Before(blocks, e) \in Text
    BY <2>2, <2>3 DEF Repair!Before
  <2> QED BY <1>3, <2>1, <2>4
<1>4. \A r \in Repair!Candidates :
         given.repairs[r] \in [block : DOMAIN blocks, start : Nat, end : Nat,
                               before : Text, after : Text]
  BY <1>1, <1>3
<1>5. /\ given.blocks = blocks
      /\ given.repairs = [r \in Repair!Candidates |-> given.repairs[r]]
  BY <1>1
<1>6. TypedCase(given)
  BY <1>2, <1>4, <1>5 DEF TypedCase
<1> QED BY <1>6 DEF Repair!Init, RepairInv

LEMMA NextRepair == RepairInv /\ [Repair!Next]_(Repair!vars) => RepairInv'
<1> SUFFICES ASSUME RepairInv, [Repair!Next]_(Repair!vars) PROVE RepairInv'
  OBVIOUS
<1>1. CASE Repair!Inject
  <2>1. given' = given /\ TypedCase(given)
    BY <1>1 DEF Repair!Inject, RepairInv
  <2>2. CASE Repair!ValidCase(given) /\ \A r \in Repair!Candidates : given.repairs[r].after # <<>>
    BY <1>1, <2>1, <2>2 DEF Repair!Inject, RepairInv, Injectable
  <2>3. CASE ~(Repair!ValidCase(given) /\ \A r \in Repair!Candidates : given.repairs[r].after # <<>>)
    BY <1>1, <2>1, <2>3 DEF Repair!Inject, RepairInv
  <2> QED BY <2>2, <2>3
<1>2. CASE UNCHANGED Repair!vars
  BY <1>2 DEF Repair!vars, RepairInv
<1> QED BY <1>1, <1>2 DEF Repair!Next

LEMMA RepairsTakeBack == RepairInv => Repair!RepairsInvert
BY InjectedInverts DEF RepairInv, Repair!RepairsInvert

-----------------------------------------------------------------------------
(* The run: the services side by side *)

ServicesInv ==
    /\ part = "evaluations" => EvaluationInv
    /\ part = "accounts" => AccountInv
    /\ part = "truths" => TruthInv
    /\ part = "runner" => RunnerInv
    /\ part = "repairs" => RepairInv
    /\ part = "documents" => UploadInv
    /\ part = "snapshot" => SnapshotInv

LEMMA InitServicesInv == AllInit => ServicesInv
BY InitEvaluation, InitAccount, InitTruth, InitRunner, InitRepair, InitUpload, InitSnapshot
   DEF AllInit, ServicesInv

\* No service touches the state of another, and the one at work stays at work.
LEMMA NextServicesInv == ServicesInv /\ [AllNext]_allVars => ServicesInv'
<1> SUFFICES ASSUME ServicesInv, [AllNext]_allVars PROVE ServicesInv'
  OBVIOUS
<1>0. part' = part
  BY DEF AllNext, allVars, RunnerSteps
<1>1. CASE part = "evaluations"
  <2>1. [Evaluation!Next]_(Evaluation!vars)
    BY <1>1 DEF AllNext, RunnerSteps, allVars, evaluation, Evaluation!vars
  <2> QED BY <1>0, <1>1, <2>1, NextEvaluation DEF ServicesInv
<1>2. CASE part = "accounts"
  <2>1. [Account!Next]_(Account!vars)
    BY <1>2 DEF AllNext, RunnerSteps, allVars, account, Account!vars
  <2> QED BY <1>0, <1>2, <2>1, NextAccount DEF ServicesInv
<1>3. CASE part = "truths"
  <2>1. [Truth!Next]_(Truth!vars)
    BY <1>3 DEF AllNext, RunnerSteps, allVars, truth, Truth!vars
  <2> QED BY <1>0, <1>3, <2>1, NextTruth DEF ServicesInv
<1>4. CASE part = "documents"
  <2>1. [Uploading!Next]_(Uploading!vars)
    BY <1>4 DEF AllNext, RunnerSteps, allVars, files, Uploading!vars
  <2> QED BY <1>0, <1>4, <2>1, NextUpload DEF ServicesInv
<1>5. CASE part = "snapshot"
  <2>1. [Snapshot!Next]_(Snapshot!vars)
    BY <1>5 DEF AllNext, RunnerSteps, allVars, files, Snapshot!vars
  <2> QED BY <1>0, <1>5, <2>1, NextSnapshot DEF ServicesInv
<1>6. CASE part = "runner"
  <2>1. [Runner!Next]_(Runner!vars)
    <3>1. Runner!Progress \/ UNCHANGED runner
      BY <1>6 DEF AllNext, RunnerSteps, allVars
    <3>2. UNCHANGED runner => UNCHANGED Runner!vars
      BY DEF runner, Runner!vars, Runner!inputs, Runner!packing, Runner!cutting, Runner!asking
    <3> QED BY <3>1, <3>2 DEF Runner!Next
  <2> QED BY <1>0, <1>6, <2>1, NextRunner DEF ServicesInv
<1>7. CASE part = "repairs"
  <2>1. [Repair!Next]_(Repair!vars)
    BY <1>7 DEF AllNext, RunnerSteps, allVars, repair, Repair!vars
  <2> QED BY <1>0, <1>7, <2>1, NextRepair DEF ServicesInv
<1>8. CASE part \notin {"evaluations", "accounts", "truths", "documents", "snapshot", "runner",
                       "repairs"}
  BY <1>0, <1>8 DEF ServicesInv
<1> QED BY <1>1, <1>2, <1>3, <1>4, <1>5, <1>6, <1>7, <1>8

\* Every behaviour of MCServices keeps the invariant of the service at work: uploads,
\* snapshots, sign-ups, evaluations, the ground truth, the pipeline and the repairs.
THEOREM ServicesAreSound == AllSpec => []ServicesInv
BY InitServicesInv, NextServicesInv, PTL DEF AllSpec

\* Evaluations: of the results of an experiment a user prefers one at most,
\* whatever requests run at the same time, once every run is rated.
THEOREM OneResultIsPreferred == AllSpec => []OnePreferred
<1>1. ServicesInv => OnePreferred
  BY EvaluationsAgree DEF ServicesInv, OnePreferred
<1> QED BY <1>1, ServicesAreSound, PTL

\* Accounts: however many first sign-ups overlap, one administrator comes of them,
\* unless all that is always listed was renamed meanwhile.
THEOREM OneAdminSignsUp == AllSpec => []OneFirstAdmin
<1>1. ASSUME AccountInv PROVE Account!OneFirstAdmin
  <2>1. Cardinality(Admins) <= 1 \/ Always \subseteq renamed
    BY <1>1, AtMostOne DEF AccountInv, OneAdmin
  <2>2. Account!OneFirstAdmin <=> Cardinality(Admins) <= 1 \/ Always \subseteq renamed
    BY SameCardinality DEF Account!OneFirstAdmin, Admins, Always
  <2> QED BY <2>1, <2>2
<1>2. ServicesInv => OneFirstAdmin
  BY <1>1 DEF ServicesInv, OneFirstAdmin
<1> QED BY <1>2, ServicesAreSound, PTL

\* Accounts: a start of the server adds or changes only what an administrator or a
\* new environment has changed since seeding, and no connector of another entry than
\* those of synap_http.
THEOREM SeedingRepeatsNothing == AllSpec => SeedingIsIdempotent
<1>1. ServicesInv => (part = "accounts" /\ Account!Start => Account!SeedingChanges)
  BY StartSeeds DEF ServicesInv
<1> QED BY <1>1, ServicesAreSound, PTL DEF SeedingIsIdempotent

\* GroundTruths: when nothing is under way and nothing has disturbed them, the
\* evaluations of all successful runs are those of the file as it is, for every
\* number of runs, uploads and recomputations that overlapped.
THEOREM EvaluationsFollowFile == AllSpec => []EvaluationsMatchFile
<1>1. ServicesInv => EvaluationsMatchFile
  BY TruthIsFollowed DEF ServicesInv, EvaluationsMatchFile
<1> QED BY <1>1, ServicesAreSound, PTL

\* Documents and SqliteSnapshot: a row has its whole file, a refused upload none,
\* and the snapshot can be restored, wherever an operation is stopped.
THEOREM FilesStayWhole == AllSpec => []FilesAreWhole
<1>1. ServicesInv => FilesAreWhole
  BY DEF ServicesInv, FilesAreWhole, UploadInv, SnapshotInv
<1> QED BY <1>1, ServicesAreSound, PTL

\* PipelineRunner: no character of a document or of a written text is lost, doubled
\* or out of order between batches, or left out between chunks, and all keep their
\* limits.
THEOREM NoTextIsLost == AllSpec => []TextIsKept
<1>1. ServicesInv => TextIsKept
  BY RunnerKeepsText DEF ServicesInv, TextIsKept
<1> QED BY <1>1, ServicesAreSound, PTL

\* PipelineRunner: a completed execution has made exactly the calls announced for it,
\* within their limit, and its response passes the check of the pilot.
THEOREM CompletedIsAccepted == AllSpec => []ResponseAccepted
<1>1. ServicesInv => ResponseAccepted
  BY RunnerIsAccepted DEF ServicesInv, ResponseAccepted
<1> QED BY <1>1, ServicesAreSound, PTL

\* Repairs: the injected case of any document and any two edits that are accepted is
\* accepted again, and each selection of its repairs gives the document with the
\* edits that were not selected: none of them moves or spoils what another one quotes.
THEOREM CorruptionsAreTakenBack == AllSpec => []RepairsInvert
<1>1. ServicesInv => RepairsInvert
  BY RepairsTakeBack DEF ServicesInv, RepairsInvert
<1> QED BY <1>1, ServicesAreSound, PTL

-----------------------------------------------------------------------------
(* Pilot: a manifest that says complete belongs to a run whose files hold what   *)
(* load_complete_run() asks for, for any number of processes, repeats and        *)
(* questions, and wherever processes are interrupted or killed.                  *)
(*                                                                               *)
(* mkdir(exist_ok=False) makes one process the owner of the directory            *)
(* (OwnerInv).  As long as it is at work, records.jsonl holds exactly the        *)
(* conditions behind it, each once and not torn (RecordsInv), all for the case   *)
(* that it froze (CaseInv), and the counts never run ahead of the records        *)
(* (CountInv).  Nobody touches a directory whose manifest is complete            *)
(* (CompleteInv).                                                                *)

Loop == {"choose", "call", "record", "count"}
Inside == {"manifest", "freeze", "open", "finally"} \cup Loop

\* The orders random.shuffle() can leave: every condition once.
StudyAssumption ==
    /\ Repeats \in Nat
    /\ \A s \in Shuffles :
        /\ s \in Seq(Conditions)
        /\ \A c \in Conditions : \E k \in 1..Len(s) : s[k] = c
        /\ \A k, l \in 1..Len(s) : s[k] = s[l] => k = l

Statuses == {"absent", "torn", "running", "complete", "failed", "interrupted"}
Manifests == [status : Statuses, completed : Nat, case : Processes \cup {None}]
Frozen == [status : {"absent", "torn", "whole"}, case : Processes \cup {None}]
Marks == {"plain", "separator", "torn"}
Lines == [repeat : Nat, condition : Conditions \cup {None}, case : Processes,
          execution_id : Nat, text : Marks]

TypeInv ==
    /\ shuffle \in [0..(Repeats - 1) -> Shuffles]
    /\ pc \in [Processes -> Inside \cup {"check", "mkdir", "ended"}]
    /\ done \in [Processes -> Nat]
    /\ repeat \in [Processes -> 0..Repeats]
    /\ memory \in [Processes -> Manifests]
    /\ active \in [Processes -> Conditions \cup {None}]
    /\ manifest \in Manifests /\ frozen \in Frozen
    /\ records \in Seq(Lines)
    /\ directory \in BOOLEAN /\ stream \in BOOLEAN

\* One process at most is beyond mkdir(), and the files begin with it.
OwnerInv ==
    /\ \A p, q \in Processes : pc[p] \in Inside /\ pc[q] \in Inside => p = q
    /\ ~directory => manifest.status = "absent" /\ records = <<>> /\ ~stream
    /\ \A p \in Processes :
        /\ pc[p] \in Inside => directory /\ manifest.status # "complete"
        /\ pc[p] \in {"check", "mkdir", "manifest", "freeze", "open"} =>
               memory[p] = Running(p) /\ done[p] = 0 /\ repeat[p] = 0
        /\ pc[p] \in {"manifest", "freeze", "open"} => records = <<>> /\ ~stream
        /\ pc[p] \in Loop \cup {"open"} => frozen.status = "whole"
        /\ pc[p] \in Loop => memory[p].status = "running"

\* Where the loops of run_case() stand, and the conditions they have recorded.
Written(p) == IF pc[p] \in {"call", "record"} THEN done[p] - 1 ELSE done[p]
Ran(p) ==
    {x \in Expected : x[1] < repeat[p]}
      \cup {<<repeat[p], shuffle[repeat[p]][k]>> : k \in 1..Written(p)}
Recorded == {Actual[k] : k \in DOMAIN records}
EachOnce == \A k, l \in DOMAIN records : Actual[k] = Actual[l] => k = l
AllWhole == \A k \in DOMAIN records : records[k].text # "torn"

LoopAt(p) ==
    /\ repeat[p] < Repeats => done[p] <= Len(shuffle[repeat[p]])
    /\ repeat[p] = Repeats => done[p] = 0 /\ pc[p] = "choose"
    /\ pc[p] # "choose" => done[p] > 0 /\ active[p] = shuffle[repeat[p]][done[p]]

RecordsInv ==
    \A p \in Processes : pc[p] \in Loop =>
        LoopAt(p) /\ AllWhole /\ EachOnce /\ Recorded = Ran(p)

\* What a count stands for: the records up to it are there, and not torn.
Counted(n) == n <= Len(records) /\ \A k \in 1..n : records[k].text # "torn"

CountInv ==
    /\ Counted(manifest.completed)
    /\ \A p \in Processes :
        /\ pc[p] \in Inside => Counted(memory[p].completed)
        /\ pc[p] \in Loop =>
               Len(records) = memory[p].completed + (IF pc[p] = "count" THEN 1 ELSE 0)

\* What load_complete_run() asks of the conditions recorded.
FilesComplete == frozen.status = "whole" /\ AllWhole /\ EachOnce /\ Recorded = Expected

CompleteInv ==
    /\ manifest.status = "complete" => FilesComplete /\ manifest.completed = Len(records)
    /\ \A p \in Processes : pc[p] = "finally" /\ memory[p].status = "complete" =>
           FilesComplete /\ memory[p].completed = Len(records)

\* Executions are numbered; records and the frozen case are of the owner's case.
OfCase(p) == \A k \in DOMAIN records : records[k].case = p
CaseInv ==
    /\ \A k \in DOMAIN records : records[k].execution_id = k
    /\ \A p \in Processes : memory[p].case = p
    /\ \A p \in Processes : pc[p] \in Inside => OfCase(p)
    /\ \A p \in Processes :
          pc[p] \in Loop \cup {"open"} \/ (pc[p] = "finally" /\ memory[p].status = "complete") =>
              frozen.case = p
    /\ manifest.status = "complete" => frozen.case = manifest.case /\ OfCase(manifest.case)

IInv == TypeInv /\ OwnerInv /\ RecordsInv /\ CountInv /\ CompleteInv /\ CaseInv

-----------------------------------------------------------------------------
LEMMA InitIInv == ASSUME StudyAssumption, Init PROVE IInv
<1>1. TypeInv
  <2>1. directory \in BOOLEAN /\ stream \in BOOLEAN
    BY Zenon DEF Init
  <2>2. records \in Seq(Lines)
    BY DEF Init
  <2>3. /\ \A p \in Processes : Running(p) \in Manifests
        /\ manifest \in Manifests /\ frozen \in Frozen
    BY DEF Init, Running, Damaged, Manifests, Frozen, Statuses
  <2>4. repeat \in [Processes -> 0..Repeats]
    BY DEF Init, StudyAssumption
  <2> QED BY <2>1, <2>2, <2>3, <2>4 DEF Init, TypeInv, StudyAssumption, Inside, Loop
<1>2. OwnerInv
  BY DEF Init, Damaged, OwnerInv, Inside, Loop
<1>3. RecordsInv
  BY DEF Init, RecordsInv, Loop
<1>4. CountInv
  BY DEF Init, Damaged, CountInv, Counted, Inside, Loop
<1>5. CompleteInv
  BY DEF Init, Damaged, CompleteInv
<1>6. CaseInv
  BY DEF Init, Damaged, Running, CaseInv, OfCase, Inside, Loop
<1> QED BY <1>1, <1>2, <1>3, <1>4, <1>5, <1>6 DEF IInv

\* A manifest whose status changes, or that counts one more call.
LEMMA ManifestChanges ==
  ASSUME NEW m \in Manifests
  PROVE  /\ \A s \in Statuses :
               /\ [m EXCEPT !.status = s] \in Manifests
               /\ [m EXCEPT !.status = s].status = s
               /\ [m EXCEPT !.status = s].completed = m.completed
               /\ [m EXCEPT !.status = s].case = m.case
         /\ [m EXCEPT !.completed = @ + 1] \in Manifests
         /\ [m EXCEPT !.completed = @ + 1].status = m.status
         /\ [m EXCEPT !.completed = @ + 1].completed = m.completed + 1
         /\ [m EXCEPT !.completed = @ + 1].case = m.case
BY DEF Manifests

\* A record that is written extends the records.
NewLine(p, w) ==
    [repeat |-> repeat[p], condition |-> active[p], case |-> p,
     execution_id |-> Len(records) + 1, text |-> w]
LEMMA LineAppends ==
  ASSUME TypeInv, NEW p \in Processes, NEW w \in Marks, records' = Line(p, w)
  PROVE  /\ records' \in Seq(Lines)
         /\ Len(records') = Len(records) + 1
         /\ \A k \in 1..Len(records) : records'[k] = records[k]
         /\ records'[Len(records) + 1] = NewLine(p, w)
<1>1. records \in Seq(Lines) /\ Len(records) + 1 \in Nat
  BY DEF TypeInv
<1>2. NewLine(p, w) \in Lines
  BY <1>1 DEF TypeInv, Lines, NewLine
<1>3. records' = Append(records, NewLine(p, w))
  BY DEF Line, NewLine
<1> QED BY <1>1, <1>2, <1>3

LEMMA TypeKept == ASSUME StudyAssumption, IInv, [Next]_vars PROVE TypeInv'
<1> USE DEF TypeInv, Go, Remember, WriteManifest, process, disk, Inside, Loop
<1>0. TypeInv
  BY DEF IInv
<1>m. ASSUME NEW p \in Processes, NEW s \in Statuses
      PROVE  [memory[p] EXCEPT !.status = s] \in Manifests
  BY <1>0, ManifestChanges
<1>s. {"failed", "complete", "interrupted", "torn"} \subseteq Statuses
  BY DEF Statuses
<1>1. ASSUME NEW p \in Processes, Check(p) PROVE TypeInv'
  BY <1>0, <1>1 DEF Check
<1>2. ASSUME NEW p \in Processes, MakeDirectory(p) PROVE TypeInv'
  <2>1. directory' \in BOOLEAN
    BY <1>2, Zenon DEF MakeDirectory
  <2> QED BY <1>0, <1>2, <2>1 DEF MakeDirectory
<1>3. ASSUME NEW p \in Processes, FirstManifest(p) PROVE TypeInv'
  BY <1>0, <1>3 DEF FirstManifest
<1>4. ASSUME NEW p \in Processes, Freeze(p) PROVE TypeInv'
  BY <1>0, <1>4 DEF Freeze, Frozen
<1>5. ASSUME NEW p \in Processes, OpenRecords(p) PROVE TypeInv'
  <2>1. stream' \in BOOLEAN
    BY <1>5, Zenon DEF OpenRecords
  <2>2. memory' \in [Processes -> Manifests]
    BY <1>0, <1>5, <1>m, <1>s DEF OpenRecords
  <2> QED BY <1>0, <1>5, <2>1, <2>2 DEF OpenRecords
<1>6. ASSUME NEW p \in Processes, Choose(p) PROVE TypeInv'
  <2>1. repeat[p] \in 0..(Repeats - 1) /\ shuffle[repeat[p]] \in Seq(Conditions)
    BY <1>0, <1>6 DEF Choose, StudyAssumption
  <2>2. shuffle[repeat[p]][done[p] + 1] \in Conditions
    BY <1>0, <1>6, <2>1 DEF Choose, IInv, RecordsInv, LoopAt
  <2> QED BY <1>0, <1>6, <2>2 DEF Choose
<1>7. ASSUME NEW p \in Processes, NextRepeat(p) PROVE TypeInv'
  <2>1. repeat[p] + 1 \in 0..Repeats
    BY <1>0, <1>7 DEF NextRepeat, StudyAssumption
  <2> QED BY <1>0, <1>7, <2>1 DEF NextRepeat
<1>8. ASSUME NEW p \in Processes, CallReturns(p) PROVE TypeInv'
  BY <1>0, <1>8 DEF CallReturns
<1>9. ASSUME NEW p \in Processes, CallFails(p) PROVE TypeInv'
  BY <1>0, <1>9, <1>m, <1>s DEF CallFails
<1>10. ASSUME NEW p \in Processes, Record(p) PROVE TypeInv'
  <2>1. records' \in Seq(Lines)
    BY <1>0, <1>10, LineAppends DEF Record, Marks
  <2> QED BY <1>0, <1>10, <2>1 DEF Record
<1>11. ASSUME NEW p \in Processes, RecordFails(p) PROVE TypeInv'
  <2>1. records' \in Seq(Lines)
    BY <1>0, <1>11, LineAppends DEF RecordFails, Marks
  <2> QED BY <1>0, <1>11, <1>m, <1>s, <2>1 DEF RecordFails
<1>12. ASSUME NEW p \in Processes, Count(p) PROVE TypeInv'
  <2>1. [memory[p] EXCEPT !.completed = @ + 1] \in Manifests
    BY <1>0, ManifestChanges
  <2> QED BY <1>0, <1>12, <2>1 DEF Count
<1>13. ASSUME NEW p \in Processes, Finish(p) PROVE TypeInv'
  BY <1>0, <1>13, <1>m, <1>s DEF Finish
<1>14. ASSUME NEW p \in Processes, Finally(p) PROVE TypeInv'
  BY <1>0, <1>14 DEF Finally
<1>15. ASSUME NEW p \in Processes, Interrupt(p) PROVE TypeInv'
  <2>1. memory' \in [Processes -> Manifests]
    <3>1. [memory[p] EXCEPT !.status = "interrupted"] \in Manifests
      BY <1>m, <1>s
    <3> QED BY <1>0, <1>15, <3>1 DEF Interrupt
  <2> QED BY <1>0, <1>15, <2>1 DEF Interrupt
<1>16. ASSUME NEW p \in Processes, Kill(p) PROVE TypeInv'
  <2>1. records' \in Seq(Lines)
    BY <1>0, <1>16, LineAppends DEF Kill, Marks
  <2>2. Damaged("torn") \in Manifests /\ [status |-> "torn", case |-> None] \in Frozen
    BY <1>s DEF Damaged, Manifests, Frozen
  <2>3. manifest' \in Manifests /\ frozen' \in Frozen
    BY <1>0, <1>16, <2>2 DEF Kill
  <2> QED BY <1>0, <1>16, <2>1, <2>3 DEF Kill
<1>17. ASSUME NEW correct \in [Conditions -> SUBSET Questions], Score(correct) PROVE TypeInv'
  BY <1>0, <1>17 DEF Score
<1>18. CASE UNCHANGED vars
  BY <1>0, <1>18 DEF vars
<1> QED BY <1>1, <1>2, <1>3, <1>4, <1>5, <1>6, <1>7, <1>8, <1>9, <1>10, <1>11, <1>12,
           <1>13, <1>14, <1>15, <1>16, <1>17, <1>18 DEF Next

LEMMA OwnerKept == ASSUME StudyAssumption, IInv, [Next]_vars PROVE OwnerInv'
<1> USE DEF OwnerInv, Go, Remember, WriteManifest, process, disk, Inside, Loop
<1>0. TypeInv /\ OwnerInv
  BY DEF IInv
<1>t. /\ pc \in [Processes -> Inside \cup {"check", "mkdir", "ended"}]
      /\ done \in [Processes -> Nat] /\ repeat \in [Processes -> 0..Repeats]
      /\ memory \in [Processes -> Manifests]
  BY <1>0 DEF TypeInv
<1>r. \A p \in Processes : Running(p).status = "running"
  BY DEF Running
<1>1. ASSUME NEW p \in Processes, Check(p) PROVE OwnerInv'
  BY <1>0, <1>t, <1>1 DEF Check
<1>2. ASSUME NEW p \in Processes, MakeDirectory(p) PROVE OwnerInv'
  BY <1>0, <1>t, <1>2 DEF MakeDirectory
<1>3. ASSUME NEW p \in Processes, FirstManifest(p) PROVE OwnerInv'
  BY <1>0, <1>t, <1>r, <1>3 DEF FirstManifest
<1>4. ASSUME NEW p \in Processes, Freeze(p) PROVE OwnerInv'
  BY <1>0, <1>t, <1>4 DEF Freeze
<1>5. ASSUME NEW p \in Processes, OpenRecords(p) PROVE OwnerInv'
  <2>1. ~stream /\ memory' = memory /\ pc' = [pc EXCEPT ![p] = "choose"]
    BY <1>0, <1>5, Zenon DEF OpenRecords
  <2> QED BY <1>0, <1>t, <1>r, <1>5, <2>1 DEF OpenRecords
<1>6. ASSUME NEW p \in Processes, Choose(p) PROVE OwnerInv'
  BY <1>0, <1>t, <1>6 DEF Choose
<1>7. ASSUME NEW p \in Processes, NextRepeat(p) PROVE OwnerInv'
  BY <1>0, <1>t, <1>7 DEF NextRepeat
<1>8. ASSUME NEW p \in Processes, CallReturns(p) PROVE OwnerInv'
  BY <1>0, <1>t, <1>8 DEF CallReturns
<1>9. ASSUME NEW p \in Processes, CallFails(p) PROVE OwnerInv'
  BY <1>0, <1>t, <1>9 DEF CallFails
<1>10. ASSUME NEW p \in Processes, Record(p) PROVE OwnerInv'
  BY <1>0, <1>t, <1>10 DEF Record
<1>11. ASSUME NEW p \in Processes, RecordFails(p) PROVE OwnerInv'
  BY <1>0, <1>t, <1>11 DEF RecordFails
<1>12. ASSUME NEW p \in Processes, Count(p) PROVE OwnerInv'
  <2>1. [memory[p] EXCEPT !.completed = @ + 1].status = "running"
    BY <1>0, <1>t, <1>12, ManifestChanges DEF Count
  <2> QED BY <1>0, <1>t, <1>12, <2>1 DEF Count
<1>13. ASSUME NEW p \in Processes, Finish(p) PROVE OwnerInv'
  BY <1>0, <1>t, <1>13 DEF Finish
<1>14. ASSUME NEW p \in Processes, Finally(p) PROVE OwnerInv'
  BY <1>0, <1>t, <1>14 DEF Finally
<1>15. ASSUME NEW p \in Processes, Interrupt(p) PROVE OwnerInv'
  <2>1. CASE pc[p] \in {"open", "choose", "call", "record", "count"}
    <3>1. /\ memory' = [memory EXCEPT ![p] = [memory[p] EXCEPT !.status = "interrupted"]]
          /\ pc' = [pc EXCEPT ![p] = "finally"]
          /\ UNCHANGED <<done, repeat, manifest, frozen, records, directory, stream>>
      BY <1>15, <2>1 DEF Interrupt
    <3>2. \A q \in Processes : q # p => pc'[q] = pc[q] /\ memory'[q] = memory[q]
      BY <1>t, <3>1
    <3>3. pc'[p] = "finally" /\ pc[p] \in Inside
      BY <1>t, <2>1, <3>1
    <3> QED BY <1>0, <3>1, <3>2, <3>3
  <2>2. CASE pc[p] \notin {"open", "choose", "call", "record", "count"}
    BY <1>0, <1>t, <1>15, <2>2 DEF Interrupt
  <2> QED BY <2>1, <2>2
<1>16. ASSUME NEW p \in Processes, Kill(p) PROVE OwnerInv'
  <2>1. CASE pc[p] \in Inside
    BY <1>0, <1>t, <1>16, <2>1 DEF Kill
  <2>2. CASE pc[p] \notin Inside
    BY <1>0, <1>t, <1>16, <2>2 DEF Kill
  <2> QED BY <2>1, <2>2
<1>17. ASSUME NEW correct \in [Conditions -> SUBSET Questions], Score(correct) PROVE OwnerInv'
  BY <1>0, <1>17 DEF Score
<1>18. CASE UNCHANGED vars
  BY <1>0, <1>18 DEF vars
<1> QED BY <1>1, <1>2, <1>3, <1>4, <1>5, <1>6, <1>7, <1>8, <1>9, <1>10, <1>11, <1>12,
           <1>13, <1>14, <1>15, <1>16, <1>17, <1>18 DEF Next


\* The owner of the directory stops or is not yet in the loops: nobody is in them.
LEMMA NobodyLoops ==
  ASSUME TypeInv, OwnerInv, NEW p \in Processes, pc[p] \in Inside,
         NEW s \in {"freeze", "open", "finally", "ended"}, pc' = [pc EXCEPT ![p] = s]
  PROVE  \A q \in Processes : pc'[q] \notin Loop
BY DEF TypeInv, OwnerInv, Inside, Loop

\* A process in the loops is the only one whose step moves them.
LEMMA OnlyOwnerLoops ==
  ASSUME OwnerInv', NEW p \in Processes, pc'[p] \in Inside
  PROVE  \A q \in Processes : pc'[q] \in Loop => q = p
BY DEF OwnerInv, Inside

LEMMA RecordsKept == ASSUME StudyAssumption, IInv, [Next]_vars, OwnerInv' PROVE RecordsInv'
<1> USE DEF Go, Remember, WriteManifest, process, disk
<1>0. TypeInv /\ OwnerInv /\ RecordsInv
  BY DEF IInv
<1>t. /\ pc \in [Processes -> Inside \cup {"check", "mkdir", "ended"}]
      /\ done \in [Processes -> Nat] /\ repeat \in [Processes -> 0..Repeats]
      /\ active \in [Processes -> Conditions \cup {None}]
  BY <1>0 DEF TypeInv
<1>o. /\ \A p, q \in Processes : pc[p] \in Inside /\ pc[q] \in Inside => p = q
      /\ \A p \in Processes : pc[p] \in Inside => directory
  BY <1>0 DEF OwnerInv
<1>s. \A p \in Processes : repeat[p] < Repeats =>
         /\ repeat[p] \in 0..(Repeats - 1)
         /\ shuffle[repeat[p]] \in Seq(Conditions)
         /\ \A c \in Conditions : \E k \in 1..Len(shuffle[repeat[p]]) : shuffle[repeat[p]][k] = c
         /\ \A k, l \in 1..Len(shuffle[repeat[p]]) :
               shuffle[repeat[p]][k] = shuffle[repeat[p]][l] => k = l
  BY <1>0 DEF TypeInv, StudyAssumption
<1>q. ASSUME \A q \in Processes : pc'[q] \notin Loop PROVE RecordsInv'
  BY <1>q DEF RecordsInv
<1>u. ASSUME UNCHANGED <<shuffle, repeat, done, active, records>>,
             \A q \in Processes : pc'[q] \in Loop => pc'[q] = pc[q]
      PROVE  RecordsInv'
  BY <1>0, <1>u DEF RecordsInv, LoopAt, AllWhole, EachOnce, Recorded, Ran, Written, Actual
<1>1. ASSUME NEW p \in Processes, Check(p) PROVE RecordsInv'
  BY <1>t, <1>u, <1>1 DEF Check, Loop
<1>2. ASSUME NEW p \in Processes, MakeDirectory(p) PROVE RecordsInv'
  BY <1>t, <1>u, <1>2 DEF MakeDirectory, Loop
<1>3. ASSUME NEW p \in Processes, FirstManifest(p) PROVE RecordsInv'
  BY <1>0, <1>q, <1>3, NobodyLoops DEF FirstManifest, Inside
<1>4. ASSUME NEW p \in Processes, Freeze(p) PROVE RecordsInv'
  BY <1>0, <1>q, <1>4, NobodyLoops DEF Freeze, Inside
<1>5. ASSUME NEW p \in Processes, OpenRecords(p) PROVE RecordsInv'
  <2>1. /\ ~stream /\ pc'[p] = "choose" /\ records = <<>>
        /\ repeat[p] = 0 /\ done[p] = 0
    BY <1>0, <1>t, <1>5 DEF OpenRecords, OwnerInv
  <2>2. AllWhole' /\ EachOnce' /\ Recorded' = {}
    BY <1>5, <2>1 DEF OpenRecords, AllWhole, EachOnce, Recorded, Actual
  <2>3. Ran(p)' = {}
    BY <1>5, <2>1, StudyAssumption DEF OpenRecords, Ran, Written, Expected, StudyAssumption
  <2>4. LoopAt(p)'
    BY <1>s, <1>5, <2>1 DEF OpenRecords, LoopAt
  <2> QED BY <2>1, <2>2, <2>3, <2>4, OnlyOwnerLoops DEF RecordsInv, Inside, Loop
<1>6. ASSUME NEW p \in Processes, Choose(p) PROVE RecordsInv'
  <2>1. /\ LoopAt(p) /\ AllWhole /\ EachOnce /\ Recorded = Ran(p)
        /\ pc[p] = "choose" /\ pc'[p] = "call"
    BY <1>0, <1>t, <1>6 DEF Choose, RecordsInv, Loop
  <2>2. AllWhole' /\ EachOnce' /\ Recorded' = Recorded
    BY <1>6, <2>1 DEF Choose, AllWhole, EachOnce, Recorded, Actual
  <2>3. Ran(p)' = Ran(p)
    BY <1>t, <1>6, <2>1 DEF Choose, Ran, Written
  <2>4. LoopAt(p)'
    BY <1>t, <1>s, <1>6, <2>1 DEF Choose, LoopAt
  <2> QED BY <2>1, <2>2, <2>3, <2>4, OnlyOwnerLoops DEF RecordsInv, Inside, Loop
<1>7. ASSUME NEW p \in Processes, NextRepeat(p) PROVE RecordsInv'
  <2> DEFINE r == repeat[p]
             s == shuffle[repeat[p]]
  <2>1. /\ LoopAt(p) /\ AllWhole /\ EachOnce /\ Recorded = Ran(p)
        /\ pc[p] = "choose" /\ pc' = pc /\ r \in 0..(Repeats - 1) /\ done[p] = Len(s)
    BY <1>0, <1>t, <1>s, <1>7 DEF NextRepeat, RecordsInv, Loop
  <2>2. AllWhole' /\ EachOnce' /\ Recorded' = Recorded
    BY <1>7, <2>1 DEF NextRepeat, AllWhole, EachOnce, Recorded, Actual
  <2>3. Ran(p)' = Ran(p)
    <3>1. repeat'[p] = r + 1 /\ done'[p] = 0
      BY <1>t, <1>7 DEF NextRepeat
    <3>2. Ran(p)' = {x \in Expected : x[1] < r + 1}
      BY <1>7, <2>1, <3>1 DEF NextRepeat, Ran, Written
    <3>3. Ran(p) = {x \in Expected : x[1] < r} \cup {<<r, s[k]>> : k \in 1..Len(s)}
      BY <2>1 DEF Ran, Written
    <3>4. {<<r, s[k]>> : k \in 1..Len(s)} = {r} \X Conditions
      <4>1. /\ s \in Seq(Conditions)
            /\ \A c \in Conditions : \E k \in 1..Len(s) : s[k] = c
        BY <1>7, <1>s DEF NextRepeat
      <4>2. \A k \in 1..Len(s) : s[k] \in Conditions
        BY <4>1
      <4>3. \A y : y \in {r} \X Conditions <=> \E c \in Conditions : y = <<r, c>>
        OBVIOUS
      <4> HIDE DEF r, s
      <4> QED BY <4>1, <4>2, <4>3
    <3>5. \A x \in Expected : x[1] \in 0..(Repeats - 1) /\ x[2] \in Conditions /\ x = <<x[1], x[2]>>
      BY DEF Expected
    <3>6. {r} \X Conditions \subseteq Expected
      BY <2>1 DEF Expected
    <3>7. \A x \in Expected : x[1] < r + 1 => x[1] < r \/ x \in {r} \X Conditions
      BY <2>1, <3>5
    <3>8. \A x \in {r} \X Conditions : x[1] < r + 1
      BY <2>1
    <3>9. \A x \in Expected : x[1] < r => x[1] < r + 1
      BY <2>1, <3>5
    <3> QED BY <3>2, <3>3, <3>4, <3>6, <3>7, <3>8, <3>9
  <2>4. LoopAt(p)'
    <3>1. repeat'[p] = r + 1 /\ done'[p] = 0 /\ shuffle' = shuffle
      BY <1>t, <1>7 DEF NextRepeat
    <3>2. r + 1 < Repeats => 0 <= Len(shuffle[r + 1])
      BY <1>0, <2>1 DEF TypeInv, StudyAssumption
    <3> QED BY <2>1, <3>1, <3>2 DEF LoopAt
  <2> QED BY <2>1, <2>2, <2>3, <2>4, OnlyOwnerLoops DEF RecordsInv, Inside, Loop
<1>8. ASSUME NEW p \in Processes, CallReturns(p) PROVE RecordsInv'
  <2>1. /\ LoopAt(p) /\ AllWhole /\ EachOnce /\ Recorded = Ran(p)
        /\ pc[p] = "call" /\ pc'[p] = "record"
    BY <1>0, <1>t, <1>8 DEF CallReturns, RecordsInv, Loop
  <2>2. AllWhole' /\ EachOnce' /\ Recorded' = Recorded
    BY <1>8, <2>1 DEF CallReturns, AllWhole, EachOnce, Recorded, Actual
  <2>3. Ran(p)' = Ran(p)
    BY <1>t, <1>8, <2>1 DEF CallReturns, Ran, Written
  <2>4. LoopAt(p)'
    BY <1>t, <1>8, <2>1 DEF CallReturns, LoopAt
  <2> QED BY <2>1, <2>2, <2>3, <2>4, OnlyOwnerLoops DEF RecordsInv, Inside, Loop
<1>9. ASSUME NEW p \in Processes, CallFails(p) PROVE RecordsInv'
  BY <1>0, <1>q, <1>9, NobodyLoops DEF CallFails, Inside, Loop
<1>10. ASSUME NEW p \in Processes, Record(p) PROVE RecordsInv'
  <2> DEFINE r == repeat[p]
             s == shuffle[repeat[p]]
             x == <<r, s[done[p]]>>
             n == Len(records)
  <2>1. /\ LoopAt(p) /\ AllWhole /\ EachOnce /\ Recorded = Ran(p)
        /\ pc[p] = "record" /\ pc'[p] = "count" /\ r \in 0..(Repeats - 1)
        /\ done[p] \in 1..Len(s) /\ active[p] = s[done[p]] /\ s \in Seq(Conditions)
    <3>1. pc[p] = "record" /\ pc'[p] = "count"
      BY <1>t, <1>10 DEF Record
    <3>2. LoopAt(p) /\ AllWhole /\ EachOnce /\ Recorded = Ran(p)
      BY <1>0, <3>1 DEF RecordsInv, Loop
    <3>3. r \in 0..(Repeats - 1) /\ s \in Seq(Conditions)
      <4>1. r # Repeats /\ r \in 0..Repeats
        BY <1>t, <3>1, <3>2 DEF LoopAt
      <4> QED BY <1>s, <4>1, StudyAssumption DEF StudyAssumption
    <3>4. done[p] \in 1..Len(s) /\ active[p] = s[done[p]]
      <4>1. r < Repeats /\ Len(s) \in Nat
        BY <3>3, StudyAssumption DEF StudyAssumption
      <4> QED BY <1>t, <3>1, <3>2, <4>1 DEF LoopAt
    <3> QED BY <3>1, <3>2, <3>3, <3>4
  <2>2. /\ DOMAIN records = 1..n /\ DOMAIN records' = 1..(n + 1) /\ n \in Nat
        /\ \A k \in 1..n : records'[k] = records[k]
        /\ records'[n + 1].repeat = r /\ records'[n + 1].condition = active[p]
        /\ records'[n + 1].text # "torn"
    <3>1. records \in Seq(Lines)
      BY <1>0 DEF TypeInv
    <3>2. PICK w \in Marks : records' = Line(p, w) /\ w # "torn"
      BY <1>10 DEF Record, Marks
    <3>3. /\ records' \in Seq(Lines) /\ Len(records') = n + 1
          /\ \A k \in 1..n : records'[k] = records[k]
          /\ records'[n + 1] = NewLine(p, w)
      BY <1>0, <3>2, LineAppends
    <3>4. n \in Nat /\ DOMAIN records = 1..n /\ DOMAIN records' = 1..(n + 1)
      <4>1. n \in Nat /\ DOMAIN records = 1..n
        BY <3>1
      <4>2. DOMAIN records' = 1..Len(records')
        BY <3>3
      <4> HIDE DEF n
      <4> QED BY <3>3, <4>1, <4>2
    <3>5. /\ records'[n + 1].repeat = r /\ records'[n + 1].condition = active[p]
          /\ records'[n + 1].text # "torn"
      BY <3>2, <3>3 DEF NewLine
    <3> QED BY <3>3, <3>4, <3>5
  <2>3. /\ DOMAIN Actual = 1..n /\ DOMAIN Actual' = 1..(n + 1)
        /\ \A k \in 1..n : Actual'[k] = Actual[k]
        /\ Actual'[n + 1] = x
    BY <2>1, <2>2 DEF Actual
  <2>4. AllWhole'
    BY <2>1, <2>2 DEF AllWhole
  <2>5. x \notin Ran(p)
    <3>1. x \notin {y \in Expected : y[1] < r}
      BY <2>1
    <3>2. \A k \in 1..(done[p] - 1) : s[k] # s[done[p]]
      <4>1. r < Repeats
        BY <2>1, StudyAssumption DEF StudyAssumption
      <4>2. \A k, l \in 1..Len(s) : s[k] = s[l] => k = l
        BY <1>s, <4>1
      <4> HIDE DEF s
      <4> QED BY <2>1, <4>2
    <3> QED BY <2>1, <3>1, <3>2 DEF Ran, Written
  <2>6. Ran(p)' = Ran(p) \cup {x}
    <3>1. Ran(p)' = {y \in Expected : y[1] < r} \cup {<<r, s[k]>> : k \in 1..done[p]}
      BY <1>10, <2>1 DEF Record, Ran, Written
    <3>2. Ran(p) = {y \in Expected : y[1] < r} \cup {<<r, s[k]>> : k \in 1..(done[p] - 1)}
      BY <2>1 DEF Ran, Written
    <3>3. {<<r, s[k]>> : k \in 1..done[p]} = {<<r, s[k]>> : k \in 1..(done[p] - 1)} \cup {x}
      BY <2>1
    <3> QED BY <3>1, <3>2, <3>3
  <2>7. Recorded' = Recorded \cup {x}
    <3>1. Recorded = {Actual[k] : k \in 1..n} /\ Recorded' = {Actual'[k] : k \in 1..(n + 1)}
      BY <2>2 DEF Recorded
    <3>2. 1..(n + 1) = 1..n \cup {n + 1}
      BY <2>2
    <3> HIDE DEF x
    <3> QED BY <2>3, <3>1, <3>2
  <2>8. EachOnce'
    <3>1. \A k \in 1..n : Actual[k] # x
      BY <2>1, <2>2, <2>5 DEF Recorded
    <3> QED BY <2>1, <2>2, <2>3, <3>1 DEF EachOnce
  <2>9. LoopAt(p)'
    BY <1>t, <1>10, <2>1 DEF Record, LoopAt
  <2> QED BY <2>1, <2>4, <2>6, <2>7, <2>8, <2>9, OnlyOwnerLoops DEF RecordsInv, Inside, Loop
<1>11. ASSUME NEW p \in Processes, RecordFails(p) PROVE RecordsInv'
  BY <1>0, <1>q, <1>11, NobodyLoops DEF RecordFails, Inside, Loop
<1>12. ASSUME NEW p \in Processes, Count(p) PROVE RecordsInv'
  <2>1. /\ LoopAt(p) /\ AllWhole /\ EachOnce /\ Recorded = Ran(p)
        /\ pc[p] = "count" /\ pc'[p] = "choose"
    BY <1>0, <1>t, <1>12 DEF Count, RecordsInv, Loop
  <2>2. AllWhole' /\ EachOnce' /\ Recorded' = Recorded
    BY <1>12, <2>1 DEF Count, AllWhole, EachOnce, Recorded, Actual
  <2>3. Ran(p)' = Ran(p)
    BY <1>t, <1>12, <2>1 DEF Count, Ran, Written
  <2>4. LoopAt(p)'
    BY <1>t, <1>12, <2>1 DEF Count, LoopAt
  <2> QED BY <2>1, <2>2, <2>3, <2>4, OnlyOwnerLoops DEF RecordsInv, Inside, Loop
<1>13. ASSUME NEW p \in Processes, Finish(p) PROVE RecordsInv'
  BY <1>0, <1>q, <1>13, NobodyLoops DEF Finish, Inside, Loop
<1>14. ASSUME NEW p \in Processes, Finally(p) PROVE RecordsInv'
  BY <1>0, <1>q, <1>14, NobodyLoops DEF Finally, Inside
<1>15. ASSUME NEW p \in Processes, Interrupt(p) PROVE RecordsInv'
  <2>1. UNCHANGED <<shuffle, repeat, done, active, records>>
    BY <1>15 DEF Interrupt
  <2>2. pc' = [pc EXCEPT ![p] = "finally"] \/ pc' = [pc EXCEPT ![p] = "ended"]
    BY <1>15, Zenon DEF Interrupt
  <2> QED BY <1>t, <1>u, <2>1, <2>2 DEF Loop
<1>16. ASSUME NEW p \in Processes, Kill(p) PROVE RecordsInv'
  <2>1. CASE pc[p] = "record"
    BY <1>0, <1>q, <1>16, <2>1, NobodyLoops DEF Kill, Inside, Loop
  <2>2. CASE pc[p] # "record"
    BY <1>t, <1>u, <1>16, <2>2 DEF Kill, Loop
  <2> QED BY <2>1, <2>2
<1>17. ASSUME NEW correct \in [Conditions -> SUBSET Questions], Score(correct) PROVE RecordsInv'
  BY <1>u, <1>17 DEF Score
<1>18. CASE UNCHANGED vars
  BY <1>u, <1>18 DEF vars
<1> QED BY <1>1, <1>2, <1>3, <1>4, <1>5, <1>6, <1>7, <1>8, <1>9, <1>10, <1>11, <1>12,
           <1>13, <1>14, <1>15, <1>16, <1>17, <1>18 DEF Next


\* A line that is appended leaves what was counted.
LEMMA CountedStays ==
  ASSUME TypeInv, NEW n \in Nat, Counted(n),
         records' = records \/ \E p \in Processes, w \in Marks : records' = Line(p, w)
  PROVE  Counted(n)'
<1>1. CASE records' = records
  BY <1>1 DEF Counted
<1>2. ASSUME NEW p \in Processes, NEW w \in Marks, records' = Line(p, w) PROVE Counted(n)'
  <2>1. Len(records') = Len(records) + 1 /\ \A k \in 1..Len(records) : records'[k] = records[k]
    BY <1>2, LineAppends
  <2>2. Len(records) \in Nat
    BY DEF TypeInv
  <2> QED BY <2>1, <2>2 DEF Counted
<1> QED BY <1>1, <1>2

LEMMA NoRecordCounted == ASSUME TypeInv PROVE Counted(0)
BY DEF TypeInv, Counted

LEMMA CountKept == ASSUME StudyAssumption, IInv, [Next]_vars, OwnerInv' PROVE CountInv'
<1> USE DEF Go, Remember, WriteManifest, process, disk
<1>0. TypeInv /\ OwnerInv /\ RecordsInv /\ CountInv
  BY DEF IInv
<1>t. /\ pc \in [Processes -> Inside \cup {"check", "mkdir", "ended"}]
      /\ memory \in [Processes -> Manifests] /\ manifest \in Manifests
      /\ manifest.completed \in Nat /\ \A p \in Processes : memory[p].completed \in Nat
  BY <1>0 DEF TypeInv, Manifests
<1>r. \A p \in Processes : Running(p).completed = 0
  BY DEF Running
\* Records, memories and the manifest's count stay, and no process enters the loops.
<1>u. ASSUME UNCHANGED records, Counted(manifest'.completed),
             \A q \in Processes : pc'[q] \in Inside => pc[q] \in Inside,
             \A q \in Processes : pc'[q] \in Loop => pc[q] \in Loop /\ (pc'[q] = "count" <=> pc[q] = "count"),
             \A q \in Processes : memory'[q].completed = memory[q].completed
      PROVE  CountInv'
  BY <1>0, <1>u DEF CountInv, Counted
<1>p. ASSUME NEW p \in Processes, pc[p] \in Inside PROVE Counted(memory[p].completed)
  BY <1>0, <1>p DEF CountInv
<1>m. Counted(manifest.completed)
  BY <1>0 DEF CountInv
<1>f. ASSUME NEW p \in Processes, NEW s \in Statuses, memory' = [memory EXCEPT ![p] = [memory[p] EXCEPT !.status = s]]
      PROVE  \A q \in Processes : memory'[q].completed = memory[q].completed
  BY <1>t, <1>f, ManifestChanges
<1>s. {"failed", "complete", "interrupted", "torn"} \subseteq Statuses
  BY DEF Statuses
<1>1. ASSUME NEW p \in Processes, Check(p) PROVE CountInv'
  BY <1>t, <1>u, <1>m, <1>1 DEF Check, Inside, Loop
<1>2. ASSUME NEW p \in Processes, MakeDirectory(p) PROVE CountInv'
  <2>1. memory[p].completed = 0
    BY <1>0, <1>r, <1>2 DEF MakeDirectory, OwnerInv
  <2>2. \A q \in Processes : pc'[q] \in Inside => q = p \/ pc'[q] = pc[q]
    BY <1>t, <1>2 DEF MakeDirectory
  <2>3. pc'[p] \notin Loop
    BY <1>t, <1>2 DEF MakeDirectory, Loop
  <2>4. \A q \in Processes : pc'[q] \in Inside => Counted(memory[q].completed)
    BY <1>0, <1>p, <2>1, <2>2, NoRecordCounted
  <2>5. \A q \in Processes : pc'[q] \in Loop => pc'[q] = pc[q]
    BY <1>t, <1>2, <2>3 DEF MakeDirectory
  <2>6. UNCHANGED <<records, memory, manifest>>
    BY <1>2 DEF MakeDirectory
  <2> QED BY <1>0, <2>4, <2>5, <2>6 DEF CountInv, Counted
<1>3. ASSUME NEW p \in Processes, FirstManifest(p) PROVE CountInv'
  BY <1>t, <1>u, <1>p, <1>3 DEF FirstManifest, Inside, Loop
<1>4. ASSUME NEW p \in Processes, Freeze(p) PROVE CountInv'
  BY <1>t, <1>u, <1>m, <1>4 DEF Freeze, Inside, Loop
<1>5. ASSUME NEW p \in Processes, OpenRecords(p) PROVE CountInv'
  <2>1. /\ ~stream /\ pc' = [pc EXCEPT ![p] = "choose"] /\ memory' = memory
        /\ records = <<>> /\ memory[p].completed = 0 /\ pc[p] = "open"
    BY <1>0, <1>t, <1>r, <1>5 DEF OpenRecords, OwnerInv
  <2>2. UNCHANGED <<records, manifest>>
    BY <1>5 DEF OpenRecords
  <2>3. \A q \in Processes : pc'[q] \in Loop => q = p
    BY <1>t, <2>1, OnlyOwnerLoops DEF Inside, Loop
  <2>4. \A q \in Processes : pc'[q] \in Inside => pc[q] \in Inside
    BY <1>t, <2>1 DEF Inside
  <2>5. Len(records) = memory[p].completed /\ pc'[p] = "choose"
    BY <1>t, <2>1
  <2> QED BY <1>0, <1>m, <1>p, <2>1, <2>2, <2>3, <2>4, <2>5 DEF CountInv, Counted
<1>6. ASSUME NEW p \in Processes, Choose(p) PROVE CountInv'
  BY <1>t, <1>u, <1>p, <1>6 DEF Choose, Inside, Loop
<1>7. ASSUME NEW p \in Processes, NextRepeat(p) PROVE CountInv'
  BY <1>t, <1>u, <1>m, <1>7 DEF NextRepeat, Inside, Loop
<1>8. ASSUME NEW p \in Processes, CallReturns(p) PROVE CountInv'
  BY <1>t, <1>u, <1>m, <1>8 DEF CallReturns, Inside, Loop
<1>9. ASSUME NEW p \in Processes, CallFails(p) PROVE CountInv'
  BY <1>t, <1>u, <1>m, <1>f, <1>s, <1>9 DEF CallFails, Inside, Loop
<1>10. ASSUME NEW p \in Processes, Record(p) PROVE CountInv'
  <2>1. /\ pc[p] = "record" /\ pc' = [pc EXCEPT ![p] = "count"]
        /\ UNCHANGED <<memory, manifest>>
    BY <1>10 DEF Record
  <2>w. PICK w \in Marks : records' = Line(p, w)
    BY <1>10 DEF Record, Marks
  <2>2. Len(records') = memory[p].completed + 1
    <3>1. Len(records') = Len(records) + 1
      BY <1>0, <2>w, LineAppends
    <3>2. Len(records) = memory[p].completed
      BY <1>0, <1>t, <2>1 DEF CountInv, Loop
    <3> QED BY <3>1, <3>2
  <2>3. \A q \in Processes : pc'[q] \in Loop => q = p
    BY <1>t, <2>1, OnlyOwnerLoops DEF Inside, Loop
  <2>4. \A q \in Processes : pc'[q] \in Inside => pc[q] \in Inside
    BY <1>t, <2>1 DEF Inside, Loop
  <2>5. \A n \in Nat : Counted(n) => Counted(n)'
    BY <1>0, <2>w, CountedStays
  <2>6. Counted(manifest.completed)'
    BY <1>t, <1>m, <2>1, <2>5
  <2>7. \A q \in Processes : pc'[q] \in Inside => Counted(memory[q].completed)'
    BY <1>t, <1>p, <2>1, <2>4, <2>5
  <2>8. pc'[p] = "count"
    BY <1>t, <2>1
  <2> QED BY <2>1, <2>2, <2>3, <2>6, <2>7, <2>8 DEF CountInv
<1>11. ASSUME NEW p \in Processes, RecordFails(p) PROVE CountInv'
  <2>1. /\ pc[p] = "record" /\ pc' = [pc EXCEPT ![p] = "finally"]
        /\ records' = Line(p, "torn") /\ UNCHANGED manifest
        /\ \A q \in Processes : memory'[q].completed = memory[q].completed
    BY <1>f, <1>s, <1>11 DEF RecordFails
  <2>2. \A q \in Processes : pc'[q] \notin Loop
    BY <1>0, <2>1, NobodyLoops DEF Inside, Loop
  <2>3. \A q \in Processes : pc'[q] \in Inside => pc[q] \in Inside
    BY <1>t, <2>1 DEF Inside, Loop
  <2>4. \A n \in Nat : Counted(n) => Counted(n)'
    <3>1. "torn" \in Marks
      BY DEF Marks
    <3> QED BY <1>0, <2>1, <3>1, CountedStays
  <2>5. Counted(manifest.completed)'
    BY <1>t, <1>m, <2>1, <2>4
  <2>6. \A q \in Processes : pc'[q] \in Inside => Counted(memory[q].completed)'
    BY <1>t, <1>p, <2>1, <2>3, <2>4
  <2> QED BY <2>2, <2>5, <2>6 DEF CountInv
<1>12. ASSUME NEW p \in Processes, Count(p) PROVE CountInv'
  <2> DEFINE m == [memory[p] EXCEPT !.completed = @ + 1]
  <2>1. /\ pc[p] = "count" /\ pc' = [pc EXCEPT ![p] = "choose"] /\ UNCHANGED records
        /\ memory' = [memory EXCEPT ![p] = m] /\ manifest' = m
    BY <1>12 DEF Count
  <2>2. m.completed = memory[p].completed + 1 /\ Len(records) = memory[p].completed + 1
    BY <1>0, <1>t, <2>1, ManifestChanges DEF CountInv, Loop
  <2>3. Counted(m.completed)
    <3>1. AllWhole /\ records \in Seq(Lines)
      BY <1>0, <2>1 DEF RecordsInv, Loop, TypeInv
    <3> HIDE DEF m
    <3> QED BY <2>2, <3>1 DEF AllWhole, Counted
  <2>4. \A q \in Processes : pc'[q] \in Inside => q = p
    BY <1>t, <2>1 DEF OwnerInv, Inside, Loop
  <2>5. pc'[p] = "choose" /\ memory'[p] = m
    BY <1>t, <2>1
  <2>6. \A q \in Processes : pc'[q] \in Loop => q = p
    BY <2>4 DEF Inside
  <2> HIDE DEF m
  <2> QED BY <2>1, <2>2, <2>3, <2>4, <2>5, <2>6 DEF CountInv, Counted
<1>13. ASSUME NEW p \in Processes, Finish(p) PROVE CountInv'
  BY <1>t, <1>u, <1>m, <1>f, <1>s, <1>13 DEF Finish, Inside, Loop
<1>14. ASSUME NEW p \in Processes, Finally(p) PROVE CountInv'
  BY <1>t, <1>u, <1>p, <1>14 DEF Finally, Inside, Loop
<1>15. ASSUME NEW p \in Processes, Interrupt(p) PROVE CountInv'
  <2>1. CASE pc[p] \in {"open", "choose", "call", "record", "count"}
    BY <1>t, <1>u, <1>m, <1>f, <1>s, <1>15, <2>1 DEF Interrupt, Inside, Loop
  <2>2. CASE pc[p] \notin {"open", "choose", "call", "record", "count"}
    BY <1>t, <1>u, <1>m, <1>15, <2>2 DEF Interrupt, Inside, Loop
  <2> QED BY <2>1, <2>2
<1>16. ASSUME NEW p \in Processes, Kill(p) PROVE CountInv'
  <2>1. /\ pc' = [pc EXCEPT ![p] = "ended"] /\ UNCHANGED memory
        /\ manifest'.completed = manifest.completed \/ manifest'.completed = 0
        /\ pc[p] = "record" => records' = Line(p, "torn")
        /\ pc[p] # "record" => records' = records
    <3>1. manifest' = manifest \/ manifest' = Damaged("torn")
      BY <1>16, Zenon DEF Kill
    <3>2. pc[p] = "record" => records' = Line(p, "torn")
      BY <1>16 DEF Kill
    <3>3. pc' = [pc EXCEPT ![p] = "ended"] /\ UNCHANGED memory
      BY <1>16 DEF Kill
    <3>4. manifest'.completed = manifest.completed \/ manifest'.completed = 0
      BY <3>1 DEF Damaged
    <3>5. pc[p] # "record" => records' = records
      BY <1>16 DEF Kill
    <3> QED BY <3>2, <3>3, <3>4, <3>5, Zenon
  <2>2. \A q \in Processes : pc'[q] # "ended" => pc'[q] = pc[q]
    BY <1>t, <2>1
  <2>3. \A n \in Nat : Counted(n) => Counted(n)'
    <3>1. "torn" \in Marks
      BY DEF Marks
    <3> QED BY <1>0, <2>1, <3>1, CountedStays
  <2>4. Counted(manifest.completed)'
    <3>1. Counted(0)'
      BY <1>0, <2>3, NoRecordCounted
    <3>2. Counted(manifest.completed) => \A n \in Nat : n = manifest.completed => Counted(n)'
      BY <2>3
    <3> QED BY <1>t, <1>m, <2>1, <3>1, <3>2 DEF Counted
  <2>5. \A q \in Processes : pc'[q] \in Inside => Counted(memory[q].completed)'
    BY <1>t, <1>p, <2>1, <2>2, <2>3 DEF Inside, Loop
  <2>6. ASSUME NEW q \in Processes, pc'[q] \in Loop
        PROVE  Len(records') = memory'[q].completed + (IF pc'[q] = "count" THEN 1 ELSE 0)
    <3>1. pc'[q] = pc[q] /\ pc[q] \in Loop /\ p # q
      BY <1>t, <2>1, <2>2, <2>6 DEF Loop
    <3>2. pc[p] # "record"
      BY <1>0, <3>1 DEF OwnerInv, Inside, Loop
    <3> QED BY <1>0, <2>1, <3>1, <3>2 DEF CountInv
  <2> QED BY <2>4, <2>5, <2>6 DEF CountInv
<1>17. ASSUME NEW correct \in [Conditions -> SUBSET Questions], Score(correct) PROVE CountInv'
  BY <1>u, <1>m, <1>17 DEF Score
<1>18. CASE UNCHANGED vars
  BY <1>u, <1>m, <1>18 DEF vars
<1> QED BY <1>1, <1>2, <1>3, <1>4, <1>5, <1>6, <1>7, <1>8, <1>9, <1>10, <1>11, <1>12,
           <1>13, <1>14, <1>15, <1>16, <1>17, <1>18 DEF Next


LEMMA CompleteKept == ASSUME StudyAssumption, IInv, [Next]_vars, OwnerInv' PROVE CompleteInv'
<1> USE DEF Go, Remember, WriteManifest, process, disk
<1>0. TypeInv /\ OwnerInv /\ RecordsInv /\ CountInv /\ CompleteInv
  BY DEF IInv
<1>t. /\ pc \in [Processes -> Inside \cup {"check", "mkdir", "ended"}]
      /\ memory \in [Processes -> Manifests]
  BY <1>0 DEF TypeInv
<1>o. \A p, q \in Processes : pc[p] \in Inside /\ pc[q] \in Inside => p = q
  BY <1>0 DEF OwnerInv
\* The owner stays at work with a manifest that is not complete.
<1>i. ASSUME NEW p \in Processes, pc'[p] \in Inside,
             pc'[p] # "finally" \/ memory'[p].status # "complete"
      PROVE  CompleteInv'
  BY <1>i DEF OwnerInv, CompleteInv, Inside
\* Nothing it speaks of changes, and no process comes to its end.
<1>u. ASSUME UNCHANGED <<manifest, frozen, records>>,
             \A q \in Processes : pc'[q] = "finally" => pc[q] = "finally" /\ memory'[q] = memory[q]
      PROVE  CompleteInv'
  BY <1>0, <1>u DEF CompleteInv, FilesComplete, AllWhole, EachOnce, Recorded, Actual
\* The owner fails: its manifest names the failure.
<1>f. ASSUME NEW p \in Processes, NEW s \in {"failed", "interrupted"}, pc' = [pc EXCEPT ![p] = "finally"],
             memory' = [memory EXCEPT ![p] = [memory[p] EXCEPT !.status = s]]
      PROVE  CompleteInv'
  <2>1. memory'[p].status = s
    BY <1>t, <1>f, ManifestChanges DEF Statuses
  <2> QED BY <1>t, <1>f, <1>i, <2>1 DEF Inside
<1>1. ASSUME NEW p \in Processes, Check(p) PROVE CompleteInv'
  BY <1>t, <1>u, <1>1 DEF Check
<1>2. ASSUME NEW p \in Processes, MakeDirectory(p) PROVE CompleteInv'
  BY <1>t, <1>u, <1>2 DEF MakeDirectory
<1>3. ASSUME NEW p \in Processes, FirstManifest(p) PROVE CompleteInv'
  BY <1>t, <1>i, <1>3 DEF FirstManifest, Inside
<1>4. ASSUME NEW p \in Processes, Freeze(p) PROVE CompleteInv'
  BY <1>t, <1>i, <1>4 DEF Freeze, Inside
<1>5. ASSUME NEW p \in Processes, OpenRecords(p) PROVE CompleteInv'
  <2>1. pc' = [pc EXCEPT ![p] = "choose"]
    BY <1>0, <1>5, Zenon DEF OpenRecords, OwnerInv
  <2> QED BY <1>t, <1>i, <2>1 DEF Inside, Loop
<1>6. ASSUME NEW p \in Processes, Choose(p) PROVE CompleteInv'
  BY <1>t, <1>i, <1>6 DEF Choose, Inside, Loop
<1>7. ASSUME NEW p \in Processes, NextRepeat(p) PROVE CompleteInv'
  BY <1>t, <1>i, <1>7 DEF NextRepeat, Inside, Loop
<1>8. ASSUME NEW p \in Processes, CallReturns(p) PROVE CompleteInv'
  BY <1>t, <1>i, <1>8 DEF CallReturns, Inside, Loop
<1>9. ASSUME NEW p \in Processes, CallFails(p) PROVE CompleteInv'
  BY <1>f, <1>9 DEF CallFails
<1>10. ASSUME NEW p \in Processes, Record(p) PROVE CompleteInv'
  BY <1>t, <1>i, <1>10 DEF Record, Inside, Loop
<1>11. ASSUME NEW p \in Processes, RecordFails(p) PROVE CompleteInv'
  BY <1>f, <1>11 DEF RecordFails
<1>12. ASSUME NEW p \in Processes, Count(p) PROVE CompleteInv'
  <2>1. pc' = [pc EXCEPT ![p] = "choose"]
    BY <1>12 DEF Count
  <2> QED BY <1>t, <1>i, <2>1 DEF Inside, Loop
<1>13. ASSUME NEW p \in Processes, Finish(p) PROVE CompleteInv'
  <2>1. /\ pc[p] = "choose" /\ repeat[p] = Repeats /\ pc' = [pc EXCEPT ![p] = "finally"]
        /\ UNCHANGED <<manifest, frozen, records>>
        /\ memory' = [memory EXCEPT ![p] = [memory[p] EXCEPT !.status = "complete"]]
    BY <1>13 DEF Finish
  <2>2. frozen.status = "whole" /\ AllWhole /\ EachOnce /\ Recorded = Ran(p) /\ done[p] = 0
    BY <1>0, <2>1 DEF OwnerInv, RecordsInv, LoopAt, Loop
  <2>3. Ran(p) = Expected
    <3>1. \A x \in Expected : x[1] < Repeats
      BY StudyAssumption DEF StudyAssumption, Expected
    <3>2. Written(p) = 0
      BY <2>1, <2>2 DEF Written
    <3>3. Ran(p) = {x \in Expected : x[1] < Repeats}
      BY <2>1, <3>2 DEF Ran
    <3> QED BY <3>1, <3>3
  <2>4. memory'[p].completed = Len(records)
    <3>1. memory[p].completed = Len(records)
      BY <1>0, <1>t, <2>1 DEF CountInv, Loop, Manifests
    <3>2. memory'[p].completed = memory[p].completed
      BY <1>t, <2>1, ManifestChanges DEF Statuses
    <3> QED BY <3>1, <3>2
  <2>5. FilesComplete'
    BY <2>1, <2>2, <2>3 DEF FilesComplete, AllWhole, EachOnce, Recorded, Actual
  <2>6. \A q \in Processes : pc'[q] = "finally" => q = p
    BY <1>t, <1>o, <2>1 DEF Inside, Loop
  <2>7. manifest'.status # "complete"
    BY <1>0, <2>1 DEF OwnerInv, Inside, Loop
  <2>8. Len(records') = Len(records)
    BY <2>1
  <2> QED BY <2>4, <2>5, <2>6, <2>7, <2>8 DEF CompleteInv
<1>14. ASSUME NEW p \in Processes, Finally(p) PROVE CompleteInv'
  <2>1. /\ pc[p] = "finally" /\ pc' = [pc EXCEPT ![p] = "ended"] /\ manifest' = memory[p]
        /\ UNCHANGED <<frozen, records, memory>>
    BY <1>14 DEF Finally
  <2>2. \A q \in Processes : pc'[q] # "finally"
    BY <1>t, <1>o, <2>1 DEF Inside
  <2> QED BY <1>0, <2>1, <2>2 DEF CompleteInv, FilesComplete, AllWhole, EachOnce, Recorded, Actual
<1>15. ASSUME NEW p \in Processes, Interrupt(p) PROVE CompleteInv'
  <2>1. CASE pc[p] \in {"open", "choose", "call", "record", "count"}
    BY <1>f, <1>15, <2>1 DEF Interrupt
  <2>2. CASE pc[p] \notin {"open", "choose", "call", "record", "count"}
    BY <1>t, <1>u, <1>15, <2>2 DEF Interrupt
  <2> QED BY <2>1, <2>2
<1>16. ASSUME NEW p \in Processes, Kill(p) PROVE CompleteInv'
  <2>1. CASE pc[p] \in Inside
    <3>1. \A q \in Processes : pc'[q] # "finally"
      BY <1>t, <1>o, <1>16, <2>1 DEF Kill, Inside
    <3>2. manifest' = manifest \/ manifest'.status = "torn"
      <4>1. manifest' = manifest \/ manifest' = Damaged("torn")
        BY <1>16, Zenon DEF Kill
      <4> QED BY <4>1 DEF Damaged
    <3>3. manifest.status # "complete"
      BY <1>0, <2>1 DEF OwnerInv
    <3> QED BY <3>1, <3>2, <3>3 DEF CompleteInv
  <2>2. CASE pc[p] \notin Inside
    BY <1>t, <1>u, <1>16, <2>2 DEF Kill, Inside, Loop
  <2> QED BY <2>1, <2>2
<1>17. ASSUME NEW correct \in [Conditions -> SUBSET Questions], Score(correct) PROVE CompleteInv'
  BY <1>u, <1>17 DEF Score
<1>18. CASE UNCHANGED vars
  BY <1>u, <1>18 DEF vars
<1> QED BY <1>1, <1>2, <1>3, <1>4, <1>5, <1>6, <1>7, <1>8, <1>9, <1>10, <1>11, <1>12,
           <1>13, <1>14, <1>15, <1>16, <1>17, <1>18 DEF Next

LEMMA CaseKept == ASSUME StudyAssumption, IInv, [Next]_vars, OwnerInv' PROVE CaseInv'
<1> USE DEF Go, Remember, WriteManifest, process, disk
<1>0. TypeInv /\ OwnerInv /\ CaseInv
  BY DEF IInv
<1>t. /\ pc \in [Processes -> Inside \cup {"check", "mkdir", "ended"}]
      /\ memory \in [Processes -> Manifests]
  BY <1>0 DEF TypeInv
<1>o. \A p, q \in Processes : pc[p] \in Inside /\ pc[q] \in Inside => p = q
  BY <1>0 DEF OwnerInv
\* A manifest keeps its case, whatever becomes of its status or its count.
<1>c. ASSUME NEW p \in Processes, NEW m \in Manifests, m.case = p, memory' = [memory EXCEPT ![p] = m]
      PROVE  \A q \in Processes : memory'[q].case = q
  BY <1>0, <1>t, <1>c DEF CaseInv
<1>s. ASSUME NEW p \in Processes, NEW s \in Statuses, memory' = [memory EXCEPT ![p] = [memory[p] EXCEPT !.status = s]]
      PROVE  \A q \in Processes : memory'[q].case = q
  <2>1. [memory[p] EXCEPT !.status = s] \in Manifests /\ [memory[p] EXCEPT !.status = s].case = p
    <3>1. memory[p] \in Manifests /\ memory[p].case = p
      BY <1>0, <1>t DEF CaseInv
    <3>2. PICK m \in Manifests : m = memory[p]
      BY <3>1
    <3>3. [m EXCEPT !.status = s] \in Manifests /\ [m EXCEPT !.status = s].case = m.case
      BY ManifestChanges
    <3> QED BY <3>1, <3>2, <3>3
  <2> QED BY <1>c, <1>s, <2>1
\* The owner goes on, or fails, and writes no record.
<1>g. ASSUME NEW p \in Processes, pc[p] \in Inside, UNCHANGED <<frozen, records>>,
             manifest' = manifest \/ manifest'.status # "complete",
             NEW s, pc' = [pc EXCEPT ![p] = s],
             s \in Loop \cup {"open"} => pc[p] \in Loop \cup {"open"},
             s = "finally" => memory'[p].status # "complete",
             \A q \in Processes : memory'[q].case = q
      PROVE  CaseInv'
  <2>1. \A q \in Processes : pc'[q] \in Inside => q = p
    BY <1>t, <1>o, <1>g
  <2>2. manifest.status # "complete"
    BY <1>0, <1>g DEF OwnerInv
  <2>3. OfCase(p)'
    BY <1>0, <1>g DEF CaseInv, OfCase
  <2>4. pc'[p] = s
    BY <1>t, <1>g
  <2>5. pc'[p] \in Loop \cup {"open"} => frozen'.case = p
    BY <1>0, <1>g, <2>4 DEF CaseInv
  <2>6. pc'[p] = "finally" => memory'[p].status # "complete"
    BY <1>g, <2>4
  <2>7. \A k \in DOMAIN records' : records'[k].execution_id = k
    BY <1>0, <1>g DEF CaseInv
  <2>8. manifest'.status # "complete"
    BY <1>g, <2>2
  <2> QED BY <1>g, <2>1, <2>3, <2>5, <2>6, <2>7, <2>8 DEF CaseInv, Inside, Loop
\* The owner writes a record.
<1>l. ASSUME NEW p \in Processes, pc[p] = "record", NEW w \in Marks, records' = Line(p, w),
             UNCHANGED <<manifest, frozen>>,
             NEW s, pc' = [pc EXCEPT ![p] = s],
             s = "finally" => memory'[p].status # "complete",
             \A q \in Processes : memory'[q].case = q
      PROVE  CaseInv'
  <2>1. pc[p] \in Inside /\ pc[p] \in Loop
    BY <1>l DEF Inside, Loop
  <2>2. \A q \in Processes : pc'[q] \in Inside => q = p
    BY <1>t, <1>o, <1>l, <2>1
  <2>3. manifest'.status # "complete"
    BY <1>0, <1>l, <2>1 DEF OwnerInv
  <2>4. /\ records \in Seq(Lines) /\ records' \in Seq(Lines) /\ Len(records') = Len(records) + 1
        /\ \A k \in 1..Len(records) : records'[k] = records[k]
        /\ records'[Len(records) + 1] = NewLine(p, w)
    BY <1>0, <1>l, LineAppends DEF TypeInv
  <2>5. \A k \in DOMAIN records' :
           \/ k \in DOMAIN records /\ records'[k] = records[k]
           \/ k = Len(records) + 1 /\ records'[k] = NewLine(p, w)
    <3>1. PICK n \in Nat : n = Len(records)
      BY <2>4
    <3>2. DOMAIN records = 1..n
      BY <2>4, <3>1
    <3>3. DOMAIN records' = 1..(n + 1)
      BY <2>4, <3>1
    <3>4. \A k \in 1..(n + 1) : k \in 1..n \/ k = n + 1
      OBVIOUS
    <3>5. \A k \in 1..n : records'[k] = records[k]
      BY <2>4, <3>1
    <3>6. records'[n + 1] = NewLine(p, w)
      BY <2>4, <3>1
    <3> TAKE k \in DOMAIN records'
    <3>7. CASE k \in 1..n
      BY <3>2, <3>5, <3>7
    <3>8. CASE k = n + 1
      BY <3>1, <3>6, <3>8
    <3> QED BY <3>3, <3>4, <3>7, <3>8
  <2>6. NewLine(p, w).case = p /\ NewLine(p, w).execution_id = Len(records) + 1
    BY DEF NewLine
  <2>7. OfCase(p)'
    BY <1>0, <2>1, <2>5, <2>6 DEF CaseInv, OfCase
  <2>8. \A k \in DOMAIN records' : records'[k].execution_id = k
    BY <1>0, <2>5, <2>6 DEF CaseInv
  <2>9. frozen'.case = p
    BY <1>0, <1>l, <2>1 DEF CaseInv
  <2> QED BY <1>l, <2>2, <2>3, <2>7, <2>8, <2>9 DEF CaseInv, Inside, Loop
\* Nothing it speaks of changes, and no process is further than it was.
<1>u. ASSUME UNCHANGED <<manifest, frozen, records, memory>>,
             \A q \in Processes : pc'[q] \in Inside => pc'[q] = pc[q]
      PROVE  CaseInv'
  BY <1>0, <1>u DEF CaseInv, OfCase, Inside, Loop
<1>k. \A q \in Processes : memory[q].case = q
  BY <1>0 DEF CaseInv
<1>1. ASSUME NEW p \in Processes, Check(p) PROVE CaseInv'
  BY <1>t, <1>u, <1>1 DEF Check, Inside, Loop
<1>2. ASSUME NEW p \in Processes, MakeDirectory(p) PROVE CaseInv'
  <2>1. CASE directory
    BY <1>t, <1>u, <1>2, <2>1 DEF MakeDirectory, Inside, Loop
  <2>2. CASE ~directory
    <3>1. records' = <<>> /\ manifest'.status # "complete" /\ pc' = [pc EXCEPT ![p] = "manifest"]
          /\ memory' = memory
      BY <1>0, <1>2, <2>2 DEF MakeDirectory, OwnerInv
    <3>2. \A q \in Processes : pc'[q] \in Inside => q = p
      BY <1>t, <3>1 DEF OwnerInv, Inside
    <3>3. pc'[p] = "manifest"
      BY <1>t, <3>1
    <3> QED BY <1>k, <3>1, <3>2, <3>3 DEF CaseInv, OfCase, Inside, Loop
  <2> QED BY <2>1, <2>2
<1>3. ASSUME NEW p \in Processes, FirstManifest(p) PROVE CaseInv'
  <2>1. memory[p].status = "running"
    <3>1. memory[p] = Running(p)
      BY <1>0, <1>3 DEF FirstManifest, OwnerInv
    <3> QED BY <3>1 DEF Running
  <2> QED BY <1>g, <1>k, <1>3, <2>1 DEF FirstManifest, Inside, Loop
<1>4. ASSUME NEW p \in Processes, Freeze(p) PROVE CaseInv'
  <2>1. /\ records = <<>> /\ records' = records /\ manifest' = manifest /\ memory' = memory
        /\ manifest.status # "complete"
    BY <1>0, <1>4 DEF Freeze, OwnerInv, Inside
  <2>2. pc' = [pc EXCEPT ![p] = "open"] /\ frozen'.case = p /\ pc[p] \in Inside
    BY <1>4 DEF Freeze, Inside
  <2>3. \A q \in Processes : pc'[q] \in Inside => q = p
    BY <1>t, <1>o, <2>2
  <2>4. OfCase(p)' /\ \A k \in DOMAIN records' : records'[k].execution_id = k
    BY <2>1 DEF OfCase
  <2>5. \A q \in Processes : memory'[q].case = q
    BY <1>k, <2>1
  <2>6. pc'[p] = "open"
    BY <1>t, <2>2
  <2> QED BY <2>1, <2>2, <2>3, <2>4, <2>5 DEF CaseInv, Inside
<1>5. ASSUME NEW p \in Processes, OpenRecords(p) PROVE CaseInv'
  <2>1. ~stream /\ memory' = memory /\ pc' = [pc EXCEPT ![p] = "choose"]
    BY <1>0, <1>5, Zenon DEF OpenRecords, OwnerInv
  <2> QED BY <1>g, <1>k, <1>5, <2>1 DEF OpenRecords, Inside, Loop
<1>6. ASSUME NEW p \in Processes, Choose(p) PROVE CaseInv'
  <2>1. memory[p].status = "running"
    BY <1>0, <1>6 DEF Choose, OwnerInv, Loop
  <2> QED BY <1>g, <1>k, <1>6, <2>1 DEF Choose, Inside, Loop
<1>7. ASSUME NEW p \in Processes, NextRepeat(p) PROVE CaseInv'
  BY <1>u, <1>7 DEF NextRepeat
<1>8. ASSUME NEW p \in Processes, CallReturns(p) PROVE CaseInv'
  BY <1>g, <1>k, <1>8 DEF CallReturns, Inside, Loop
<1>9. ASSUME NEW p \in Processes, CallFails(p) PROVE CaseInv'
  <2>1. \A q \in Processes : memory'[q].case = q
    BY <1>s, <1>9 DEF CallFails, Statuses
  <2>2. memory'[p].status # "complete"
    BY <1>t, <1>9, ManifestChanges DEF CallFails, Statuses
  <2> QED BY <1>g, <1>9, <2>1, <2>2 DEF CallFails, Inside, Loop
<1>10. ASSUME NEW p \in Processes, Record(p) PROVE CaseInv'
  <2>1. PICK w \in Marks : records' = Line(p, w)
    BY <1>10 DEF Record, Marks
  <2> QED BY <1>l, <1>k, <1>10, <2>1 DEF Record
<1>11. ASSUME NEW p \in Processes, RecordFails(p) PROVE CaseInv'
  <2>1. \A q \in Processes : memory'[q].case = q
    BY <1>s, <1>11 DEF RecordFails, Statuses
  <2>2. memory'[p].status # "complete"
    BY <1>t, <1>11, ManifestChanges DEF RecordFails, Statuses
  <2>3. "torn" \in Marks
    BY DEF Marks
  <2> QED BY <1>l, <1>11, <2>1, <2>2, <2>3 DEF RecordFails
<1>12. ASSUME NEW p \in Processes, Count(p) PROVE CaseInv'
  <2>1. PICK m \in Manifests : /\ m.case = p /\ m.status = memory[p].status
                              /\ manifest' = m /\ memory' = [memory EXCEPT ![p] = m]
    BY <1>k, <1>t, <1>12, ManifestChanges DEF Count
  <2>2. memory[p].status = "running"
    BY <1>0, <1>12 DEF Count, OwnerInv, Loop
  <2>3. \A q \in Processes : memory'[q].case = q
    BY <1>c, <2>1
  <2> QED BY <1>g, <1>12, <2>1, <2>2, <2>3 DEF Count, Inside, Loop
<1>13. ASSUME NEW p \in Processes, Finish(p) PROVE CaseInv'
  <2>1. \A q \in Processes : memory'[q].case = q
    BY <1>s, <1>13 DEF Finish, Statuses
  <2>2. pc[p] \in Inside /\ pc[p] \in Loop /\ pc' = [pc EXCEPT ![p] = "finally"]
    BY <1>13 DEF Finish, Inside, Loop
  <2>3. frozen.case = p /\ OfCase(p) /\ manifest.status # "complete"
    BY <1>0, <2>2 DEF CaseInv, OwnerInv
  <2>4. \A q \in Processes : pc'[q] \in Inside => q = p
    BY <1>t, <1>o, <2>2
  <2>5. UNCHANGED <<records, frozen, manifest>>
    BY <1>13 DEF Finish
  <2> QED BY <1>0, <2>1, <2>3, <2>4, <2>5 DEF CaseInv, OfCase, Inside, Loop
<1>14. ASSUME NEW p \in Processes, Finally(p) PROVE CaseInv'
  <2>1. /\ pc[p] = "finally" /\ pc' = [pc EXCEPT ![p] = "ended"] /\ manifest' = memory[p]
        /\ UNCHANGED <<frozen, records, memory>>
    BY <1>14 DEF Finally
  <2>2. \A q \in Processes : pc'[q] \notin Inside
    BY <1>t, <1>o, <2>1 DEF Inside, Loop
  <2>3. memory[p].case = p /\ OfCase(p)
    BY <1>0, <2>1 DEF CaseInv, Inside
  <2>4. memory[p].status = "complete" => frozen.case = p
    BY <1>0, <2>1 DEF CaseInv
  <2> QED BY <1>0, <2>1, <2>2, <2>3, <2>4 DEF CaseInv, OfCase, Inside, Loop
<1>15. ASSUME NEW p \in Processes, Interrupt(p) PROVE CaseInv'
  <2>1. CASE pc[p] \in {"open", "choose", "call", "record", "count"}
    <3>1. /\ memory' = [memory EXCEPT ![p] = [memory[p] EXCEPT !.status = "interrupted"]]
          /\ pc' = [pc EXCEPT ![p] = "finally"] /\ UNCHANGED <<frozen, records, manifest>>
      BY <1>15, <2>1 DEF Interrupt
    <3>2. \A q \in Processes : memory'[q].case = q
      BY <1>s, <3>1 DEF Statuses
    <3>3. memory'[p].status # "complete"
      BY <1>t, <3>1, ManifestChanges DEF Statuses
    <3> QED BY <1>g, <2>1, <3>1, <3>2, <3>3 DEF Inside, Loop
  <2>2. CASE pc[p] \notin {"open", "choose", "call", "record", "count"}
    BY <1>t, <1>u, <1>15, <2>2 DEF Interrupt, Inside, Loop
  <2> QED BY <2>1, <2>2
<1>16. ASSUME NEW p \in Processes, Kill(p) PROVE CaseInv'
  <2>0. pc' = [pc EXCEPT ![p] = "ended"] /\ memory' = memory
    BY <1>16 DEF Kill
  <2>1. CASE pc[p] \in Inside
    <3>1. \A q \in Processes : pc'[q] \notin Inside
      BY <1>t, <1>o, <2>0, <2>1 DEF Inside, Loop
    <3>2. manifest'.status # "complete"
      <4>1. manifest' = manifest \/ manifest' = Damaged("torn")
        BY <1>16, Zenon DEF Kill
      <4>2. manifest.status # "complete"
        BY <1>0, <2>1 DEF OwnerInv
      <4> QED BY <4>1, <4>2 DEF Damaged
    <3>3. \A k \in DOMAIN records' : records'[k].execution_id = k
      <4>1. CASE pc[p] = "record"
        <5>1. records' = Line(p, "torn") /\ "torn" \in Marks
          BY <1>16, <4>1 DEF Kill, Marks
        <5>2. PICK n \in Nat : n = Len(records)
          BY <1>0 DEF TypeInv
        <5>3. /\ records' \in Seq(Lines) /\ Len(records') = n + 1
              /\ \A k \in 1..n : records'[k] = records[k]
              /\ records'[n + 1] = NewLine(p, "torn")
          BY <1>0, <5>1, <5>2, LineAppends
        <5>4. DOMAIN records = 1..n
          BY <1>0, <5>2 DEF TypeInv
        <5>5. DOMAIN records' = 1..(n + 1)
          BY <5>3
        <5>6. records'[n + 1].execution_id = n + 1
          BY <5>2, <5>3 DEF NewLine
        <5> QED BY <1>0, <5>2, <5>3, <5>4, <5>5, <5>6 DEF CaseInv
      <4>2. CASE pc[p] # "record"
        BY <1>0, <1>16, <4>2 DEF Kill, CaseInv
      <4> QED BY <4>1, <4>2
    <3> QED BY <1>k, <2>0, <3>1, <3>2, <3>3 DEF CaseInv, Inside, Loop
  <2>2. CASE pc[p] \notin Inside
    BY <1>t, <1>u, <1>16, <2>2 DEF Kill, Inside, Loop
  <2> QED BY <2>1, <2>2
<1>17. ASSUME NEW correct \in [Conditions -> SUBSET Questions], Score(correct) PROVE CaseInv'
  BY <1>u, <1>17 DEF Score
<1>18. CASE UNCHANGED vars
  BY <1>u, <1>18 DEF vars
<1> QED BY <1>1, <1>2, <1>3, <1>4, <1>5, <1>6, <1>7, <1>8, <1>9, <1>10, <1>11, <1>12,
           <1>13, <1>14, <1>15, <1>16, <1>17, <1>18 DEF Next

LEMMA Inductive == ASSUME StudyAssumption PROVE Spec => []IInv
<1>1. Init => IInv
  BY InitIInv
<1>2. IInv /\ [Next]_vars => IInv'
  <2> SUFFICES ASSUME IInv, [Next]_vars PROVE IInv'
    OBVIOUS
  <2>1. TypeInv' /\ OwnerInv'
    BY TypeKept, OwnerKept
  <2> QED BY <2>1, RecordsKept, CountKept, CompleteKept, CaseKept DEF IInv
<1> QED BY <1>1, <1>2, PTL DEF Spec

\* What was counted are records that are not torn: there are at least as many.
LEMMA CountedAreWhole ==
  ASSUME TypeInv, NEW n \in Nat, Counted(n)
  PROVE  n <= Cardinality({k \in DOMAIN records : records[k].text # "torn"})
<1> DEFINE S == {k \in DOMAIN records : records[k].text # "torn"}
<1>1. Len(records) \in Nat /\ DOMAIN records = 1..Len(records)
  BY DEF TypeInv
<1>2. S \subseteq 1..Len(records) /\ 1..n \subseteq S
  BY <1>1 DEF Counted
<1>3. IsFiniteSet(1..Len(records))
  BY <1>1, FS_Interval
<1>4. IsFiniteSet(S)
  BY <1>2, <1>3, FS_Subset
<1>5. Cardinality(1..n) <= Cardinality(S)
  BY <1>2, <1>4, FS_Subset
<1>6. Cardinality(1..n) = n
  BY FS_Interval
<1> QED BY <1>5, <1>6

\* A manifest that says complete is that of a run which recorded every condition
\* of every repeat once for the case it froze, and which load_complete_run() accepts
\* unless a record holds a separator of lines; and none counts a call whose record
\* is missing or torn: for every number of processes, repeats and questions,
\* wherever a process is stopped.
THEOREM CompleteRunIsLoadable == ASSUME StudyAssumption PROVE Spec => []CompleteRunLoads
<1>1. IInv => CompleteRunLoads
  <2> SUFFICES ASSUME IInv PROVE CompleteRunLoads
    OBVIOUS
  <2>1. TypeInv /\ CountInv /\ CompleteInv /\ CaseInv
    BY DEF IInv
  <2>2. manifest.completed <= Cardinality({k \in DOMAIN records : records[k].text # "torn"})
    BY <2>1, CountedAreWhole DEF TypeInv, Manifests, CountInv
  <2>3. ASSUME manifest.status = "complete"
        PROVE  /\ RecordsFit /\ manifest.completed = Len(records)
               /\ Loadable \/ \E k \in DOMAIN records : records[k].text = "separator"
    <3>1. FilesComplete /\ manifest.completed = Len(records)
      BY <2>1, <2>3 DEF CompleteInv
    <3>2. /\ frozen.case = manifest.case /\ OfCase(manifest.case)
          /\ \A k \in DOMAIN records : records[k].execution_id = k
      BY <2>1, <2>3 DEF CaseInv
    <3>3. RecordsFit
      BY <3>1, <3>2 DEF RecordsFit, FilesComplete, EachOnce, Recorded, OfCase
    <3>4. \A k \in DOMAIN records : records[k].text \in Marks /\ records[k].text # "torn"
      <4>1. \A k \in DOMAIN records : records[k] \in Lines
        BY <2>1 DEF TypeInv
      <4> QED BY <3>1, <4>1 DEF Lines, FilesComplete, AllWhole
    <3> QED BY <2>3, <3>1, <3>3, <3>4 DEF Loadable, Readable, Marks
  <2> QED BY <2>2, <2>3 DEF CompleteRunLoads
<1> QED BY <1>1, Inductive, PTL

-----------------------------------------------------------------------------
\* Gains less losses is the difference of the totals.
LEMMA NetIsDifference ==
  ASSUME NEW S, NEW T, IsFiniteSet(S), IsFiniteSet(T)
  PROVE  NetRecovery(S, T) = Cardinality(T) - Cardinality(S)
<1>1. /\ Cardinality(T \ S) = Cardinality(T) - Cardinality(T \cap S)
      /\ Cardinality(S \ T) = Cardinality(S) - Cardinality(S \cap T)
  BY FS_Difference
<1>2. T \cap S = S \cap T
  OBVIOUS
<1>3. /\ Cardinality(T) \in Nat /\ Cardinality(S) \in Nat
      /\ Cardinality(T \cap S) \in Nat
  BY FS_CardinalityType, FS_Intersection
<1>4. NetRecovery(S, T) = Cardinality(T \ S) - Cardinality(S \ T)
  BY Zenon DEF NetRecovery, Net
<1> QED BY <1>1, <1>2, <1>3, <1>4

\* What score() reports as recovered net of regressed questions is the difference
\* of the correct answers, and the interaction is A and B together beyond each
\* alone, whatever the judgments say.
THEOREM ScoresAreDifferences ==
  ASSUME IsFiniteSet(Questions) PROVE Spec => []NetRecoveryIsDifference
<1>1. Init => NetRecoveryIsDifference
  BY DEF Init, NetRecoveryIsDifference
<1>2. NetRecoveryIsDifference /\ [Next]_vars => NetRecoveryIsDifference'
  <2> SUFFICES ASSUME NetRecoveryIsDifference, [Next]_vars PROVE NetRecoveryIsDifference'
    OBVIOUS
  <2>1. CASE UNCHANGED scored
    BY <2>1 DEF NetRecoveryIsDifference, Correct
  <2>2. ASSUME NEW correct \in [Conditions -> SUBSET Questions], Score(correct)
        PROVE  NetRecoveryIsDifference'
    <3>1. \A c \in Conditions : IsFiniteSet(correct[c]) /\ Cardinality(correct[c]) \in Nat
      BY FS_Subset, FS_CardinalityType
    <3>2. {"baseline", "A", "B", "AB"} \subseteq Conditions
      BY DEF Conditions, CONDITIONS
    <3>3. \A c \in Conditions :
            NetRecovery(correct["baseline"], correct[c]) = Cardinality(correct[c]) - Cardinality(correct["baseline"])
      BY <3>1, <3>2, NetIsDifference
    <3>4. /\ scored'.correct = correct
          /\ scored'.net = [c \in Conditions |-> NetRecovery(correct["baseline"], correct[c])]
          /\ scored'.interaction = scored'.net["AB"] - scored'.net["A"] - scored'.net["B"]
      BY <2>2 DEF Score
    <3>5. \A c \in Conditions : scored'.net[c] = Cardinality(correct[c]) - Cardinality(correct["baseline"])
      BY <3>3, <3>4
    <3>6. scored'.interaction =
            Cardinality(correct["AB"]) - Cardinality(correct["A"])
              - Cardinality(correct["B"]) + Cardinality(correct["baseline"])
      BY <3>1, <3>2, <3>4, <3>5
    <3> QED BY <3>4, <3>5, <3>6 DEF NetRecoveryIsDifference, Correct
  <2>3. CASE Next
    <3>1. UNCHANGED scored \/ \E correct \in [Conditions -> SUBSET Questions] : Score(correct)
      BY <2>3 DEF Next, Check, MakeDirectory, FirstManifest, Freeze, OpenRecords, Choose, NextRepeat,
                  CallReturns, CallFails, Record, RecordFails, Count, Finish, Finally, Interrupt, Kill
    <3> QED BY <2>1, <2>2, <3>1
  <2> QED BY <2>1, <2>3 DEF vars
<1> QED BY <1>1, <1>2, PTL DEF Spec

\* Both together, as the run of the services checks them (pilot.py:458, :628).
THEOREM PilotIsSound ==
  ASSUME StudyAssumption, IsFiniteSet(Questions) PROVE Spec => []StudyIsSound
<1>1. CompleteRunLoads /\ NetRecoveryIsDifference => StudyIsSound
  BY DEF StudyIsSound
<1>2. Spec => []CompleteRunLoads
  BY CompleteRunIsLoadable
<1>3. Spec => []NetRecoveryIsDifference
  BY ScoresAreDifferences
<1> QED BY <1>1, <1>2, <1>3, PTL
=============================================================================

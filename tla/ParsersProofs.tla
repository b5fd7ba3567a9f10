---------------------------- MODULE ParsersProofs ----------------------------
(***************************************************************************)
(* What the parser adapters return and leave behind, for documents of any  *)
(* length, any result types and any number of status requests and of       *)
(* cancellations: the Synap adapter all pages in order and no conversion   *)
(* on the server, a command parser no process and no config.json; the      *)
(* pages and the normalizers every block in its place.  Each is proved of  *)
(* the module by itself, then of the behaviours of MCParsers, where the    *)
(* adapters share the state of the call.  Last, the files that the parsers *)
(* leave behind become the result of a run, and ResultStorage implements   *)
(* PublishedResult.                                                        *)
(***************************************************************************)
EXTENDS MCParsers, Positions, FiniteSetTheorems, FunctionTheorems, TLAPS

-----------------------------------------------------------------------------
(* The Synap adapter *)

\* Once the fid is known the call cannot end but through the delete request; a
\* conversion without a known fid was lost when it was submitted.
RemoteInv ==
    /\ at \in {"idle", "submit"} => job = "none" /\ ~fid
    /\ at \in {"poll", "sleep", "archive", "page", "cleanup"} => fid
    /\ at # "ended" => cleaned = "unknown"
    /\ ~fid /\ job \notin {"none", "gone"} => lost
    /\ Synap!RemoteResultRemoved

LEMMA InitRemoteInv == Synap!Init => RemoteInv
BY DEF Synap!Init, RemoteInv, Synap!RemoteResultRemoved

\* The ways out of the try block: the delete request comes next if the fid is
\* known, and the call ends otherwise.
LEMMA Leaving ==
  ASSUME NEW e, Synap!Leave(e)
  PROVE  \/ fid /\ at' = "cleanup"
         \/ ~fid /\ at' = "ended"
BY DEF Synap!Leave, Synap!End

\* An interruption at an await before the finally clause.
LEMMA Aborted ==
  ASSUME RemoteInv, at \in Synap!Requests, NEW e, Synap!Abort(e)
  PROVE  RemoteInv'
<1>1. UNCHANGED <<fid, cleaned>>
  BY DEF Synap!Abort
<1>2. CASE at = "submit"
  BY <1>1, <1>2, Leaving DEF Synap!Abort, RemoteInv, Synap!RemoteResultRemoved
<1>3. CASE at # "submit"
  BY <1>1, <1>3, Leaving DEF Synap!Abort, RemoteInv, Synap!RemoteResultRemoved, Synap!Requests
<1> QED BY <1>2, <1>3

LEMMA NextRemoteInv == RemoteInv /\ [Synap!Next]_(Synap!vars) => RemoteInv'
<1> SUFFICES ASSUME RemoteInv, [Synap!Next]_(Synap!vars) PROVE RemoteInv'
  OBVIOUS
<1> USE DEF RemoteInv, Synap!RemoteResultRemoved
<1>1. ASSUME NEW valid \in BOOLEAN, Synap!Begin(valid) PROVE RemoteInv'
  BY <1>1 DEF Synap!Begin, Synap!Go, Synap!End
<1>2. CASE Synap!SubmitAnswered
  <2>1. CASE fid' = TRUE /\ job' = "working" /\ Synap!Go("poll") /\ UNCHANGED lost
    BY <1>2, <2>1 DEF Synap!SubmitAnswered, Synap!Go
  <2>2. ASSUME NEW e \in Synap!Unusable, fid' = FALSE, Synap!Leave(e),
               job' \in {"none", "working"}, lost' = (job' # "none")
        PROVE  RemoteInv'
    BY <1>2, <2>2, Leaving DEF Synap!SubmitAnswered
  <2> QED BY <1>2, <2>1, <2>2 DEF Synap!SubmitAnswered
<1>3. CASE Synap!Polled
  <2>1. at' \in {"sleep", "archive", "page", "cleanup"}
    BY <1>3, Leaving DEF Synap!Polled, Synap!Go
  <2> QED BY <1>3, <2>1 DEF Synap!Polled
<1>4. CASE Synap!Slept
  BY <1>4 DEF Synap!Slept, Synap!Go
<1>5. CASE Synap!ArchiveAnswered
  <2>1. at' = "cleanup"
    BY <1>5, Leaving DEF Synap!ArchiveAnswered
  <2> QED BY <1>5, <2>1 DEF Synap!ArchiveAnswered
<1>6. CASE Synap!PageAnswered
  <2>1. at' \in {"page", "cleanup"}
    BY <1>6, Leaving DEF Synap!PageAnswered, Synap!Go
  <2> QED BY <1>6, <2>1 DEF Synap!PageAnswered
<1>7. CASE Synap!CleanupAnswered
  BY <1>7 DEF Synap!CleanupAnswered, Synap!Finish, Synap!End
<1>8. CASE Synap!Limit
  BY <1>8, Aborted DEF Synap!Limit
<1>9. CASE Synap!Interrupt
  <2>1. CASE at \in Synap!Requests /\ Synap!Abort("cancelled")
    BY <2>1, Aborted
  <2>2. CASE at = "cleanup" /\ Synap!End("cancelled") /\ job' \in {job, "gone"} /\ lost' = TRUE
    BY <1>9, <2>2 DEF Synap!Interrupt, Synap!End, Synap!Requests
  <2> QED BY <1>9, <2>1, <2>2 DEF Synap!Interrupt
<1>10. CASE Synap!JobAdvances
  BY <1>10 DEF Synap!JobAdvances
<1>11. CASE UNCHANGED Synap!vars
  BY <1>11 DEF Synap!vars
<1> QED BY <1>1, <1>2, <1>3, <1>4, <1>5, <1>6, <1>7, <1>8, <1>9, <1>10, <1>11 DEF Synap!Next

\* A call leaves a conversion on the server only if the delete request could not
\* be sent or was not carried out, and never one it reports as cleaned up.
THEOREM ConversionIsRemoved == Synap!Spec => []Synap!RemoteResultRemoved
<1>1. RemoteInv => Synap!RemoteResultRemoved
  BY DEF RemoteInv
<1> QED BY <1>1, InitRemoteInv, NextRemoteInv, PTL DEF Synap!Spec

-----------------------------------------------------------------------------
(* The pages the Synap adapter returns *)

\* What has been kept after n requests for page results: their responses, and of
\* the pages those of the first round, in order.
Response ==
    [type : STRING \cup {"json", "bundle"}, page : Nat, ending : {"zip", "md", "other"}]
Expected(as, kinds, t, n) ==
    /\ as \in Seq(Response) /\ Len(as) = n
    /\ \A i \in 1..n : /\ as[i].type = kinds[((i - 1) \div t) + 1]
                       /\ as[i].page = ((i - 1) % t) + 1
PagesUpTo(s, n) ==
    /\ {s[i].of : i \in DOMAIN s} = 1..n
    /\ \A i \in 1..Len(s) - 1 : s[i].of <= s[i + 1].of
Kept(as, s, kinds, t, n) ==
    Expected(as, kinds, t, n) /\ PagesUpTo(s, IF n < t THEN n ELSE t)

\* The requests stand behind the responses kept, and the delete that follows a
\* call without an error behind all of them.
PagesInv ==
    /\ config \in Synap!Configs
    /\ pages \in Seq([of : Nat, number : Nat])
    /\ at # "ended" => result = "none" /\ raised # "returned"
    /\ at \in {"idle", "submit", "poll", "sleep"} => cursor = 0 /\ pages = <<>> /\ artifacts = <<>>
    /\ at = "archive" => config.delivery = "archive"
    /\ at = "page" =>
        /\ total \in 1..MaxPages
        /\ cursor \in 0..Len(Synap!Kinds) * total - 1
        /\ Kept(artifacts, pages, Synap!Kinds, total, cursor)
    /\ at = "cleanup" /\ raised = "none" /\ config.delivery = "pages" =>
        /\ total \in 1..MaxPages
        /\ Kept(artifacts, pages, Synap!Kinds, total, Len(Synap!Kinds) * total)
    /\ Synap!PagesInOrder

\* The first kind is json, and no other.
LEMMA KindsAreDistinct ==
  ASSUME config \in Synap!Configs
  PROVE  /\ Synap!Kinds \in Seq(STRING \cup {"json"}) /\ Len(Synap!Kinds) \in Nat \ {0}
         /\ \A n \in 1..Len(Synap!Kinds) : Synap!Kinds[n] = "json" <=> n = 1
<1> DEFINE Names == STRING \cup {"json"}
           types == config.types
           json == {n \in DOMAIN types : types[n] = "json"}
           size == IF json = {} THEN Len(types) + 1 ELSE Len(types)
           kinds == [n \in 1..size |-> IF n = 1 THEN "json"
                        ELSE IF \A m \in json : n <= m THEN types[n - 1] ELSE types[n]]
<1>1. types \in Seq(STRING) /\ \A i, j \in DOMAIN types : types[i] = types[j] => i = j
  BY TypeListsAssumption DEF Synap!Configs
<1>2. Synap!Kinds = kinds
  BY DEF Synap!Kinds
<1>3. size \in Nat \ {0} /\ size <= Len(types) + 1
  BY <1>1
<1>4. ASSUME NEW n \in 2..size PROVE kinds[n] \in STRING /\ kinds[n] # "json"
  <2>1. CASE \A m \in json : n <= m
    <3>1. n - 1 \in 1..Len(types) /\ n - 1 \notin json
      BY <1>1, <1>3, <1>4, <2>1
    <3>2. kinds[n] = types[n - 1]
      BY <1>1, <1>3, <1>4, <2>1
    <3> QED BY <1>1, <3>1, <3>2
  <2>2. CASE ~\A m \in json : n <= m
    <3>1. PICK m \in json : ~(n <= m)
      BY <2>2
    <3>2. n \in 1..Len(types) /\ m \in 1..Len(types) /\ n # m
      BY <1>1, <1>4, <3>1
    <3>3. n \notin json
      BY <1>1, <3>2
    <3>4. kinds[n] = types[n]
      BY <1>1, <1>3, <1>4, <2>2
    <3> QED BY <1>1, <3>2, <3>3, <3>4
  <2> QED BY <2>1, <2>2
<1>5. kinds[1] = "json"
  BY <1>3
<1> HIDE DEF size
<1>6. DOMAIN kinds = 1..size
  OBVIOUS
<1>7. kinds \in [1..size -> Names]
  <2>1. \A n \in 1..size : n = 1 \/ n \in 2..size
    BY <1>3
  <2>2. \A n \in 1..size : kinds[n] \in Names
    BY <1>4, <1>5, <2>1
  <2> QED BY <2>2
<1> HIDE DEF kinds
<1>8. kinds \in Seq(Names) /\ Len(kinds) = size
  BY <1>3, <1>6, <1>7
<1>9. \A n \in 1..size : kinds[n] = "json" <=> n = 1
  <2>1. \A n \in 1..size : n = 1 \/ n \in 2..size
    BY <1>3
  <2> QED BY <1>3, <1>4, <1>5, <2>1
<1> QED BY <1>2, <1>3, <1>8, <1>9

\* The rounds of the requests: the first is the one for json.
LEMMA Rounds ==
  ASSUME NEW k \in Nat \ {0}, NEW t \in Nat \ {0}, NEW n \in 0..k * t - 1
  PROVE  /\ (n \div t) + 1 \in 1..k /\ (n % t) + 1 \in 1..t
         /\ (n \div t) + 1 = 1 <=> n < t
         /\ n < t => (n % t) + 1 = n + 1
         /\ t <= k * t
OBVIOUS

\* The pages of the next request follow those kept so far.
LEMMA PagesFollow ==
  ASSUME NEW P, NEW s \in Seq(P), NEW t \in Seq(P),
         NEW n \in Nat, PagesUpTo(s, n), Len(t) > 0, \A i \in 1..Len(t) : t[i].of = n + 1
  PROVE  s \o t \in Seq(P) /\ PagesUpTo(s \o t, n + 1)
<1> DEFINE u == s \o t
           a == Len(s)
           b == Len(t)
<1>0. a \in Nat /\ b \in Nat /\ b > 0 /\ DOMAIN s = 1..a /\ DOMAIN t = 1..b
  OBVIOUS
<1>1. /\ u \in Seq(P) /\ Len(u) = a + b /\ DOMAIN u = 1..a + b
      /\ \A i \in 1..a : u[i] = s[i]
      /\ \A i \in a + 1..a + b : u[i] = t[i - a]
  OBVIOUS
<1>2. /\ \A i \in 1..a : s[i].of \in 1..n
      /\ \A p \in 1..n : \E i \in 1..a : s[i].of = p
      /\ \A i \in 1..a - 1 : s[i].of <= s[i + 1].of
      /\ \A i \in 1..b : t[i].of = n + 1
  BY <1>0 DEF PagesUpTo
<1> HIDE DEF u, a, b
<1>3. /\ \A i \in 1..a : u[i].of \in 1..n
      /\ \A i \in a + 1..a + b : u[i].of = n + 1
  <2>1. \A i \in a + 1..a + b : i - a \in 1..b
    BY <1>0
  <2>2. ASSUME NEW i \in a + 1..a + b PROVE u[i].of = n + 1
    <3>1. u[i] = t[i - a]
      BY <1>1
    <3> QED BY <1>2, <2>1, <3>1
  <2> QED BY <1>0, <1>1, <1>2, <2>2
<1>4. {u[i].of : i \in DOMAIN u} = 1..n + 1
  <2>1. ASSUME NEW i \in 1..a + b PROVE u[i].of \in 1..n + 1
    <3>1. i \in 1..a \/ i \in a + 1..a + b
      BY <1>0
    <3> QED BY <1>3, <3>1
  <2>2. ASSUME NEW p \in 1..n + 1 PROVE \E i \in 1..a + b : u[i].of = p
    <3>1. CASE p \in 1..n
      <4>1. PICK i \in 1..a : s[i].of = p
        BY <1>2, <3>1
      <4>2. i \in 1..a + b /\ u[i] = s[i]
        BY <1>0, <1>1, <4>1
      <4> QED BY <4>1, <4>2
    <3>2. CASE p = n + 1
      <4>1. a + 1 \in 1..a + b /\ a + 1 \in a + 1..a + b
        BY <1>0
      <4> QED BY <1>3, <3>2, <4>1
    <3> QED BY <3>1, <3>2
  <2> QED BY <1>1, <2>1, <2>2
<1>5. \A i \in 1..a + b - 1 : u[i].of <= u[i + 1].of
  <2> SUFFICES ASSUME NEW i \in 1..a + b - 1 PROVE u[i].of <= u[i + 1].of
    OBVIOUS
  <2>1. CASE i + 1 <= a
    <3>1. i \in 1..a - 1 /\ i \in 1..a /\ i + 1 \in 1..a
      BY <1>0, <2>1
    <3> QED BY <1>1, <1>2, <3>1
  <2>2. CASE i + 1 > a
    <3>1. i + 1 \in a + 1..a + b /\ (i \in 1..a \/ i \in a + 1..a + b)
      BY <1>0, <2>2
    <3> QED BY <1>3, <3>1
  <2> QED BY <1>0, <2>1, <2>2
<1>6. PagesUpTo(u, n + 1)
  BY <1>0, <1>1, <1>4, <1>5 DEF PagesUpTo
<1> QED BY <1>1, <1>6 DEF u

LEMMA MoreRounds ==
  ASSUME NEW k \in Nat \ {0}, NEW t \in Nat \ {0}
  PROVE  k * t \in Nat /\ k * t >= t
OBVIOUS

LEMMA InitPagesInv == Synap!Init => PagesInv
BY DEF Synap!Init, PagesInv, Synap!PagesInOrder

\* A call that has kept the answers of every round has what it is to return.
LEMMA WholeIsInOrder ==
  ASSUME config \in Synap!Configs, total \in 1..MaxPages,
         Kept(artifacts, pages, Synap!Kinds, total, Len(Synap!Kinds) * total)
  PROVE  Expected(artifacts, Synap!Kinds, total, Len(Synap!Kinds) * total)
         /\ PagesUpTo(pages, total)
<1> DEFINE k == Len(Synap!Kinds)
<1>1. k \in Nat \ {0} /\ total \in Nat \ {0}
  BY KindsAreDistinct, PagesAssumption
<1>2. Expected(artifacts, Synap!Kinds, total, k * total)
  BY DEF Kept
<1>3. PagesUpTo(pages, total)
  <2> HIDE DEF k
  <2>1. k * total >= total
    BY <1>1, MoreRounds
  <2>2. (IF k * total < total THEN k * total ELSE total) = total
    BY <1>1, <2>1
  <2> QED BY <2>2 DEF Kept, k
<1> QED BY <1>2, <1>3

\* The property again once the call has returned it, with the bundle or without.
LEMMA ReturnedInOrder ==
  ASSUME UNCHANGED <<config, total, pages>>, artifacts' = Synap!Bundled,
         config \in Synap!Configs, total \in Nat \ {0},
         Expected(artifacts, Synap!Kinds, total, Len(Synap!Kinds) * total),
         PagesUpTo(pages, total)
  PROVE  Synap!PagesInOrder'
<1> DEFINE n == Len(Synap!Kinds) * total
           bundled == [type |-> "bundle", page |-> 0, ending |-> "zip"]
<1>1. Synap!Kinds' = Synap!Kinds
  BY DEF Synap!Kinds
<1>2. n \in Nat \ {0} /\ Len(Synap!Kinds) \in Nat \ {0}
  <2>1. Len(Synap!Kinds) \in Nat \ {0}
    BY KindsAreDistinct
  <2> QED BY <2>1, MoreRounds
<1>3. n' = n
  BY <1>1
<1> HIDE DEF n
<1>4. artifacts \in Seq(Response) /\ Len(artifacts) = n /\ artifacts # <<>>
  BY <1>2 DEF Expected, n
<1>5. bundled \in Response /\ bundled.type = "bundle" /\ bundled.ending = "zip"
  BY DEF Response
<1> HIDE DEF bundled
<1>6. CASE artifacts' = Append(artifacts, bundled)
  <2>1. /\ Len(artifacts') = n + 1 /\ artifacts'[n + 1] = bundled
        /\ \A i \in 1..n : artifacts'[i] = artifacts[i]
        /\ n + 1 \in DOMAIN artifacts'
    BY <1>2, <1>4, <1>5, <1>6
  <2>2. \A i \in 1..n : /\ artifacts'[i].type = Synap!Kinds[((i - 1) \div total) + 1]
                        /\ artifacts'[i].page = ((i - 1) % total) + 1
    BY <2>1 DEF Expected, n
  <2> QED BY <1>1, <1>3, <1>5, <2>1, <2>2 DEF Synap!PagesInOrder, PagesUpTo, n
<1>7. CASE ~(artifacts' = Append(artifacts, bundled))
  <2>1. artifacts' = artifacts
    BY <1>7 DEF Synap!Bundled, bundled
  <2>2. config.bundle => \E i \in DOMAIN artifacts : artifacts[i].ending = "zip"
    BY <1>4, <1>7 DEF Synap!Bundled, bundled, Synap!Configs
  <2> QED BY <1>1, <1>3, <1>4, <2>1, <2>2 DEF Synap!PagesInOrder, PagesUpTo, Expected, n
<1> QED BY <1>6, <1>7

\* The pages read from an answer are pages of that answer.
LEMMA PagesAreNumbered ==
  ASSUME NEW of \in Nat, NEW n, NEW t \in [1..n -> [of : {of}, number : 0..MaxPages]]
  PROVE  t \in [1..n -> [of : Nat, number : Nat]] /\ \A i \in 1..n : t[i].of = of
<1>1. \A r \in [of : {of}, number : 0..MaxPages] :
          r \in [of : Nat, number : Nat] /\ r.of = of
  BY PagesAssumption
<1>2. \A i \in 1..n : t[i] \in [of : {of}, number : 0..MaxPages]
  OBVIOUS
<1>3. \A i \in 1..n : t[i] \in [of : Nat, number : Nat] /\ t[i].of = of
  BY <1>1, <1>2
<1>4. t = [i \in 1..n |-> t[i]]
  OBVIOUS
<1> QED BY <1>3, <1>4

\* The answer to a request for a page, kept.
LEMMA PageIsKept ==
  ASSUME PagesInv, at = "page", NEW ending \in Synap!Endings(Synap!Type),
         Synap!Keep(Synap!Type, Synap!Page, ending),
         IF Synap!Type = "json"
         THEN \E s \in Synap!Answers(Synap!Page, IF ending = "zip" THEN 1..MaxPages ELSE {1}) :
                  pages' = pages \o s
         ELSE UNCHANGED pages
  PROVE  pages' \in Seq([of : Nat, number : Nat])
         /\ Kept(artifacts', pages', Synap!Kinds, total, cursor + 1)
<1> DEFINE k == Len(Synap!Kinds)
           m == IF cursor < total THEN cursor ELSE total
           P == [of : Nat, number : Nat]
<1>1. k \in Nat \ {0} /\ \A n \in 1..k : Synap!Kinds[n] = "json" <=> n = 1
  BY KindsAreDistinct DEF PagesInv
<1>2. /\ total \in Nat \ {0} /\ cursor \in 0..k * total - 1
      /\ Kept(artifacts, pages, Synap!Kinds, total, cursor) /\ pages \in Seq(P)
  BY PagesAssumption DEF PagesInv
<1>a. Synap!Kinds \in Seq(STRING \cup {"json"})
  BY KindsAreDistinct DEF PagesInv
<1> HIDE DEF k
<1>3. /\ (cursor \div total) + 1 \in 1..k /\ Synap!Page \in 1..total
      /\ (cursor \div total) + 1 = 1 <=> cursor < total
      /\ cursor < total => Synap!Page = cursor + 1
  BY <1>1, <1>2, Rounds DEF Synap!Page
<1>4. Synap!Type = "json" <=> cursor < total
  BY <1>1, <1>3 DEF Synap!Type
<1>5. Expected(artifacts', Synap!Kinds, total, cursor + 1)
  <2> DEFINE r == [type |-> Synap!Type, page |-> Synap!Page, ending |-> ending]
             e(a, i) == /\ a[i].type = Synap!Kinds[((i - 1) \div total) + 1]
                        /\ a[i].page = ((i - 1) % total) + 1
  <2>1. artifacts \in Seq(Response) /\ Len(artifacts) = cursor /\ cursor \in Nat
        /\ \A i \in 1..cursor : e(artifacts, i)
    BY <1>2 DEF Kept, Expected
  <2>2. r \in Response
    <3>1. Synap!Type \in STRING \cup {"json", "bundle"}
      BY <1>3, <1>a DEF Synap!Type, k
    <3>2. Synap!Page \in Nat
      BY <1>2, <1>3
    <3>3. ending \in {"zip", "md", "other"}
      BY DEF Synap!Endings
    <3> QED BY <3>1, <3>2, <3>3 DEF Response
  <2>3. r.type = Synap!Kinds[(cursor \div total) + 1] /\ r.page = (cursor % total) + 1
    BY DEF Synap!Type, Synap!Page
  <2>4. artifacts' = Append(artifacts, r)
    BY DEF Synap!Keep
  <2> HIDE DEF r
  <2>5. /\ artifacts' \in Seq(Response) /\ Len(artifacts') = cursor + 1
        /\ artifacts'[cursor + 1] = r
        /\ \A i \in 1..cursor : artifacts'[i] = artifacts[i]
    BY <2>1, <2>2, <2>4
  <2>6. (cursor + 1) - 1 = cursor
    BY <2>1
  <2>7. e(artifacts', cursor + 1)
    BY <2>3, <2>5, <2>6
  <2>8. \A i \in 1..cursor + 1 : i \in 1..cursor \/ i = cursor + 1
    BY <2>1
  <2>9. \A i \in 1..cursor : e(artifacts', i)
    BY <2>1, <2>5
  <2> HIDE DEF e
  <2>10. \A i \in 1..cursor + 1 : e(artifacts', i)
    BY <2>7, <2>8, <2>9
  <2> QED BY <2>5, <2>10 DEF e, Expected
<1>6. PagesUpTo(pages, m) /\ m \in Nat
  BY <1>2 DEF Kept
<1>7. CASE cursor < total
  <2>1. PICK t \in Seq(P) : /\ Len(t) > 0 /\ \A i \in 1..Len(t) : t[i].of = Synap!Page
                            /\ pages' = pages \o t
    <3>1. PICK N : N = IF ending = "zip" THEN 1..MaxPages ELSE {1}
      OBVIOUS
    <3>2. PICK t \in Synap!Answers(Synap!Page, N) : pages' = pages \o t
      BY <1>4, <1>7, <3>1
    <3>3. PICK n \in N : t \in [1..n -> [of : {Synap!Page}, number : 0..MaxPages]]
      BY <3>2 DEF Synap!Answers
    <3>4. n \in Nat /\ n > 0
      BY <3>1, PagesAssumption
    <3>5. t \in [1..n -> P] /\ \A i \in 1..n : t[i].of = Synap!Page
      <4>1. PICK of : of = Synap!Page
        OBVIOUS
      <4>2. of \in Nat /\ t \in [1..n -> [of : {of}, number : 0..MaxPages]]
        BY <1>2, <1>3, <3>3, <4>1
      <4>3. t \in [1..n -> P] /\ \A i \in 1..n : t[i].of = of
        BY ONLY <4>2, PagesAreNumbered
      <4> QED BY <4>1, <4>3
    <3>6. t \in Seq(P) /\ Len(t) = n
      <4> HIDE DEF P
      <4> QED BY <3>4, <3>5
    <3> QED BY <3>2, <3>4, <3>5, <3>6
  <2>2. m = cursor /\ Synap!Page = m + 1
    BY <1>3, <1>7
  <2>3. pages' \in Seq(P) /\ PagesUpTo(pages', m + 1)
    BY <1>2, <1>6, <2>1, <2>2, PagesFollow
  <2>4. (IF cursor + 1 < total THEN cursor + 1 ELSE total) = m + 1
    BY <1>2, <1>7, <2>2
  <2> QED BY <1>5, <2>3, <2>4 DEF Kept
<1>8. CASE ~(cursor < total)
  <2>1. pages' = pages
    BY <1>4, <1>8
  <2>2. (IF cursor + 1 < total THEN cursor + 1 ELSE total) = m
    BY <1>2, <1>8
  <2> QED BY <1>2, <1>5, <1>6, <2>1, <2>2 DEF Kept
<1> QED BY <1>7, <1>8

\* An error that leaves the try block, its conversion known, keeps no result.
LEMMA FailureKeepsNothing ==
  ASSUME PagesInv, at \in Synap!Requests, fid, NEW e, e \notin {"none", "returned"}, Synap!Leave(e),
         UNCHANGED <<config, pages>>
  PROVE  PagesInv'
<1>1. at' = "cleanup" /\ raised' = e /\ result' = "none"
  BY DEF Synap!Leave, PagesInv, Synap!Requests
<1> QED BY <1>1 DEF PagesInv, Synap!PagesInOrder

\* Nor does an interruption before the finally clause, its conversion known or not.
LEMMA InterruptionKeepsNothing ==
  ASSUME PagesInv, at \in Synap!Requests, NEW e \in {"PARSER_TIMEOUT", "cancelled"},
         Synap!Abort(e)
  PROVE  PagesInv'
<1>1. Synap!Leave(e) /\ UNCHANGED <<config, pages>>
  BY DEF Synap!Abort, Synap!answers
<1>2. CASE fid
  BY <1>1, <1>2, FailureKeepsNothing
<1>3. CASE ~fid
  <2>1. at' = "ended" /\ result' = e
    BY <1>1, <1>3 DEF Synap!Leave, Synap!End
  <2> QED BY <1>1, <2>1 DEF PagesInv, Synap!PagesInOrder
<1> QED BY <1>2, <1>3

\* Before the first request for a page nothing is kept, and nothing expected.
LEMMA NothingYet ==
  ASSUME NEW t \in Nat \ {0}, NEW kinds
  PROVE  Kept(<<>>, <<>>, kinds, t, 0)
<1>1. Expected(<<>>, kinds, t, 0)
  BY DEF Expected
<1> QED BY <1>1 DEF Kept, PagesUpTo

\* The conversion goes on: nothing of the call changes.
LEMMA PagesStand ==
  ASSUME PagesInv, UNCHANGED <<at, config, total, cursor, pages, artifacts, raised, result>>
  PROVE  PagesInv'
<1>1. Synap!Kinds' = Synap!Kinds
  BY DEF Synap!Kinds
<1>2. Synap!PagesInOrder'
  BY <1>1 DEF PagesInv, Synap!PagesInOrder
<1> QED BY <1>1, <1>2 DEF PagesInv, Kept, Expected, PagesUpTo

LEMMA NextPagesInv == RemoteInv /\ PagesInv /\ [Synap!Next]_(Synap!vars) => PagesInv'
<1> SUFFICES ASSUME RemoteInv, PagesInv, [Synap!Next]_(Synap!vars) PROVE PagesInv'
  OBVIOUS
<1>0. at \in {"poll", "sleep", "archive", "page"} => fid
  BY DEF RemoteInv
<1>1. ASSUME NEW valid \in BOOLEAN, Synap!Begin(valid) PROVE PagesInv'
  BY <1>1 DEF Synap!Begin, Synap!Go, Synap!End, PagesInv, Synap!PagesInOrder, Synap!answers
<1>2. CASE Synap!SubmitAnswered
  BY <1>2 DEF Synap!SubmitAnswered, Synap!Leave, Synap!Unusable, Synap!Go, Synap!End, PagesInv,
              Synap!PagesInOrder, Synap!answers
<1>3. CASE Synap!Polled
  <2>1. fid /\ at \in Synap!Requests
    BY <1>0, <1>3 DEF Synap!Polled, Synap!Requests
  <2>2. cursor = 0 /\ pages = <<>> /\ artifacts = <<>>
        /\ at = "poll" /\ result = "none" /\ raised # "returned"
    BY <1>3 DEF Synap!Polled, PagesInv
  <2>3. UNCHANGED <<config, cursor, pages, artifacts>> /\ Synap!Kinds' = Synap!Kinds
    BY <1>3 DEF Synap!Polled, Synap!Kinds
  <2>4. ASSUME NEW e \in Synap!Unusable \cup {"PARSER_EXECUTION_FAILED"}, Synap!Leave(e)
        PROVE  PagesInv'
    <3>1. e \notin {"none", "returned"}
      BY DEF Synap!Unusable
    <3> QED BY <2>1, <2>3, <2>4, <3>1, FailureKeepsNothing
  <2>5. CASE Synap!Go("sleep")
    BY <2>2, <2>3, <2>5 DEF Synap!Go, PagesInv, Synap!PagesInOrder
  <2>6. CASE /\ total' \in 1..MaxPages
             /\ Synap!Go(IF config.delivery = "archive" THEN "archive" ELSE "page")
    <3>1. at' \in {"archive", "page"} /\ result' = "none" /\ raised' # "returned"
          /\ (at' = "archive" => config'.delivery = "archive")
      BY <2>2, <2>3, <2>6 DEF Synap!Go
    <3>2. Len(Synap!Kinds) \in Nat \ {0} /\ total' \in Nat \ {0}
      BY <2>6, KindsAreDistinct, PagesAssumption DEF PagesInv
    <3>3. Kept(artifacts', pages', Synap!Kinds', total', cursor')
      BY <2>2, <2>3, <3>2, NothingYet
    <3>4. cursor' \in 0..Len(Synap!Kinds') * total' - 1
      <4> DEFINE k == Len(Synap!Kinds)
      <4>1. k \in Nat \ {0} /\ total' \in Nat \ {0}
        BY <3>2
      <4> HIDE DEF k
      <4>2. k * total' \in Nat /\ k * total' >= total'
        BY ONLY <4>1, MoreRounds
      <4> QED BY <2>2, <2>3, <4>1, <4>2 DEF k
    <3> QED BY <2>3, <2>6, <3>1, <3>3, <3>4 DEF PagesInv, Synap!PagesInOrder
  <2> QED BY <1>3, <2>4, <2>5, <2>6 DEF Synap!Polled
<1>4. CASE Synap!Slept
  BY <1>4 DEF Synap!Slept, Synap!Go, PagesInv, Synap!PagesInOrder, Synap!answers
<1>5. CASE Synap!ArchiveAnswered
  <2>1. fid /\ at \in Synap!Requests /\ config.delivery = "archive" /\ result = "none"
    BY <1>0, <1>5 DEF Synap!ArchiveAnswered, Synap!Requests, PagesInv
  <2>2. UNCHANGED <<config, total, fid>>
    BY <1>5 DEF Synap!ArchiveAnswered
  <2>3. ASSUME NEW e \in Synap!Unusable, Synap!Leave(e), UNCHANGED pages PROVE PagesInv'
    <3>1. e \notin {"none", "returned"}
      BY DEF Synap!Unusable
    <3> QED BY <2>1, <2>2, <2>3, <3>1, FailureKeepsNothing
  <2>4. ASSUME Synap!Leave("none"), pages' \in Synap!Answers(0, 0..MaxPages)
        PROVE  PagesInv'
    <3>1. at' = "cleanup" /\ result' = "none" /\ raised' = "none"
      BY <2>1, <2>4 DEF Synap!Leave
    <3>2. PICK n \in 0..MaxPages : pages' \in [1..n -> [of : {0}, number : 0..MaxPages]]
      BY <2>4 DEF Synap!Answers
    <3>3. n \in Nat /\ pages' \in [1..n -> [of : Nat, number : Nat]]
      <4>1. PICK t : t = pages'
        OBVIOUS
      <4>2. t \in [1..n -> [of : {0}, number : 0..MaxPages]]
        BY <3>2, <4>1
      <4>3. t \in [1..n -> [of : Nat, number : Nat]]
        BY <4>2, PagesAreNumbered
      <4> QED BY <3>2, <4>1, <4>3, PagesAssumption
    <3>4. pages' \in Seq([of : Nat, number : Nat])
      <4> DEFINE P == [of : Nat, number : Nat]
      <4>1. n \in Nat /\ pages' \in [1..n -> P]
        BY <3>3
      <4> HIDE DEF P
      <4>2. pages' \in Seq(P)
        BY <4>1
      <4> QED BY <4>2 DEF P
    <3> QED BY <2>1, <2>2, <3>1, <3>4 DEF PagesInv, Synap!PagesInOrder
  <2> QED BY <1>5, <2>3, <2>4 DEF Synap!ArchiveAnswered
<1>6. CASE Synap!PageAnswered
  <2>1. /\ fid /\ at = "page" /\ at \in Synap!Requests
        /\ result = "none" /\ raised # "returned"
    BY <1>0, <1>6 DEF Synap!PageAnswered, Synap!Requests, PagesInv
  <2>2. UNCHANGED <<config, total, fid>> /\ cursor' = cursor + 1 /\ Synap!Kinds' = Synap!Kinds
    BY <1>6 DEF Synap!PageAnswered, Synap!Kinds
  <2>3. ASSUME NEW e \in Synap!Unkept, Synap!Leave(e), UNCHANGED pages PROVE PagesInv'
    <3>1. e \notin {"none", "returned"}
      BY DEF Synap!Unusable, Synap!Unkept
    <3> QED BY <2>1, <2>2, <2>3, <3>1, FailureKeepsNothing
  <2>4. ASSUME NEW ending \in Synap!Endings(Synap!Type),
               Synap!Keep(Synap!Type, Synap!Page, ending),
               IF Synap!LastRequest THEN Synap!Leave("none") ELSE Synap!Go("page"),
               IF Synap!Type = "json"
               THEN \E s \in Synap!Answers(Synap!Page, IF ending = "zip" THEN 1..MaxPages ELSE {1}) :
                        pages' = pages \o s
               ELSE UNCHANGED pages
        PROVE  PagesInv'
    <3>1. /\ pages' \in Seq([of : Nat, number : Nat])
          /\ Kept(artifacts', pages', Synap!Kinds', total', cursor')
      BY <2>1, <2>2, <2>4, PageIsKept
    <3>2. /\ total' \in 1..MaxPages /\ total \in Nat /\ config' \in Synap!Configs
          /\ cursor \in 0..Len(Synap!Kinds) * total - 1 /\ Len(Synap!Kinds) \in Nat
      BY <2>1, <2>2, KindsAreDistinct, PagesAssumption DEF PagesInv
    <3>3. CASE Synap!LastRequest
      <4>1. at' = "cleanup" /\ result' = "none" /\ raised' = "none"
        BY <2>1, <2>4, <3>3 DEF Synap!Leave
      <4>2. cursor' = Len(Synap!Kinds') * total'
        BY <2>2, <3>3 DEF Synap!LastRequest
      <4> QED BY <3>1, <3>2, <4>1, <4>2 DEF PagesInv, Synap!PagesInOrder
    <3>4. CASE ~Synap!LastRequest
      <4>1. at' = "page" /\ result' = "none" /\ raised' # "returned"
        BY <2>1, <2>4, <3>4 DEF Synap!Go
      <4>2. cursor' \in 0..Len(Synap!Kinds') * total' - 1
        <5> DEFINE c == Len(Synap!Kinds) * total
        <5>1. c \in Int /\ cursor \in 0..c - 1 /\ cursor + 1 # c
          BY <3>2, <3>4 DEF Synap!LastRequest
        <5>2. Len(Synap!Kinds') * total' = c
          BY <2>2
        <5> HIDE DEF c
        <5> QED BY <2>2, <5>1, <5>2
      <4> QED BY <3>1, <3>2, <4>1, <4>2 DEF PagesInv, Synap!PagesInOrder
    <3> QED BY <3>3, <3>4
  <2> QED BY <1>6, <2>3, <2>4 DEF Synap!PageAnswered
<1>7. CASE Synap!CleanupAnswered
  <2>1. /\ UNCHANGED <<config, total, pages>> /\ Synap!Kinds' = Synap!Kinds
        /\ at = "cleanup" /\ at' = "ended"
    BY <1>7 DEF Synap!CleanupAnswered, Synap!Finish, Synap!End, Synap!Kinds
  <2>2. CASE raised = "none" /\ Synap!Finish
    <3>1. CASE config.delivery = "pages"
      <4>1. /\ Expected(artifacts, Synap!Kinds, total, Len(Synap!Kinds) * total)
            /\ PagesUpTo(pages, total) /\ config \in Synap!Configs /\ total \in Nat \ {0}
        BY <2>1, <2>2, <3>1, WholeIsInOrder, PagesAssumption DEF PagesInv
      <4>2. Synap!PagesInOrder'
        BY <2>1, <2>2, <4>1, ReturnedInOrder DEF Synap!Finish
      <4> QED BY <2>1, <4>2 DEF PagesInv
    <3>2. CASE config.delivery # "pages"
      BY <2>1, <3>2 DEF PagesInv, Synap!PagesInOrder
    <3> QED BY <3>1, <3>2
  <2>3. CASE raised # "none" /\ Synap!End(raised)
    BY <2>1, <2>3 DEF Synap!End, PagesInv, Synap!PagesInOrder
  <2> QED BY <1>7, <2>2, <2>3 DEF Synap!CleanupAnswered
<1>8. CASE Synap!Limit
  BY <1>8, InterruptionKeepsNothing DEF Synap!Limit
<1>9. CASE Synap!Interrupt
  <2>1. CASE at \in Synap!Requests /\ Synap!Abort("cancelled")
    BY <2>1, InterruptionKeepsNothing
  <2>2. CASE at = "cleanup" /\ Synap!End("cancelled") /\ UNCHANGED <<config, Synap!answers>>
    BY <2>2 DEF Synap!End, Synap!answers, PagesInv, Synap!PagesInOrder
  <2> QED BY <1>9, <2>1, <2>2 DEF Synap!Interrupt
<1>10. CASE Synap!JobAdvances
  <2>1. UNCHANGED <<at, config, total, cursor, pages, artifacts, raised, result>>
    BY <1>10 DEF Synap!JobAdvances, Synap!answers
  <2> QED BY <2>1, PagesStand
<1>11. CASE UNCHANGED Synap!vars
  BY <1>11, PagesStand DEF Synap!vars
<1> QED BY <1>1, <1>2, <1>3, <1>4, <1>5, <1>6, <1>7, <1>8, <1>9, <1>10, <1>11
        DEF Synap!Next

-----------------------------------------------------------------------------
(* The command adapters *)

\* The parser runs only while the call waits for it, and a call that reaps it
\* has killed it or found it ended, after a time-out or a cancellation.
ChildInv ==
    /\ child = "running" => at = "talk"
    /\ at \in {"idle", "write", "spawn"} => child = "none"
    /\ at = "reap" => raised \in {"PARSER_TIMEOUT", "cancelled"}

\* config.json exists from the end of its writing to the finally clause; after
\* the call it exists only beside a thread nobody awaits any more, or where it could
\* not be written, used or removed.
ConfigInv ==
    /\ at = "idle" => file = "absent"
    /\ at = "write" => file = "writing"
    /\ at \in {"spawn", "talk", "reap"} => file = "present"
    /\ at = "unlink" => file = "removing"
    /\ at = "discover" => file = "absent"
    /\ file = "writing" => child = "none"
    /\ Command!ConfigIsRunScoped

CommandInv == Command!TypeOK /\ ChildInv /\ ConfigInv

LEMMA InitCommandInv == Command!Init => CommandInv
<1> SUFFICES ASSUME Command!Init PROVE CommandInv
  OBVIOUS
<1>1. Command!TypeOK
  <2>1. held \in BOOLEAN /\ limited \in BOOLEAN
    BY Zenon DEF Command!Init
  <2> QED BY <2>1 DEF Command!Init, Command!TypeOK, Command!Awaits, Command!Errors
<1>2. ChildInv /\ ConfigInv
  BY DEF Command!Init, ChildInv, ConfigInv, Command!ConfigIsRunScoped
<1> QED BY <1>1, <1>2 DEF CommandInv

\* An interruption at any await, by a cancellation or by the pipeline's limit.
LEMMA Interrupted ==
  ASSUME CommandInv, Command!CancelledError, UNCHANGED <<held, failedFile>>,
         cancels' \in Nat, limited' \in BOOLEAN
  PROVE  CommandInv'
<1> USE DEF CommandInv, Command!TypeOK, ChildInv, ConfigInv, Command!ConfigIsRunScoped,
            Command!Awaits, Command!Errors
<1>1. CASE at = "write" /\ Command!AbandonFile("write", "absent")
  BY <1>1 DEF Command!AbandonFile, Command!End
<1>2. CASE at = "spawn" /\ Command!Finally("cancelled") /\ UNCHANGED <<child, abandonedFile>>
  BY <1>2 DEF Command!Finally
<1>3. CASE /\ at = "talk" \/ (at = "reap" /\ raised = "PARSER_TIMEOUT")
           /\ IF child = "exited"
              THEN Command!Finally("cancelled") /\ UNCHANGED child
              ELSE Command!Reap("cancelled")
           /\ UNCHANGED abandonedFile
  BY <1>3 DEF Command!Finally, Command!Reap
<1>4. CASE /\ at = "reap" /\ raised = "cancelled" /\ Command!Finally("cancelled")
           /\ UNCHANGED <<child, abandonedFile>>
  BY <1>4 DEF Command!Finally
<1>5. CASE at = "unlink" /\ Command!AbandonFile("unlink", "present")
  BY <1>5 DEF Command!AbandonFile, Command!End
<1>6. CASE at = "discover" /\ Command!End("cancelled") /\ UNCHANGED <<child, file, abandonedFile>>
  BY <1>6 DEF Command!End
<1> QED BY <1>1, <1>2, <1>3, <1>4, <1>5, <1>6 DEF Command!CancelledError

LEMMA NextCommandInv == CommandInv /\ [Command!Next]_(Command!vars) => CommandInv'
<1> SUFFICES ASSUME CommandInv, [Command!Next]_(Command!vars) PROVE CommandInv'
  OBVIOUS
<1> USE DEF CommandInv, Command!TypeOK, ChildInv, ConfigInv, Command!ConfigIsRunScoped,
            Command!Awaits, Command!Errors, Command!timers, Command!files
<1>1. ASSUME NEW template \in BOOLEAN, Command!Begin(template) PROVE CommandInv'
  BY <1>1 DEF Command!Begin, Command!End
<1>2. CASE Command!ConfigWritten
  BY <1>2 DEF Command!ConfigWritten, Command!End
<1>3. CASE Command!Spawn
  BY <1>3 DEF Command!Spawn, Command!Finally
<1>4. CASE Command!Communicated
  BY <1>4 DEF Command!Communicated, Command!Silent, Command!Finally
<1>5. CASE Command!Reaped
  BY <1>5 DEF Command!Reaped, Command!Silent, Command!Finally
<1>6. CASE Command!TimeUp
  BY <1>6 DEF Command!TimeUp, Command!Silent, Command!Finally, Command!Reap
<1>7. CASE Command!ConfigRemoved
  BY <1>7 DEF Command!ConfigRemoved, Command!End
<1>8. CASE Command!Discovered
  BY <1>8 DEF Command!Discovered, Command!End
<1>9. CASE Command!Cancel
  BY <1>9, Interrupted DEF Command!Cancel
<1>10. CASE Command!Limit
  BY <1>10, Interrupted DEF Command!Limit
<1>11. CASE Command!Exit
  BY <1>11 DEF Command!Exit
<1>12. CASE Command!Release
  <2>1. held' \in BOOLEAN
    BY <1>12, Zenon DEF Command!Release
  <2> QED BY <1>12, <2>1 DEF Command!Release
<1>13. CASE Command!WriteFails
  BY <1>13 DEF Command!WriteFails, Command!End
<1>14. CASE Command!UnlinkFails
  BY <1>14 DEF Command!UnlinkFails, Command!End
<1>15. CASE UNCHANGED Command!vars
  BY <1>15 DEF Command!vars
<1> QED BY <1>1, <1>2, <1>3, <1>4, <1>5, <1>6, <1>7, <1>8, <1>9, <1>10, <1>11, <1>12,
           <1>13, <1>14, <1>15 DEF Command!Next

\* At every await the process and config.json are where the code expects them.
THEOREM CallIsWellFormed == Command!Spec => []CommandInv
BY InitCommandInv, NextCommandInv, PTL DEF Command!Spec

LEMMA EndOfCommand == CommandInv => Command!CallLeavesNothing
BY DEF CommandInv, Command!TypeOK, ChildInv, ConfigInv, Command!CallLeavesNothing,
       Command!ChildEndsWithCall

\* When the call ends, however often it was interrupted, no parser runs on.
\* config.json is gone, unless the await of the thread at work on it was broken, its
\* writing or removal failed, or the command line could not be rendered; once the
\* parser has started, unless its removal was broken or failed.
THEOREM NothingIsLeft == Command!Spec => []Command!CallLeavesNothing
BY EndOfCommand, CallIsWellFormed, PTL

-----------------------------------------------------------------------------
(* Positions in order *)

\* The rank of an element of a finite set is its place in the increasing order.
LEMMA Ranks ==
  ASSUME NEW S \in SUBSET Int, IsFiniteSet(S)
  PROVE  /\ Cardinality(S) \in Nat
         /\ \A p \in S : Rank(S, p) \in 1..Cardinality(S)
         /\ \A p, q \in S : p < q => Rank(S, p) < Rank(S, q)
         /\ \A k \in 1..Cardinality(S) : \E p \in S : Rank(S, p) = k
<1> DEFINE n == Cardinality(S)
           below(p) == {q \in S : q <= p}
           rank == [p \in S |-> Rank(S, p)]
<1>0. \A p \in S : p \in Int
  OBVIOUS
<1>1. n \in Nat
  BY FS_CardinalityType
<1>2. ASSUME NEW p \in S PROVE IsFiniteSet(below(p)) /\ Rank(S, p) \in 1..n
  <2>1. below(p) \in SUBSET S /\ p \in below(p)
    OBVIOUS
  <2>2. IsFiniteSet(below(p)) /\ Cardinality(below(p)) <= n
    BY <2>1, FS_Subset
  <2>3. Cardinality(below(p)) \in Nat /\ Cardinality(below(p)) # 0
    BY <2>1, <2>2, FS_CardinalityType, FS_EmptySet
  <2> QED BY <1>1, <2>2, <2>3 DEF Rank
<1>3. ASSUME NEW p \in S, NEW q \in S, p < q PROVE Rank(S, p) < Rank(S, q)
  <2>1. below(p) \in SUBSET below(q) /\ q \in below(q) /\ q \notin below(p)
    <3>1. p \in Int /\ q \in Int /\ p < q
      BY <1>0, <1>3
    <3>2. \A x \in S : x <= p => x <= q
      BY <1>0, <3>1
    <3>3. q <= q /\ ~(q <= p)
      BY <3>1
    <3> QED BY <3>2, <3>3
  <2>2. Cardinality(below(p)) <= Cardinality(below(q))
        /\ Cardinality(below(p)) # Cardinality(below(q))
    BY <1>2, <2>1, FS_Subset
  <2>3. Rank(S, p) = Cardinality(below(p)) /\ Rank(S, q) = Cardinality(below(q))
    BY DEF Rank
  <2> QED BY <1>1, <1>2, <2>2, <2>3
<1>4. ASSUME NEW k \in 1..n PROVE \E p \in S : Rank(S, p) = k
  <2>1. rank \in [S -> 1..n] /\ \A p, q \in S : rank[p] = rank[q] => p = q
    <3>1. ASSUME NEW p \in S, NEW q \in S, rank[p] = rank[q] PROVE p = q
      <4>1. p \in Int /\ q \in Int /\ Rank(S, p) = Rank(S, q) /\ Rank(S, p) \in Nat
        <5>1. Rank(S, p) \in 1..n
          BY <1>2
        <5> QED BY <1>0, <1>1, <3>1, <5>1
      <4>2. ~(p < q) /\ ~(q < p)
        <5>1. CASE p < q
          BY <1>3, <4>1, <5>1
        <5>2. CASE q < p
          BY <1>3, <4>1, <5>2
        <5> QED BY <5>1, <5>2
      <4> QED BY <4>1, <4>2
    <3> QED BY <1>2, <3>1
  <2>2. rank \in Injection(S, 1..n)
    BY <2>1, Fun_IsInj
  <2>3. IsFiniteSet(1..n) /\ Cardinality(1..n) = n
    BY <1>1, FS_Interval
  <2>4. rank \in Surjection(S, 1..n)
    BY <2>2, <2>3, FS_Injection
  <2>5. \E p \in S : rank[p] = k
    BY <2>4 DEF Surjection
  <2> QED BY <2>5
<1> QED BY <1>1, <1>2, <1>3, <1>4

\* InOrder() lists every element, once, in increasing order.
LEMMA ListedInOrder ==
  ASSUME NEW S \in SUBSET Int, IsFiniteSet(S)
  PROVE  /\ Cardinality(S) \in Nat
         /\ InOrder(S) \in Seq(S) /\ Len(InOrder(S)) = Cardinality(S)
         /\ \A k \in 1..Cardinality(S) : Rank(S, InOrder(S)[k]) = k
         /\ \A k, l \in 1..Cardinality(S) : k < l => InOrder(S)[k] < InOrder(S)[l]
         /\ \A p \in S : Rank(S, p) \in 1..Cardinality(S) /\ InOrder(S)[Rank(S, p)] = p
<1> DEFINE n == Cardinality(S)
           s == InOrder(S)
<1>0. \A p \in S : p \in Int
  OBVIOUS
<1>1. n \in Nat
  BY Ranks
<1>2. ASSUME NEW k \in 1..n PROVE s[k] \in S /\ Rank(S, s[k]) = k
  <2>1. \E p \in S : Rank(S, p) = k
    BY Ranks
  <2>2. s[k] = CHOOSE p \in S : Rank(S, p) = k
    BY DEF InOrder
  <2> QED BY <2>1, <2>2
<1>3. s \in Seq(S) /\ Len(s) = n
  <2>1. DOMAIN s = 1..n /\ s = [k \in 1..n |-> s[k]]
    BY DEF InOrder
  <2> HIDE DEF s
  <2>2. s \in [1..n -> S]
    BY <1>2, <2>1
  <2> QED BY <1>1, <2>2
<1>4. \A p, q \in S : p < q => Rank(S, p) < Rank(S, q)
  BY Ranks
<1> HIDE DEF s, n
<1>5. ASSUME NEW k \in 1..n, NEW l \in 1..n, k < l PROVE s[k] < s[l]
  <2>1. s[k] \in Int /\ s[l] \in Int /\ Rank(S, s[k]) = k /\ Rank(S, s[l]) = l
    BY <1>0, <1>2
  <2>2. ~(s[l] < s[k]) /\ s[l] # s[k]
    <3>1. CASE s[l] < s[k]
      <4>1. l < k
        BY <1>2, <1>4, <2>1, <3>1
      <4> QED BY <1>1, <1>5, <4>1
    <3>2. CASE s[l] = s[k]
      BY <1>1, <1>5, <2>1, <3>2
    <3> QED BY <3>1, <3>2
  <2> QED BY <2>1, <2>2
<1>6. ASSUME NEW p \in S PROVE Rank(S, p) \in 1..n /\ s[Rank(S, p)] = p
  <2> DEFINE q == s[Rank(S, p)]
  <2>1. Rank(S, p) \in 1..n
    BY Ranks DEF n
  <2>2. q \in S /\ Rank(S, q) = Rank(S, p)
    BY <1>2, <2>1
  <2> HIDE DEF q
  <2>3. p \in Int /\ q \in Int
    BY <1>0, <2>2
  <2>4. ASSUME q < p PROVE FALSE
    BY <1>1, <1>4, <2>1, <2>2, <2>4
  <2>5. ASSUME p < q PROVE FALSE
    BY <1>1, <1>4, <2>1, <2>2, <2>5
  <2>6. q = p
    BY <2>3, <2>4, <2>5
  <2> QED BY <2>1, <2>6 DEF q
<1> QED BY <1>1, <1>2, <1>3, <1>5, <1>6 DEF s, n

\* The least element comes first, and then the others.
LEMMA LeastComesFirst ==
  ASSUME NEW S \in SUBSET Int, IsFiniteSet(S), NEW m \in S, \A q \in S : m <= q
  PROVE  /\ InOrder(S) # <<>> /\ Head(InOrder(S)) = m
         /\ Tail(InOrder(S)) = InOrder(S \ {m})
<1> DEFINE n == Cardinality(S)
           T == S \ {m}
           s == InOrder(S)
           t == InOrder(T)
<1>1. IsFiniteSet(T) /\ n \in Nat /\ Cardinality(T) = n - 1 /\ T \in SUBSET Int
  BY FS_RemoveElement, FS_CardinalityType
<1>2. Rank(S, m) = 1
  <2>1. \A q \in S : q \in Int /\ (q <= m <=> q = m)
    OBVIOUS
  <2>2. {q \in S : q <= m} = {m}
    BY <2>1
  <2> QED BY <2>2, FS_Singleton DEF Rank
<1>3. ASSUME NEW p \in T PROVE Rank(S, p) = Rank(T, p) + 1
  <2> DEFINE U == {q \in T : q <= p}
  <2>1. {q \in S : q <= p} = U \cup {m} /\ m \notin U /\ U \in SUBSET T
    OBVIOUS
  <2>2. IsFiniteSet(U)
    BY <1>1, <2>1, FS_Subset
  <2>3. Cardinality(U \cup {m}) = Cardinality(U) + 1
    BY <2>1, <2>2, FS_AddElement
  <2> QED BY <2>1, <2>3 DEF Rank
<1>4. s \in Seq(S) /\ Len(s) = n /\ \A p \in S : s[Rank(S, p)] = p /\ Rank(S, p) \in 1..n
  BY ListedInOrder
<1>5. t \in Seq(T) /\ Len(t) = n - 1 /\ \A k \in 1..n - 1 : Rank(T, t[k]) = k
  BY <1>1, ListedInOrder
<1> HIDE DEF s, t, n
<1>6. ASSUME NEW k \in 1..n - 1 PROVE s[k + 1] = t[k]
  <2>1. t[k] \in T /\ Rank(T, t[k]) = k
    BY <1>1, <1>5
  <2>2. t[k] \in S /\ Rank(S, t[k]) = k + 1
    BY <1>3, <2>1
  <2> QED BY <1>4, <2>2
<1>7. n >= 1 /\ s[1] = m
  BY <1>1, <1>2, <1>4
<1>8. Tail(s) = t
  <2>1. /\ Tail(s) \in Seq(S) /\ Len(Tail(s)) = n - 1
        /\ \A k \in 1..n - 1 : Tail(s)[k] = s[k + 1]
    BY <1>1, <1>4, <1>7
  <2>2. t \in Seq(S)
    BY <1>5
  <2> HIDE DEF T
  <2> QED BY <1>1, <1>5, <1>6, <2>1, <2>2
<1>9. s # <<>> /\ Head(s) = m
  BY <1>4, <1>7
<1> QED BY <1>8, <1>9 DEF s, t

-----------------------------------------------------------------------------
(* The adapters of one request *)

\* InOrder() of each module is the same operator.
LEMMA SameOrder ==
  ASSUME NEW S
  PROVE  Http!InOrder(S) = InOrder(S) /\ Norm!InOrder(S) = InOrder(S)
BY DEF Http!InOrder, Http!Rank, Http!Cardinality, Norm!InOrder, Norm!Rank, Norm!Cardinality,
       InOrder, Rank, Cardinality

\* The positions of a list that satisfy a condition are finitely many.
LEMMA FinitePositions ==
  ASSUME NEW n \in Nat, NEW S \in SUBSET (1..n)
  PROVE  IsFiniteSet(S) /\ S \in SUBSET Int
<1>1. IsFiniteSet(1..n)
  BY FS_Interval
<1>2. IsFiniteSet(S)
  BY <1>1, FS_Subset
<1>3. \A i \in S : i \in Int
  OBVIOUS
<1> QED BY <1>2, <1>3

\* The dict of the loop after n items: its keys are the pages of these items, and
\* under each are the positions of its own, in order.
Grouped(dict, items, n) ==
    /\ DOMAIN dict \in SUBSET (1..MaxPages)
    /\ \A i \in 1..n : Http!PageNumber(items[i]) \in DOMAIN dict
    /\ \A p \in DOMAIN dict :
        /\ dict[p] \in Seq(1..n)
        /\ \A j, k \in 1..Len(dict[p]) : j < k => dict[p][j] < dict[p][k]
        /\ \A i \in 1..n : (\E j \in 1..Len(dict[p]) : dict[p][j] = i)
                              <=> Http!PageNumber(items[i]) = p

\* One more item is appended to the positions of its page.
LEMMA ItemIsFiled ==
  ASSUME NEW dict, NEW items, NEW n \in Nat, Grouped(dict, items, n),
         NEW p \in 1..MaxPages, p = Http!PageNumber(items[n + 1])
  PROVE  Grouped(Http!Filed(dict, p, n + 1), items, n + 1)
<1> DEFINE made == Http!Filed(dict, p, n + 1)
           old(q) == IF q \in DOMAIN dict THEN dict[q] ELSE <<>>
           page(i) == Http!PageNumber(items[i])
<1>1. DOMAIN made = DOMAIN dict \cup {p} /\ DOMAIN made \in SUBSET (1..MaxPages)
  BY DEF Http!Filed, Grouped
<1>2. \A q \in DOMAIN made : made[q] = IF q = p THEN Append(old(q), n + 1) ELSE old(q)
  BY DEF Http!Filed
<1>3. ASSUME NEW q
      PROVE  /\ old(q) \in Seq(1..n)
             /\ \A j, k \in 1..Len(old(q)) : j < k => old(q)[j] < old(q)[k]
             /\ \A i \in 1..n : (\E j \in 1..Len(old(q)) : old(q)[j] = i) <=> page(i) = q
  <2>1. CASE q \in DOMAIN dict
    BY <2>1 DEF Grouped
  <2>2. CASE q \notin DOMAIN dict
    <3>1. old(q) = <<>> /\ \A i \in 1..n : page(i) # q
      BY <2>2 DEF Grouped
    <3>2. PICK e : e = old(q)
      OBVIOUS
    <3> HIDE DEF old
    <3>3. e \in Seq(1..n) /\ 1..Len(e) = {}
      BY <3>1, <3>2
    <3>4. /\ \A j, k \in 1..Len(e) : j < k => e[j] < e[k]
          /\ \A i \in 1..n : (\E j \in 1..Len(e) : e[j] = i) <=> page(i) = q
      BY ONLY <3>1, <3>3
    <3> QED BY <3>2, <3>3, <3>4
  <2> QED BY <2>1, <2>2
<1>4. page(n + 1) = p
  OBVIOUS
<1> HIDE DEF made, old, page
<1>5. \A i \in 1..n + 1 : i \in 1..n \/ i = n + 1
  OBVIOUS
<1>6. \A i \in 1..n + 1 : page(i) \in DOMAIN made
  <2>1. \A i \in 1..n : page(i) \in DOMAIN dict
    BY DEF Grouped, page
  <2> QED BY <1>1, <1>4, <1>5, <2>1
<1>7. ASSUME NEW q \in DOMAIN made
      PROVE  /\ made[q] \in Seq(1..n + 1)
             /\ \A j, k \in 1..Len(made[q]) : j < k => made[q][j] < made[q][k]
             /\ \A i \in 1..n + 1 : (\E j \in 1..Len(made[q]) : made[q][j] = i) <=> page(i) = q
  <2> DEFINE s == old(q)
             l == Len(s)
  <2>1. /\ s \in Seq(1..n) /\ l \in Nat
        /\ \A j, k \in 1..l : j < k => s[j] < s[k]
        /\ \A i \in 1..n : (\E j \in 1..l : s[j] = i) <=> page(i) = q
        /\ \A j \in 1..l : s[j] \in 1..n
    BY <1>3
  <2>2. CASE q = p
    <3> HIDE DEF s
    <3>1. made[q] = Append(s, n + 1)
      BY <1>2, <2>2 DEF s
    <3>2. /\ Len(made[q]) = l + 1 /\ made[q][l + 1] = n + 1
          /\ \A j \in 1..l : made[q][j] = s[j]
      BY <2>1, <3>1
    <3>3. made[q] \in Seq(1..n + 1)
      <4>1. s \in Seq(1..n + 1) /\ n + 1 \in 1..n + 1
        BY <2>1
      <4> QED BY <3>1, <4>1
    <3> HIDE DEF l
    <3>4. \A j \in 1..l + 1 : j \in 1..l \/ j = l + 1
      BY <2>1
    <3>5. ASSUME NEW j \in 1..l + 1, NEW k \in 1..l + 1, j < k
          PROVE  made[q][j] < made[q][k]
      <4>1. j \in 1..l
        BY <2>1, <3>4, <3>5
      <4>2. CASE k \in 1..l
        BY <2>1, <3>2, <3>5, <4>1, <4>2
      <4>3. CASE k = l + 1
        BY <2>1, <3>2, <4>1, <4>3
      <4> QED BY <3>4, <4>2, <4>3
    <3>6. ASSUME NEW i \in 1..n + 1
          PROVE  (\E j \in 1..l + 1 : made[q][j] = i) <=> page(i) = q
      <4>1. CASE i \in 1..n
        <5>1. i # n + 1
          BY <4>1
        <5>2. (\E j \in 1..l + 1 : made[q][j] = i) <=> \E j \in 1..l : s[j] = i
          <6>1. \A j \in 1..l : j \in 1..l + 1
            BY <2>1
          <6> QED BY <3>2, <3>4, <5>1, <6>1
        <5> QED BY <2>1, <4>1, <5>2
      <4>2. CASE i = n + 1
        <5>1. l + 1 \in 1..l + 1
          BY <2>1
        <5> QED BY <1>4, <2>2, <3>2, <4>2, <5>1
      <4> QED BY <1>5, <4>1, <4>2
    <3> QED BY <3>2, <3>3, <3>5, <3>6
  <2>3. CASE q # p
    <3>1. made[q] = s
      BY <1>2, <2>3
    <3>2. s \in Seq(1..n + 1)
      BY <2>1
    <3> HIDE DEF s
    <3>3. ASSUME NEW i \in 1..n + 1
          PROVE  (\E j \in 1..l : s[j] = i) <=> page(i) = q
      <4>1. CASE i \in 1..n
        BY <2>1, <4>1
      <4>2. CASE i = n + 1
        <5>1. \A j \in 1..l : s[j] # i
          BY <2>1, <4>2
        <5> QED BY <1>4, <2>3, <4>2, <5>1
      <4> QED BY <1>5, <4>1, <4>2
    <3> QED BY <2>1, <3>1, <3>2, <3>3
  <2> QED BY <2>2, <2>3
<1> QED BY <1>1, <1>6, <1>7 DEF Grouped, made, page

\* The pages of a MinerU result: every item is a block of the page it belongs to
\* and of no other, and pages and blocks are in order.
LEMMA ItemsArePaged ==
  ASSUME NEW items \in Seq(Http!Items), Grouped(groups, items, Len(items))
  PROVE  /\ \A k \in 1..Len(Http!MinerUPages) - 1 :
                Http!MinerUPages[k].number < Http!MinerUPages[k + 1].number
         /\ \A k \in DOMAIN Http!MinerUPages : \A j \in 1..Len(Http!MinerUPages[k].blocks) - 1 :
                Http!MinerUPages[k].blocks[j] < Http!MinerUPages[k].blocks[j + 1]
         /\ \A i \in DOMAIN items :
                Http!Cardinality({k \in DOMAIN Http!MinerUPages :
                                      \E j \in DOMAIN Http!MinerUPages[k].blocks :
                                          Http!MinerUPages[k].blocks[j] = i}) = 1
<1> DEFINE made == Http!MinerUPages
           n == Len(items)
           page(i) == Http!PageNumber(items[i])
           S == DOMAIN groups
           m == Cardinality(S)
           listed == InOrder(S)
<1>1. n \in Nat /\ DOMAIN items = 1..n
  OBVIOUS
<1>2. S \in SUBSET Int /\ IsFiniteSet(S)
  BY PagesAssumption, FinitePositions DEF Grouped
<1>3. /\ m \in Nat /\ DOMAIN listed = 1..m
      /\ \A k \in 1..m : listed[k] \in S
      /\ \A k, l \in 1..m : k < l => listed[k] < listed[l]
      /\ \A p \in S : \E k \in 1..m : listed[k] = p
  <2> HIDE DEF S
  <2> QED BY <1>2, ListedInOrder
<1>4. made = [k \in 1..m |-> [number |-> listed[k], blocks |-> groups[listed[k]]]]
  BY <1>3, SameOrder DEF Http!MinerUPages
<1>5. /\ \A i \in 1..n : page(i) \in S
      /\ \A p \in S : /\ groups[p] \in Seq(1..n)
                      /\ \A j, k \in 1..Len(groups[p]) : j < k => groups[p][j] < groups[p][k]
                      /\ \A i \in 1..n : (\E j \in 1..Len(groups[p]) : groups[p][j] = i) <=> page(i) = p
  BY <1>1 DEF Grouped
<1> HIDE DEF made, listed, m, S, page, n
<1>6. Len(made) = m /\ DOMAIN made = 1..m
  BY <1>3, <1>4
<1>7. \A k \in 1..Len(made) - 1 : made[k].number < made[k + 1].number
  BY <1>3, <1>4, <1>6
<1>8. ASSUME NEW k \in DOMAIN made, NEW j \in 1..Len(made[k].blocks) - 1
      PROVE  made[k].blocks[j] < made[k].blocks[j + 1]
  <2> DEFINE b == groups[listed[k]]
  <2>1. made[k].blocks = b /\ listed[k] \in S
    BY <1>3, <1>4, <1>6
  <2>2. Len(b) \in Nat /\ \A i, l \in 1..Len(b) : i < l => b[i] < b[l]
    BY <1>5, <2>1
  <2> HIDE DEF b
  <2>3. j \in 1..Len(b) /\ j + 1 \in 1..Len(b) /\ j < j + 1
    BY <2>1, <2>2
  <2> QED BY <2>1, <2>2, <2>3
<1>9. ASSUME NEW i \in DOMAIN items
      PROVE  Http!Cardinality({k \in DOMAIN made : \E j \in DOMAIN made[k].blocks :
                                                       made[k].blocks[j] = i}) = 1
  <2>1. PICK h \in 1..m : listed[h] = page(i)
    BY <1>1, <1>3, <1>5
  <2>2. ASSUME NEW k \in 1..m
        PROVE  (\E j \in DOMAIN made[k].blocks : made[k].blocks[j] = i) <=> k = h
    <3> DEFINE b == groups[listed[k]]
    <3>1. made[k].blocks = b /\ listed[k] \in S
      BY <1>3, <1>4
    <3>2. b \in Seq(1..n)
      BY <1>5, <3>1
    <3>3. DOMAIN b = 1..Len(b)
      BY <3>2
    <3>4. (\E j \in DOMAIN b : b[j] = i) <=> page(i) = listed[k]
      <4>1. PICK p \in S : p = listed[k]
        BY <3>1
      <4>2. i \in 1..n
        BY <1>1
      <4>3. (\E j \in 1..Len(groups[p]) : groups[p][j] = i) <=> page(i) = p
        BY <1>5, <4>2
      <4> QED BY <3>3, <4>1, <4>3
    <3>5. listed[k] = listed[h] <=> k = h
      <4>1. k \in Int /\ h \in Int /\ (k = h \/ k < h \/ h < k)
        BY <1>3
      <4>2. listed[k] \in Int /\ listed[h] \in Int
        BY <1>2, <1>3
      <4> QED BY <1>3, <4>1, <4>2
    <3> QED BY <2>1, <3>1, <3>4, <3>5
  <2>3. {k \in DOMAIN made : \E j \in DOMAIN made[k].blocks : made[k].blocks[j] = i} = {h}
    BY <1>6, <2>2
  <2>4. Cardinality({h}) = 1
    BY FS_Singleton
  <2> QED BY <2>3, <2>4 DEF Http!Cardinality, Cardinality
<1> QED BY <1>7, <1>8, <1>9 DEF made

\* A text that is kept was not refused, the dict holds the items that the loop has
\* come to, and the pages are those of the dict.
HttpInv ==
    /\ answer.items \in Seq(Http!Items)
    /\ at \in {"returned", "normalized"} /\ kind # "generic" => Http!HasWords(text)
    /\ at \in {"idle", "request"} => placed = 0 /\ groups = <<>>
    /\ at = "returned" => placed \in 0..Len(answer.items) /\ Grouped(groups, answer.items, placed)
    /\ at = "normalized" /\ kind = "mineru" =>
        Grouped(groups, answer.items, Len(answer.items)) /\ blocks = Http!MinerUPages

LEMMA InitHttpInv == Http!Init => HttpInv
<1> SUFFICES ASSUME Http!Init PROVE HttpInv
  OBVIOUS
<1>1. answer.items = <<>> /\ at = "idle" /\ placed = 0 /\ groups = <<>>
  BY DEF Http!Init
<1> QED BY <1>1 DEF HttpInv

LEMMA NextHttpInv == HttpInv /\ [Http!Next]_(Http!vars) => HttpInv'
<1> SUFFICES ASSUME HttpInv, [Http!Next]_(Http!vars) PROVE HttpInv'
  OBVIOUS
<1> USE DEF HttpInv, Http!loop
<1>1. ASSUME NEW suffix \in BOOLEAN, NEW options \in BOOLEAN, NEW url \in BOOLEAN,
             Http!Begin(suffix, options, url)
      PROVE  HttpInv'
  BY <1>1 DEF Http!Begin, Http!End
<1>2. CASE Http!Unusable
  BY <1>2 DEF Http!Unusable, Http!End
<1>3. ASSUME NEW a \in Http!Answers, Http!Answered(a) PROVE HttpInv'
  <2>1. a.items \in Seq(Http!Items)
    BY DEF Http!Answers
  <2>2. /\ answer' = a /\ text' = Http!TextOf(a) /\ kind' = kind
        /\ placed' = 0 /\ groups' = <<>>
        /\ at' = "ended" \/ (at' = "returned" /\ ~Http!Refused(Http!TextOf(a)))
    BY <1>3 DEF Http!Answered, Http!End
  <2>3. Grouped(<<>>, a.items, 0)
    BY DEF Grouped
  <2>4. placed' \in 0..Len(answer'.items) /\ Grouped(groups', answer'.items, placed')
    BY <2>1, <2>2, <2>3
  <2> QED BY <2>1, <2>2, <2>4 DEF Http!Refused
<1>4. CASE Http!Place
  <2>1. /\ at = "returned" /\ UNCHANGED <<kind, at, answer, text, blocks>>
        /\ placed < Len(answer.items) /\ placed' = placed + 1
        /\ groups' = Http!Filed(groups, Http!PageNumber(answer.items[placed + 1]), placed + 1)
    BY <1>4 DEF Http!Place
  <2>2. placed \in Nat /\ placed + 1 \in 1..Len(answer.items) /\ placed' \in 0..Len(answer'.items)
        /\ Grouped(groups, answer.items, placed)
    BY <2>1
  <2>3. Http!PageNumber(answer.items[placed + 1]) \in 1..MaxPages
    <3>1. answer.items[placed + 1] \in Http!Items
      BY <2>2
    <3>2. answer.items[placed + 1].page \in -1..MaxPages - 1
      BY <3>1 DEF Http!Items
    <3> QED BY <3>2, PagesAssumption DEF Http!PageNumber
  <2>4. PICK p \in 1..MaxPages : p = Http!PageNumber(answer.items[placed + 1])
    BY <2>3
  <2>5. Grouped(Http!Filed(groups, p, placed + 1), answer.items, placed + 1)
    BY <2>2, <2>4, ItemIsFiled
  <2>6. Grouped(groups', answer'.items, placed')
    BY <2>1, <2>4, <2>5
  <2>7. Http!HasWords(text)' = Http!HasWords(text)
    BY <2>1
  <2> QED BY <2>1, <2>2, <2>6, <2>7
<1>5. CASE Http!Normalize
  <2>1. /\ at = "returned" /\ at' = "normalized" /\ UNCHANGED <<kind, answer, text, placed, groups>>
        /\ kind = "mineru" => placed = Len(answer.items) /\ blocks' = Http!MinerUPages
    BY <1>5 DEF Http!Normalize
  <2>2. Http!HasWords(text)' = Http!HasWords(text) /\ Http!MinerUPages' = Http!MinerUPages
    BY <2>1 DEF Http!MinerUPages
  <2>3. ASSUME kind = "mineru" PROVE Grouped(groups', answer'.items, Len(answer'.items))
    BY <2>1, <2>3
  <2> QED BY <2>1, <2>2, <2>3
<1>6. CASE UNCHANGED Http!vars
  <2>1. UNCHANGED <<kind, at, answer, text, placed, groups, blocks>>
    BY <1>6 DEF Http!vars
  <2>2. Http!MinerUPages' = Http!MinerUPages
    BY <2>1 DEF Http!MinerUPages
  <2>3. Http!HasWords(text)' = Http!HasWords(text)
    BY <2>1
  <2>4. \A n : Grouped(groups', answer'.items, n) <=> Grouped(groups, answer.items, n)
    BY <2>1
  <2> QED BY <2>1, <2>2, <2>3, <2>4
<1> QED BY <1>1, <1>2, <1>3, <1>4, <1>5, <1>6 DEF Http!Next

LEMMA HttpKeepsOrder == HttpInv => Http!StoredTextHasWords /\ Http!BlocksKeepOrder
<1> SUFFICES ASSUME HttpInv PROVE Http!StoredTextHasWords /\ Http!BlocksKeepOrder
  OBVIOUS
<1>1. Http!StoredTextHasWords
  BY DEF HttpInv, Http!StoredTextHasWords
<1>2. Http!BlocksKeepOrder
  BY ItemsArePaged DEF HttpInv, Http!BlocksKeepOrder
<1> QED BY <1>1, <1>2

-----------------------------------------------------------------------------
(* The normalizers *)

RawBlocks == [page : 1..2, order : Orders, table : {"no", "html", "none"}]
CanonicalBlocks == [page : Nat, order : Nat, html : Nat]

\* The tables of a page with HTML that come after the first n blocks.
TablesLeft(page, n) ==
    {i \in DOMAIN raw : raw[i].page = page /\ raw[i].table = "html" /\ i > n}

\* Every table on the page among the first n blocks has HTML.
AllHaveHtml(page, n) == \A j \in 1..n : raw[j].page = page => raw[j].table # "none"

\* The HTML that is left is that of the tables to come, unless one went without.
HtmlsFollow ==
    LET n == Len(canonical)
    IN  n > 0 /\ AllHaveHtml(raw[n].page, n) => htmls = InOrder(TablesLeft(raw[n].page, n))

\* The blocks so far are the first of the parser's, each with its place.
NormInv ==
    /\ numbers \in [1..2 -> Nat]
    /\ raw \in Seq(RawBlocks)
    /\ \A i, j \in DOMAIN raw : i <= j => raw[i].page <= raw[j].page
    /\ canonical \in Seq(CanonicalBlocks)
    /\ htmls \in Seq(Nat)
    /\ global_order = Len(canonical) /\ Len(canonical) <= Len(raw)
    /\ \A i \in DOMAIN canonical :
        /\ canonical[i].page = Norm!Number(raw[i].page)
        /\ canonical[i].order = IF raw[i].order = -1 THEN i - 1 ELSE raw[i].order
    /\ HtmlsFollow
    /\ Norm!TableKeepsHtml

LEMMA HtmlsAreBlocks ==
  ASSUME raw \in Seq(RawBlocks), NEW p
  PROVE  Norm!TableHtmls(p) \in Seq(Nat)
<1> DEFINE S == {i \in DOMAIN raw : raw[i].page = p /\ raw[i].table = "html"}
<1>1. Len(raw) \in Nat /\ DOMAIN raw = 1..Len(raw)
  OBVIOUS
<1>2. Norm!TableHtmls(p) = InOrder(S)
  BY SameOrder DEF Norm!TableHtmls
<1>3. S \in SUBSET (1..Len(raw)) /\ S \subseteq Nat
  BY <1>1
<1> HIDE DEF S
<1>4. IsFiniteSet(S) /\ S \in SUBSET Int
  BY <1>1, <1>3, FinitePositions
<1> DEFINE t == InOrder(S)
<1>5. t \in Seq(S)
  BY <1>4, ListedInOrder
<1> HIDE DEF t
<1>6. Len(t) \in Nat /\ t \in [1..Len(t) -> S]
  BY <1>5
<1>7. t \in [1..Len(t) -> Nat]
  BY <1>3, <1>6
<1>8. t \in Seq(Nat)
  BY <1>6, <1>7
<1> QED BY <1>2, <1>8 DEF t

LEMMA InitNormInv == Norm!Init => NormInv
<1> SUFFICES ASSUME Norm!Init PROVE NormInv
  OBVIOUS
<1>1. numbers \in [1..2 -> Nat]
  BY DEF Norm!Init, Numbers
<1>2. /\ raw \in Seq(RawBlocks)
      /\ \A i, j \in DOMAIN raw : i <= j => raw[i].page <= raw[j].page
  <2>1. Norm!Blocks \subseteq RawBlocks
    BY DEF Norm!Blocks, RawBlocks
  <2> QED BY <2>1 DEF Norm!Init
<1>3. canonical = <<>> /\ global_order = 0 /\ htmls \in Seq(Nat)
  BY <1>2, HtmlsAreBlocks DEF Norm!Init
<1>4. Len(canonical) = 0 /\ DOMAIN canonical = {} /\ canonical \in Seq(CanonicalBlocks)
  BY <1>3
<1>5. HtmlsFollow /\ Norm!TableKeepsHtml
  BY <1>4 DEF HtmlsFollow, Norm!TableKeepsHtml
<1>6. Len(canonical) <= Len(raw)
  BY <1>2, <1>4
<1> QED BY <1>1, <1>2, <1>3, <1>4, <1>5, <1>6 DEF NormInv

\* The HTML the next block finds.
LEMMA HtmlsOfPage ==
  ASSUME NormInv, NEW n, n = Len(canonical), n < Len(raw),
         NEW p, p = raw[n + 1].page, AllHaveHtml(p, n)
  PROVE  (IF (n + 1 > 1 /\ raw[n].page # p) \/ n + 1 = 1 THEN Norm!TableHtmls(p) ELSE htmls)
         = InOrder(TablesLeft(p, n))
<1>0. n \in Nat /\ Len(raw) \in Nat /\ DOMAIN raw = 1..Len(raw)
      /\ \A i \in DOMAIN raw : raw[i].page \in Nat
  <2>1. raw \in Seq(RawBlocks) /\ canonical \in Seq(CanonicalBlocks)
    BY DEF NormInv
  <2>2. \A b \in RawBlocks : b.page \in Nat
    BY DEF RawBlocks
  <2> QED BY <2>1, <2>2
<1>1. CASE (n + 1 > 1 /\ raw[n].page # p) \/ n + 1 = 1
  <2>1. ASSUME NEW i \in DOMAIN raw, raw[i].page = p PROVE i > n
    <3>1. CASE n = 0
      BY <1>0, <3>1
    <3>2. CASE n > 0
      <4>1. n \in DOMAIN raw /\ n + 1 \in DOMAIN raw
        BY <1>0, <3>2
      <4>2. raw[n].page < p
        <5>1. raw[n].page <= p /\ raw[n].page # p
          BY <1>0, <1>1, <3>2, <4>1 DEF NormInv
        <5>2. raw[n].page \in Nat /\ p \in Nat
          BY <1>0, <4>1
        <5> QED BY <5>1, <5>2
      <4>3. i <= n => raw[i].page <= raw[n].page
        BY <4>1 DEF NormInv
      <4> QED BY <1>0, <2>1, <4>1, <4>2, <4>3
    <3> QED BY <1>0, <3>1, <3>2
  <2>2. {i \in DOMAIN raw : raw[i].page = p /\ raw[i].table = "html"} = TablesLeft(p, n)
    BY <2>1 DEF TablesLeft
  <2> QED BY <1>1, <2>2, SameOrder DEF Norm!TableHtmls
<1>2. CASE ~((n + 1 > 1 /\ raw[n].page # p) \/ n + 1 = 1)
  <2>1. n > 0 /\ raw[n].page = p
    BY <1>0, <1>2
  <2> QED BY <1>2, <2>1 DEF NormInv, HtmlsFollow
<1> QED BY <1>1, <1>2

\* What a block takes of it, and what it leaves.
LEMMA HtmlIsTaken ==
  ASSUME NormInv, NEW n, n = Len(canonical), n < Len(raw),
         NEW p, p = raw[n + 1].page, raw[n + 1].table # "none",
         NEW left, left = InOrder(TablesLeft(p, n))
  PROVE  /\ raw[n + 1].table = "html" =>
              left # <<>> /\ Head(left) = n + 1 /\ Tail(left) = InOrder(TablesLeft(p, n + 1))
         /\ raw[n + 1].table = "no" => left = InOrder(TablesLeft(p, n + 1))
<1> DEFINE S == TablesLeft(p, n)
<1>0. n \in Nat /\ Len(raw) \in Nat /\ DOMAIN raw = 1..Len(raw) /\ n + 1 \in DOMAIN raw
  BY DEF NormInv
<1>1. CASE raw[n + 1].table = "html"
  <2>1. S \in SUBSET Int /\ IsFiniteSet(S)
    BY <1>0, FinitePositions DEF TablesLeft
  <2>2. n + 1 \in S /\ \A q \in S : n + 1 <= q
    BY <1>0, <1>1 DEF TablesLeft
  <2>3. S \ {n + 1} = TablesLeft(p, n + 1)
    BY <1>0 DEF TablesLeft
  <2>4. left = InOrder(S)
    OBVIOUS
  <2> HIDE DEF S
  <2>5. left # <<>> /\ Head(left) = n + 1 /\ Tail(left) = InOrder(S \ {n + 1})
    BY <2>1, <2>2, <2>4, LeastComesFirst
  <2> QED BY <1>1, <2>3, <2>5
<1>2. CASE raw[n + 1].table = "no"
  <2>1. S = TablesLeft(p, n + 1)
    BY <1>0, <1>2 DEF TablesLeft
  <2> QED BY <1>2, <2>1
<1>3. raw[n + 1].table \in {"no", "html", "none"}
  <2>1. raw[n + 1] \in RawBlocks
    BY <1>0 DEF NormInv
  <2> QED BY <2>1 DEF RawBlocks
<1> QED BY <1>1, <1>2, <1>3

LEMMA NextNormInv == NormInv /\ [Norm!Next]_(Norm!vars) => NormInv'
<1> SUFFICES ASSUME NormInv, [Norm!Next]_(Norm!vars) PROVE NormInv'
  OBVIOUS
<1>1. CASE UNCHANGED Norm!vars
  BY <1>1 DEF Norm!vars, NormInv, HtmlsFollow, Norm!TableKeepsHtml, Norm!Number, AllHaveHtml,
              TablesLeft
<1>2. CASE Norm!Block
  <2> DEFINE n == Len(canonical)
             s == n + 1
             p == raw[s].page
             left == IF (s > 1 /\ raw[s - 1].page # p) \/ s = 1 THEN Norm!TableHtmls(p) ELSE htmls
             takes == raw[s].table # "no" /\ left # <<>>
             block == [page |-> Norm!Number(p), order |-> Norm!Order(raw[s]),
                       html |-> IF takes THEN Head(left) ELSE 0]
  <2>1. /\ n < Len(raw) /\ canonical' = Append(canonical, block)
        /\ htmls' = IF takes THEN Tail(left) ELSE left
        /\ global_order' = global_order + 1 /\ UNCHANGED <<source, numbers, raw>>
    BY <1>2 DEF Norm!Block
  <2>2. n \in Nat /\ Len(raw) \in Nat /\ s \in DOMAIN raw /\ DOMAIN raw = 1..Len(raw)
    BY <2>1 DEF NormInv
  <2>3. left \in Seq(Nat)
    BY HtmlsAreBlocks DEF NormInv
  <2>4. htmls' \in Seq(Nat) /\ (takes => Head(left) \in Nat)
    <3> HIDE DEF left
    <3> QED BY <2>1, <2>3
  <2>5. /\ block \in CanonicalBlocks
        /\ block.page = Norm!Number(raw[s].page)
        /\ block.order = IF raw[s].order = -1 THEN s - 1 ELSE raw[s].order
    <3>1. raw[s] \in RawBlocks
      BY <2>2 DEF NormInv
    <3>2. Norm!Number(p) \in Nat
      <4>1. p \in 1..2
        BY <3>1 DEF RawBlocks
      <4> QED BY <4>1 DEF NormInv, Norm!Number
    <3>3. Norm!Order(raw[s]) \in Nat
          /\ Norm!Order(raw[s]) = IF raw[s].order = -1 THEN s - 1 ELSE raw[s].order
      <4>1. raw[s].order \in {-1, 0, 1}
        BY <3>1 DEF RawBlocks, Orders
      <4> QED BY <2>2, <4>1 DEF NormInv, Norm!Order
    <3> HIDE DEF takes, left
    <3> QED BY <2>4, <3>2, <3>3 DEF CanonicalBlocks
  <2> HIDE DEF block
  <2>6. /\ canonical' \in Seq(CanonicalBlocks) /\ Len(canonical') = s
        /\ \A i \in 1..n : canonical'[i] = canonical[i]
        /\ canonical'[s] = block /\ DOMAIN canonical' = 1..s /\ DOMAIN canonical = 1..n
    BY <2>1, <2>5 DEF NormInv
  <2> HIDE DEF n
  <2>7. ASSUME NEW i \in 1..s
        PROVE  /\ canonical'[i].page = Norm!Number(raw[i].page)
               /\ canonical'[i].order = IF raw[i].order = -1 THEN i - 1 ELSE raw[i].order
    <3>1. CASE i \in 1..n
      BY <2>6, <3>1 DEF NormInv
    <3>2. CASE i = s
      BY <2>5, <2>6, <3>2
    <3> QED BY <2>2, <3>1, <3>2
  <2>8. ASSUME AllHaveHtml(p, s)
        PROVE  /\ htmls' = InOrder(TablesLeft(p, s))
               /\ raw[s].table = "html" => block.html = s
    <3>1. AllHaveHtml(p, n) /\ raw[s].table # "none"
      BY <2>2, <2>8 DEF AllHaveHtml
    <3>2. left = InOrder(TablesLeft(p, n))
      <4>1. s - 1 = n
        BY <2>2
      <4> QED BY <2>1, <3>1, <4>1, HtmlsOfPage DEF n
    <3> HIDE DEF left
    <3>3. /\ raw[s].table = "html" =>
               left # <<>> /\ Head(left) = s /\ Tail(left) = InOrder(TablesLeft(p, s))
          /\ raw[s].table = "no" => left = InOrder(TablesLeft(p, s))
      BY <2>1, <3>1, <3>2, HtmlIsTaken DEF n
    <3>4. raw[s].table \in {"no", "html"}
      <4>1. raw[s] \in RawBlocks
        BY <2>2 DEF NormInv
      <4> QED BY <3>1, <4>1 DEF RawBlocks
    <3> QED BY <2>1, <3>3, <3>4 DEF block
  <2>9. Norm!TableKeepsHtml'
    <3> SUFFICES ASSUME NEW i \in 1..s, raw[i].table = "html",
                        \A j \in 1..i : raw[j].page = raw[i].page => raw[j].table # "none"
                 PROVE  canonical'[i].html = i
      BY <2>1, <2>6 DEF Norm!TableKeepsHtml
    <3>1. CASE i \in 1..n
      BY <2>6, <3>1 DEF NormInv, Norm!TableKeepsHtml
    <3>2. CASE i = s
      BY <2>6, <2>8, <3>2 DEF AllHaveHtml
    <3> QED BY <2>2, <3>1, <3>2
  <2>10. HtmlsFollow'
    BY <2>1, <2>6, <2>8 DEF HtmlsFollow, AllHaveHtml, TablesLeft
  <2>11. /\ numbers' \in [1..2 -> Nat] /\ raw' \in Seq(RawBlocks)
         /\ \A i, j \in DOMAIN raw' : i <= j => raw'[i].page <= raw'[j].page
    BY <2>1 DEF NormInv
  <2>12. global_order' = s /\ s <= Len(raw')
    BY <2>1, <2>2 DEF NormInv, n
  <2>13. \A i \in DOMAIN canonical' :
           /\ canonical'[i].page = Norm!Number(raw[i].page)'
           /\ canonical'[i].order = IF raw'[i].order = -1 THEN i - 1 ELSE raw'[i].order
    BY <2>1, <2>6, <2>7 DEF Norm!Number
  <2> QED BY <2>4, <2>6, <2>9, <2>10, <2>11, <2>12, <2>13 DEF NormInv
<1> QED BY <1>1, <1>2 DEF Norm!Next

\* The parser's own order, where it is one, and the tables' HTML are kept.
LEMMA NormKeepsOrder == NormInv => Norm!ReadingOrderKept /\ Norm!TableKeepsHtml
<1> SUFFICES ASSUME NormInv, Norm!ConsistentOrders,
                    NEW i \in DOMAIN canonical, NEW j \in i + 1..Len(canonical)
             PROVE  \/ canonical[i].page < canonical[j].page
                    \/ canonical[i].page = canonical[j].page
                       /\ canonical[i].order <= canonical[j].order
  BY DEF NormInv, Norm!ReadingOrderKept
<1>1. /\ i \in DOMAIN raw /\ j \in i + 1..Len(raw) /\ j \in DOMAIN canonical /\ i < j
      /\ i \in Int /\ j \in Int
  BY DEF NormInv
<1>2. canonical[i] \in CanonicalBlocks /\ canonical[j] \in CanonicalBlocks
  BY <1>1 DEF NormInv
<1>3. /\ canonical[i].page = Norm!Number(raw[i].page)
      /\ canonical[j].page = Norm!Number(raw[j].page)
      /\ canonical[i].order = IF raw[i].order = -1 THEN i - 1 ELSE raw[i].order
      /\ canonical[j].order = IF raw[j].order = -1 THEN j - 1 ELSE raw[j].order
      /\ canonical[i].page \in Nat /\ canonical[j].page \in Nat
  BY <1>1, <1>2 DEF NormInv, CanonicalBlocks
<1>4. /\ Norm!Number(raw[i].page) <= Norm!Number(raw[j].page)
      /\ Norm!Number(raw[i].page) = Norm!Number(raw[j].page) =>
             (raw[i].order = -1 <=> raw[j].order = -1) /\ raw[i].order <= raw[j].order
  BY <1>1 DEF Norm!ConsistentOrders
<1> QED BY <1>1, <1>3, <1>4

-----------------------------------------------------------------------------
(* The run: the adapters side by side *)

\* No adapter touches the state of another one: the invariant of an adapter
\* holds while it is the one at work, and it stays the one at work.  The
\* normalizers have no variable in common with the others.
PartsInv ==
    /\ part = "synap" => RemoteInv /\ PagesInv
    /\ part = "command" => CommandInv
    /\ part = "http" => HttpInv
    /\ NormInv

LEMMA InitPartsInv == AllInit => PartsInv
BY InitRemoteInv, InitPagesInv, InitCommandInv, InitHttpInv, InitNormInv DEF AllInit, PartsInv

LEMMA NextPartsInv == PartsInv /\ [AllNext]_allVars => PartsInv'
<1> SUFFICES ASSUME PartsInv, [AllNext]_allVars PROVE PartsInv'
  OBVIOUS
<1>1. part' = part
  BY DEF AllNext, allVars
<1>2. NormInv'
  <2>1. [Norm!Next]_(Norm!vars)
    BY DEF AllNext, allVars, norm, Norm!vars
  <2> QED BY <2>1, NextNormInv DEF PartsInv
<1>3. CASE part = "synap"
  <2>1. [Synap!Next]_(Synap!vars)
    BY <1>3 DEF AllNext, allVars, adapter, synap, Synap!vars
  <2> QED BY <1>1, <1>2, <1>3, <2>1, NextRemoteInv, NextPagesInv DEF PartsInv
<1>4. CASE part = "command"
  <2>1. [Command!Next]_(Command!vars)
    BY <1>4 DEF AllNext, allVars, adapter, command, Command!vars
  <2> QED BY <1>1, <1>2, <1>4, <2>1, NextCommandInv DEF PartsInv
<1>5. CASE part = "http"
  <2>1. [Http!Next]_(Http!vars)
    BY <1>5 DEF AllNext, allVars, adapter, http, Http!vars
  <2> QED BY <1>1, <1>2, <1>5, <2>1, NextHttpInv DEF PartsInv
<1>6. CASE part \notin {"synap", "command", "http"}
  BY <1>1, <1>2, <1>6 DEF PartsInv
<1> QED BY <1>3, <1>4, <1>5, <1>6

\* SynapAdapter, as the run checks it: a conversion left on the server is one
\* whose delete request could not be sent or was not carried out.
THEOREM RemoteResultIsRemoved == AllSpec => []RemoteResultRemoved
<1>1. PartsInv => RemoteResultRemoved
  BY DEF PartsInv, RemoteInv, RemoteResultRemoved
<1> QED BY <1>1, InitPartsInv, NextPartsInv, PTL DEF AllSpec

\* SynapAdapter: a call that returns has the response of every page and type it
\* asked for, and the pages of the document in order, none missing.
THEOREM PagesStayInOrder == AllSpec => []PagesInOrder
<1>1. PartsInv => PagesInOrder
  BY DEF PartsInv, PagesInv, PagesInOrder
<1> QED BY <1>1, InitPartsInv, NextPartsInv, PTL DEF AllSpec

\* CommandAdapter, as the run checks it: no process is left, and config.json in the
\* named cases only.
THEOREM CommandLeavesNothing == AllSpec => []CallLeavesNothing
<1>1. PartsInv => CallLeavesNothing
  BY EndOfCommand DEF PartsInv, CallLeavesNothing
<1> QED BY <1>1, InitPartsInv, NextPartsInv, PTL DEF AllSpec

\* HttpAdapters and Normalizers: no item of a result is lost or doubled, blocks and
\* pages keep their order, a stored text of MinerU and Docling has words, and
\* tables keep their HTML, for answers with any number of items, pages and blocks.
THEOREM OrderIsKept == AllSpec => []BlocksKeepOrder
<1>1. PartsInv => BlocksKeepOrder
  BY HttpKeepsOrder, NormKeepsOrder DEF PartsInv, BlocksKeepOrder
<1> QED BY <1>1, InitPartsInv, NextPartsInv, PTL DEF AllSpec

-----------------------------------------------------------------------------
(* ResultStorage: the work directory and the result files of a run, for any      *)
(* number of files and attempts, and that ResultStorage implements               *)
(* PublishedResult.  Both rest on where a thread can be at work (ThreadInv): as  *)
(* long as no attempt ran beside an abandoned thread, the only threads during an *)
(* attempt are its own, and each belongs to a stage.  The files then follow the  *)
(* writer of the attempt (FileInv).                                              *)

AtWork == {"prepare", "parse", "save", "saving", "commit"}

\* A thread is awaited by the attempt under way, or abandoned; one that is at
\* work during an attempt of an untainted run is its own.
ThreadInv ==
    /\ \A a \in Attempts : a > attempt => a \notin remover \cup abandoned /\ writer[a] = 0
    /\ \A a \in remover : a \in abandoned \/ (a = attempt /\ stage = "removing")
    /\ \A a \in Attempts : writer[a] > 0 => a \in abandoned \/ (a = attempt /\ stage = "saving")
    /\ stage # "idle" /\ ~tainted =>
           \A a \in Attempts : a # attempt => a \notin remover /\ writer[a] = 0
    /\ stage \in AtWork => attempt \notin remover
    /\ stage \in AtWork \ {"saving"} => writer[attempt] = 0
    /\ WorkDirectoryKept

\* What has been written when: a result is complete when it is committed, and
\* nobody writes any more.
FileInv ==
    /\ stage \in AtWork \cup {"record"} => status = "RUNNING"
    /\ stage = "record" => error \in {"FAILED", "INTERRUPTED"}
    /\ stage = "saving" => writer[attempt] > 0
    /\ ~tainted /\ stage = "saving" =>
           \A f \in 1..Files : f < writer[attempt] => written[f] = attempt
    /\ ~tainted /\ (stage = "commit" \/ status = "SUCCEEDED") =>
           /\ \A f \in 1..Files : written[f] = attempt
           /\ \A a \in Attempts : writer[a] = 0
    /\ ~tainted /\ status = "SUCCEEDED" => row = attempt

IInv == TypeOK /\ ThreadInv /\ FileInv

Sizes == Files \in Nat \ {0} /\ MaxAttempts \in Nat

-----------------------------------------------------------------------------
LEMMA InitIInv == ASSUME Sizes, Init PROVE IInv
<1>1. TypeOK
  <2>1. tainted \in BOOLEAN /\ work_dir \in BOOLEAN
    BY Zenon DEF Init
  <2> QED BY <2>1 DEF Sizes, Init, TypeOK, Statuses, Stages, Attempts
<1>2. ThreadInv
  BY DEF Init, ThreadInv, WorkDirectoryKept, AtWork
<1>3. FileInv
  BY DEF Init, FileInv, AtWork
<1> QED BY <1>1, <1>2, <1>3 DEF IInv

\* The types.
LEMMA TypesKept == ASSUME Sizes, IInv, [Next]_vars PROVE TypeOK'
<1> USE DEF Sizes, TypeOK, Statuses, Stages, Attempts, files
<1>0. TypeOK
  BY DEF IInv
<1>1. CASE Claim
  <2>1. tainted' \in BOOLEAN /\ work_dir' \in BOOLEAN
    BY <1>1, Zenon DEF Claim
  <2> QED BY <1>0, <1>1, <2>1 DEF Claim
<1>2. CASE Prepare
  BY <1>0, <1>2 DEF Prepare
<1>3. CASE Parsed
  BY <1>0, <1>3 DEF Parsed
<1>4. CASE StartSaving
  BY <1>0, <1>4 DEF StartSaving
<1>5. CASE Commit
  BY <1>0, <1>5 DEF Commit
<1>6. CASE Fail
  BY <1>0, <1>6 DEF Fail
<1>7. CASE CancelWork
  <2>1. attempt \in Attempts
    BY <1>0, <1>7 DEF CancelWork
  <2>2. remover' \subseteq Attempts /\ abandoned' \subseteq Attempts
    BY <1>0, <1>7, <2>1 DEF CancelWork
  <2>3. work' \in 0..MaxAttempts
    BY <1>0, <1>7 DEF CancelWork
  <2>4. writer' \in [Attempts -> 0..Files]
    BY <1>0, <1>7 DEF CancelWork
  <2>5. /\ stage' = "record" /\ error' = "INTERRUPTED"
        /\ UNCHANGED <<status, row, attempt, written, work_dir, tainted>>
    BY <1>7, Zenon DEF CancelWork
  <2> QED BY <1>0, <2>1, <2>2, <2>3, <2>4, <2>5
<1>8. CASE Record
  BY <1>0, <1>8 DEF Record, IInv, FileInv
<1>9. CASE StartRemoving
  <2>1. attempt \in Attempts
    BY <1>0, <1>9 DEF StartRemoving
  <2>2. remover' \subseteq Attempts
    BY <1>0, <1>9, <2>1 DEF StartRemoving
  <2> QED BY <1>0, <1>9, <2>2 DEF StartRemoving
<1>10. CASE CancelCleanup
  BY <1>0, <1>10 DEF CancelCleanup
<1>11. CASE Crash
  BY <1>0, <1>11 DEF Crash
<1>12. ASSUME NEW a \in Attempts, WriteFile(a) PROVE TypeOK'
  <2>1. writer[a] \in 1..Files
    BY <1>0, <1>12 DEF WriteFile
  <2>2. written' = [written EXCEPT ![writer[a]] = a]
        /\ writer' = [writer EXCEPT ![a] = IF @ = Files THEN 0 ELSE @ + 1]
    BY <1>12 DEF WriteFile
  <2>3. writer' \in [Attempts -> 0..Files]
    BY <1>0, <2>1, <2>2
  <2>4. written' \in [1..Files -> 0..MaxAttempts]
    BY <1>0, <2>1, <2>2
  <2>5. /\ stage' = stage \/ (stage = "saving" /\ stage' = "commit")
        /\ UNCHANGED <<status, row, attempt, error, work, work_dir, remover, abandoned, tainted>>
    BY <1>12, Zenon DEF WriteFile
  <2> QED BY <1>0, <2>3, <2>4, <2>5
<1>13. ASSUME NEW a \in Attempts, WriteFails(a) PROVE TypeOK'
  BY <1>0, <1>13 DEF WriteFails
<1>14. ASSUME NEW a \in Attempts, Removed(a) PROVE TypeOK'
  BY <1>0, <1>14 DEF Removed
<1>15. CASE UNCHANGED vars
  BY <1>0, <1>15 DEF vars
<1> QED BY <1>1, <1>2, <1>3, <1>4, <1>5, <1>6, <1>7, <1>8, <1>9, <1>10, <1>11, <1>12,
           <1>13, <1>14, <1>15 DEF Next

\* Threads: who begins, who is abandoned, and who ends.
LEMMA ThreadsKept == ASSUME Sizes, IInv, [Next]_vars PROVE ThreadInv'
<1> USE DEF IInv, TypeOK, ThreadInv, WorkDirectoryKept, AtWork, Attempts, Sizes, files
<1>1. CASE Claim
  <2>1. ~tainted' => ~tainted /\ ~Stray
    BY <1>1, Zenon DEF Claim
  <2>2. \A a \in remover : a \in abandoned
    BY <1>1 DEF Claim
  <2>3. ~Stray => \A a \in abandoned : a \notin remover /\ ~(a \in Attempts /\ writer[a] > 0)
    BY DEF Stray
  <2>4. ~tainted' => \A a \in Attempts : a \notin remover /\ writer[a] = 0
    BY <1>1, <2>1, <2>2, <2>3 DEF Claim
  <2> QED BY <1>1, <2>2, <2>4 DEF Claim
<1>2. CASE Prepare
  BY <1>2 DEF Prepare
<1>3. CASE Parsed
  BY <1>3 DEF Parsed
<1>4. CASE StartSaving
  BY <1>4 DEF StartSaving
<1>5. CASE Commit
  BY <1>5 DEF Commit
<1>6. CASE Fail
  BY <1>6 DEF Fail
<1>7. CASE CancelWork
  <2>1. attempt \in Attempts
    BY <1>7 DEF CancelWork
  <2>2. CASE UNCHANGED <<writer, work, remover, abandoned>>
    BY <1>7, <2>2 DEF CancelWork
  <2>3. CASE stage = "prepare" /\ work' = attempt /\ UNCHANGED <<writer, remover, abandoned>>
    BY <1>7, <2>3 DEF CancelWork
  <2>4. CASE /\ stage = "prepare"
             /\ remover' = remover \cup {attempt} /\ abandoned' = abandoned \cup {attempt}
             /\ UNCHANGED <<writer, work>>
    BY <1>7, <2>1, <2>4 DEF CancelWork
  <2>5. CASE /\ stage = "saving"
             /\ abandoned' = abandoned \cup {attempt}
             /\ writer' \in {writer, [writer EXCEPT ![attempt] = 0]}
             /\ UNCHANGED <<work, remover>>
    BY <1>7, <2>1, <2>5 DEF CancelWork
  <2> QED BY <1>7, <2>2, <2>3, <2>4, <2>5 DEF CancelWork
<1>8. CASE Record
  BY <1>8 DEF Record
<1>9. CASE StartRemoving
  <2>1. attempt \in Attempts
    BY <1>9 DEF StartRemoving
  <2>2. CASE stage' = "removing" /\ remover' = remover \cup {attempt}
    BY <1>9, <2>1, <2>2 DEF StartRemoving
  <2>3. CASE stage' = "idle" /\ UNCHANGED remover
    BY <1>9, <2>1, <2>3 DEF StartRemoving
  <2> QED BY <1>9, <2>2, <2>3 DEF StartRemoving
<1>10. CASE CancelCleanup
  BY <1>10 DEF CancelCleanup
<1>11. CASE Crash
  BY <1>11 DEF Crash
<1>12. ASSUME NEW a \in Attempts, WriteFile(a) PROVE ThreadInv'
  BY <1>12 DEF WriteFile
<1>13. ASSUME NEW a \in Attempts, WriteFails(a) PROVE ThreadInv'
  BY <1>13 DEF WriteFails
<1>14. ASSUME NEW a \in Attempts, Removed(a) PROVE ThreadInv'
  BY <1>14 DEF Removed
<1>15. CASE UNCHANGED vars
  BY <1>15 DEF vars
<1> QED BY <1>1, <1>2, <1>3, <1>4, <1>5, <1>6, <1>7, <1>8, <1>9, <1>10, <1>11, <1>12,
           <1>13, <1>14, <1>15 DEF Next

\* Files: the writer of the attempt goes through all of them before the commit.
LEMMA FilesKept == ASSUME Sizes, IInv, [Next]_vars PROVE FileInv'
<1> USE DEF IInv, TypeOK, ThreadInv, FileInv, AtWork, Attempts, Sizes, files
<1>1. CASE Claim
  BY <1>1 DEF Claim
<1>2. CASE Prepare
  BY <1>2 DEF Prepare
<1>3. CASE Parsed
  BY <1>3 DEF Parsed
<1>4. CASE StartSaving
  BY <1>4 DEF StartSaving
<1>5. CASE Commit
  BY <1>5 DEF Commit
<1>6. CASE Fail
  BY <1>6 DEF Fail
<1>7. CASE CancelWork
  BY <1>7 DEF CancelWork
<1>8. CASE Record
  BY <1>8 DEF Record
<1>9. CASE StartRemoving
  BY <1>9 DEF StartRemoving
<1>10. CASE CancelCleanup
  BY <1>10 DEF CancelCleanup
<1>11. CASE Crash
  BY <1>11 DEF Crash, Statuses
<1>12. ASSUME NEW a \in Attempts, WriteFile(a) PROVE FileInv'
  BY <1>12 DEF WriteFile
<1>13. ASSUME NEW a \in Attempts, WriteFails(a) PROVE FileInv'
  BY <1>13 DEF WriteFails
<1>14. ASSUME NEW a \in Attempts, Removed(a) PROVE FileInv'
  BY <1>14 DEF Removed
<1>15. CASE UNCHANGED vars
  BY <1>15 DEF vars
<1> QED BY <1>1, <1>2, <1>3, <1>4, <1>5, <1>6, <1>7, <1>8, <1>9, <1>10, <1>11, <1>12,
           <1>13, <1>14, <1>15 DEF Next

\* The invariant holds throughout.
THEOREM StorageIsWellFormed == ASSUME Sizes PROVE Spec => []IInv
<1>1. Init => IInv
  BY InitIInv
<1>2. IInv /\ [Next]_vars => IInv'
  BY TypesKept, ThreadsKept, FilesKept DEF IInv
<1> QED BY <1>1, <1>2, PTL DEF Spec

\* The work directory of an attempt is there while its parser works in it, unless
\* an abandoned thread of an earlier attempt was at work when it began.
THEOREM WorkDirectoryIsKept == ASSUME Sizes PROVE Spec => []WorkDirectoryKept
<1>1. IInv => WorkDirectoryKept
  BY DEF IInv, ThreadInv
<1> QED BY <1>1, StorageIsWellFormed, PTL
-----------------------------------------------------------------------------
\* While the row, the attempts and the files stay, readers see the same.
LEMMA NothingShown ==
  ASSUME UNCHANGED <<status, row, attempt, written, tainted>>
  PROVE  UNCHANGED Published!vars
BY DEF Published!vars, Shown

\* A file written outside a published result is not seen, and inside one only by
\* the readers of a run that promises nothing.
LEMMA WritingIsHidden ==
  ASSUME Sizes, IInv, NEW a \in Attempts, WriteFile(a)
  PROVE  Published!Next \/ UNCHANGED Published!vars
<1>1. UNCHANGED <<status, row, attempt, tainted>> /\ writer[a] > 0
  BY DEF WriteFile
<1>2. CASE status # "SUCCEEDED"
  BY <1>1, <1>2 DEF Shown, Published!vars
<1>3. CASE status = "SUCCEEDED"
  <2>1. tainted
    BY <1>1, <1>3 DEF IInv, FileInv, TypeOK
  <2> QED BY <1>1, <2>1 DEF Published!Next, Published!Anything
<1> QED BY <1>2, <1>3

\* Every step is a step of PublishedResult, or leaves what it shows.
LEMMA StepPublishes ==
  ASSUME Sizes, IInv, [Next]_vars
  PROVE  Published!Next \/ UNCHANGED Published!vars
<1> USE DEF files
<1>1. CASE Claim
  <2>1. Shown' = {}
    BY <1>1 DEF Claim, Shown
  <2>2. tainted' \in BOOLEAN /\ (tainted => tainted')
    BY <1>1, Zenon DEF Claim
  <2>3. Published!Attempt
    BY <1>1, <2>1, <2>2 DEF Claim, Published!Attempt
  <2> QED BY <2>3 DEF Published!Next
<1>2. CASE Prepare
  BY <1>2, NothingShown DEF Prepare
<1>3. CASE Parsed
  BY <1>3, NothingShown DEF Parsed
<1>4. CASE StartSaving
  BY <1>4, NothingShown DEF StartSaving
<1>5. CASE Commit
  <2>1. UNCHANGED <<attempt, written, tainted>> /\ status' = "SUCCEEDED" /\ row' = attempt
    BY <1>5 DEF Commit
  <2>2. CASE tainted
    BY <2>1, <2>2 DEF Published!Next, Published!Anything
  <2>3. CASE ~tainted
    <3>1. status = "RUNNING" /\ \A f \in 1..Files : written[f] = attempt
      BY <1>5, <2>3 DEF Commit, IInv, FileInv, AtWork
    <3>2. Shown' = {attempt}
      BY <2>1, <3>1 DEF Shown
    <3> QED BY <2>1, <2>3, <3>1, <3>2 DEF Published!Next, Published!Publish
  <2> QED BY <2>2, <2>3
<1>6. CASE Fail
  BY <1>6, NothingShown DEF Fail
<1>7. CASE CancelWork
  BY <1>7, NothingShown DEF CancelWork
<1>8. CASE Record
  <2>1. /\ status = "RUNNING" /\ error \in {"FAILED", "INTERRUPTED"}
        /\ status' \in {error, status} /\ UNCHANGED <<row, attempt, written, tainted>>
    BY <1>8 DEF Record, IInv, FileInv, AtWork
  <2>2. Shown = {} /\ Shown' = {}
    BY <2>1 DEF Shown
  <2> QED BY <2>1, <2>2 DEF Published!Next, Published!Break, Published!vars
<1>9. CASE StartRemoving
  BY <1>9, NothingShown DEF StartRemoving
<1>10. CASE CancelCleanup
  BY <1>10, NothingShown DEF CancelCleanup
<1>11. CASE Crash
  <2>1. CASE status = "RUNNING"
    <3>1. Shown = {} /\ Shown' = {}
      BY <1>11, <2>1 DEF Crash, Shown
    <3> QED BY <1>11, <2>1, <3>1 DEF Crash, Published!Next, Published!Break
  <2>2. CASE status # "RUNNING"
    BY <1>11, <2>2, NothingShown DEF Crash
  <2> QED BY <2>1, <2>2
<1>12. ASSUME NEW a \in Attempts, WriteFile(a)
       PROVE  Published!Next \/ UNCHANGED Published!vars
  BY <1>12, WritingIsHidden
<1>13. ASSUME NEW a \in Attempts, WriteFails(a)
       PROVE  Published!Next \/ UNCHANGED Published!vars
  BY <1>13, NothingShown DEF WriteFails
<1>14. ASSUME NEW a \in Attempts, Removed(a)
       PROVE  Published!Next \/ UNCHANGED Published!vars
  BY <1>14, NothingShown DEF Removed
<1>15. CASE UNCHANGED vars
  BY <1>15, NothingShown DEF vars
<1> QED BY <1>1, <1>2, <1>3, <1>4, <1>5, <1>6, <1>7, <1>8, <1>9, <1>10, <1>11, <1>12,
           <1>13, <1>14, <1>15 DEF Next

\* Row, files and threads together implement PublishedResult: a result is shown
\* whole, as its own attempt wrote it, and stays until the run is attempted again.
THEOREM StoragePublishes == ASSUME Sizes PROVE Spec => ResultIsPublished
<1>1. Init => Published!Init
  BY DEF Init, Published!Init, Shown
<1>2. IInv /\ [Next]_vars => [Published!Next]_(Published!vars)
  BY StepPublishes
<1> QED BY <1>1, <1>2, StorageIsWellFormed, PTL DEF Spec, ResultIsPublished, Published!Spec
=============================================================================

------------------------- MODULE TufVersions_proofs -------------------------
(***************************************************************************)
(* What VersionsAreUnique is worth to the jobs of TufMetadata, for any     *)
(* number of overlapping runs, any payloads and any failures, in a         *)
(* repository whose versions the server counts (the director's): as long   *)
(* as no version was signed twice, the runs have the effect of runs one    *)
(* after the other.                                                        *)
(*                                                                         *)
(* A transaction signs, for each role, one version above the document its  *)
(* run read.  Versions have no gap, so if that document is no longer the   *)
(* newest the version is taken and the new row doubles it (CountedIsTop).  *)
(* In a table without doubles every run therefore commits upon the newest  *)
(* document of each role it signs.  The two phases of the re-signer that   *)
(* link to a document they do not sign read it while they hold the one     *)
(* above it, and whoever replaces the lower document replaces the upper    *)
(* one too (JobFresh).                                                     *)
(***************************************************************************)
EXTENDS TufMetadata_proofs, WellFoundedInduction

IdsAreUnique == \A r, q \in rows : r.id = q.id => r = q

(* The document of a role that was inserted last.                          *)
Top(r, role) ==
    /\ r \in rows
    /\ r.role = role
    /\ \A q \in rows : q.role = role => q.id <= r.id

(* The documents inserted last hash each other and list what the last      *)
(* rollout published.                                                      *)
Chain(t, s, m) ==
    /\ Top(t, "targets") /\ Top(s, "snapshot") /\ Top(m, "timestamp")
    /\ s.ref = t.id /\ m.ref = s.id
    /\ t.payload = published

(* Versions follow the order of the commits.                               *)
VersionsFollowCommits ==
    \A r, q \in rows : r.role = q.role /\ r.id < q.id => r.version < q.version

TableSerial ==
    /\ IdsAreUnique
    /\ VersionsFollowCommits
    /\ \E t, s, m \in rows : Chain(t, s, m)

(* What a phase is to link to is still the newest if what it signs is.     *)
JobFresh(j) ==
    /\ pc[j] \in {"readTimestampOnly", "commitSnapshot"} =>
           (IsLatest(seen[j]["snapshot"], "snapshot", rows) =>
                IsLatest(seen[j]["targets"], "targets", rows))
    /\ pc[j] = "commitTimestamp" =>
           (IsLatest(seen[j]["timestamp"], "timestamp", rows) =>
                IsLatest(seen[j]["snapshot"], "snapshot", rows))

JobsFresh == \A j \in Job : JobFresh(j)

AsIfSerial == IInv /\ TableSerial /\ JobsFresh

UniqueInv == IInv /\ (VersionsAreUnique => AsIfSerial)

RepositoryStep == [Repository!Publish \/ Repository!Refresh]_Current

-----------------------------------------------------------------------------
(* The newest document by version is the one inserted last, and served.    *)
LEMMA LastIsChosen ==
    ASSUME NEW table, table \subseteq Row, \A x, y \in table : x.id = y.id => x = y,
           NEW role, NEW r \in table, r.role = role,
           \A q \in table : q.role = role => q.id <= r.id
    PROVE  r = CHOOSE x \in table : /\ x.role = role
                                    /\ \A q \in table : q.role = role => q.id <= x.id
<1> DEFINE Last(x) == x.role = role /\ \A q \in table : q.role = role => q.id <= x.id
           c == CHOOSE x \in table : Last(x)
<1>1. c \in table /\ Last(c)
  <2>1. r \in table /\ Last(r)
    OBVIOUS
  <2> QED
    BY <2>1, Zenon
<1>2. c.id \in Nat /\ r.id \in Nat
  BY <1>1 DEF Row
<1>3. c.id = r.id
  BY <1>1, <1>2
<1> QED
  BY <1>1, <1>3

LEMMA ServedIsTop ==
    ASSUME IInv, IdsAreUnique, NEW role, NEW r, Top(r, role)
    PROVE  Served(role) = r
<1>1. rows \subseteq Row
  BY DEF IInv, TableInv, TableTyped
<1> QED
  BY <1>1, LastIsChosen DEF IdsAreUnique, Top, Served

LEMMA NextServedIsTop ==
    ASSUME IInv', IdsAreUnique', NEW role, NEW r, Top(r, role)'
    PROVE  Served(role)' = r
<1>1. rows' \subseteq Row
  BY DEF IInv, TableInv, TableTyped
<1> QED
  BY <1>1, LastIsChosen DEF IdsAreUnique, Top, Served

LEMMA LatestIsTop ==
    ASSUME IInv, TableSerial, NEW role, NEW r, NEW q, IsLatest(r, role, rows), Top(q, role)
    PROVE  r = q
<1>1. /\ r \in rows /\ q \in rows /\ r.role = q.role
      /\ q.version <= r.version /\ r.id <= q.id
  BY DEF IsLatest, Top
<1>2. /\ r.version \in Nat /\ q.version \in Nat /\ r.id \in Nat /\ q.id \in Nat
  BY <1>1 DEF IInv, TableInv, TableTyped, Row
<1>3. ~(r.id < q.id)
  <2>1. r.id < q.id => r.version < q.version
    BY <1>1 DEF TableSerial, VersionsFollowCommits
  <2> QED
    BY <1>1, <1>2, <2>1
<1> QED
  BY <1>1, <1>2, <1>3 DEF TableSerial, IdsAreUnique

-----------------------------------------------------------------------------
(* A step that does not write: a query, a move, the end of a run.          *)
LEMMA QuietStep ==
    ASSUME IInv, TableSerial, JobsFresh, NEW j \in Job, NEW at,
           NEW known \in [Role -> Row \cup {NoRow}],
           pc' = [pc EXCEPT ![j] = at], seen' = [seen EXCEPT ![j] = known],
           UNCHANGED <<rows, published>>,
           JobFresh(j)'
    PROVE  TableSerial' /\ JobsFresh' /\ RepositoryStep
<1>1. TableSerial'
  BY DEF TableSerial, IdsAreUnique, VersionsFollowCommits, Chain, Top
<1>2. ASSUME NEW k \in Job PROVE JobFresh(k)'
  <2>1. CASE k = j
    BY <2>1
  <2>2. CASE k # j
    <3>1. pc'[k] = pc[k] /\ seen'[k] = seen[k]
      BY <2>2 DEF IInv, Shape
    <3> QED
      BY <3>1 DEF JobFresh, JobsFresh
  <2> QED
    BY <2>1, <2>2
<1>3. UNCHANGED Current
  BY DEF Current, Served
<1> QED
  BY <1>1, <1>2, <1>3 DEF JobsFresh, RepositoryStep

(* Documents that are above all others of their role, in version and id.   *)
OnTop(docs) ==
    /\ docs \subseteq Row
    /\ \A d \in docs : /\ nextId <= d.id
                       /\ \A q \in rows : q.role = d.role => q.version < d.version
    /\ \A d, e \in docs : d.role = e.role \/ d.id = e.id => d = e

LEMMA InsertSerial ==
    ASSUME IInv, TableSerial, NEW docs, OnTop(docs), rows' = rows \cup docs
    PROVE  /\ IdsAreUnique' /\ VersionsFollowCommits'
           /\ \A d \in docs : Top(d, d.role)'
           /\ \A r \in rows : \A role \in Role :
                  Top(r, role) /\ (\A d \in docs : d.role # role) => Top(r, role)'
<1>1. \A r \in rows : r.id \in Nat /\ r.version \in Nat /\ r.id < nextId
  BY DEF IInv, TableInv, TableTyped, Row
<1>2. \A d \in docs : d.id \in Nat /\ d.version \in Nat
  BY DEF OnTop, Row
<1>3. nextId \in Nat
  BY DEF IInv, Shape
<1>4. \A r \in rows, d \in docs : r.id < d.id
  BY <1>1, <1>2, <1>3 DEF OnTop
<1>5. IdsAreUnique'
  BY <1>1, <1>2, <1>4 DEF OnTop, IdsAreUnique, TableSerial
<1>6. VersionsFollowCommits'
  <2> SUFFICES ASSUME NEW r \in rows', NEW q \in rows', r.role = q.role, r.id < q.id
               PROVE  r.version < q.version
    BY DEF VersionsFollowCommits
  <2>1. CASE r \in rows /\ q \in rows
    BY <2>1 DEF TableSerial, VersionsFollowCommits
  <2>2. CASE r \in rows /\ q \in docs
    BY <2>2 DEF OnTop
  <2>3. CASE r \in docs
    <3>1. q \notin rows
      BY <1>1, <1>2, <1>4, <2>3
    <3>2. r = q
      BY <2>3, <3>1 DEF OnTop
    <3> QED
      BY <1>2, <2>3, <3>2
  <2> QED
    BY <2>1, <2>2, <2>3
<1>7. \A d \in docs : Top(d, d.role)'
  <2> SUFFICES ASSUME NEW d \in docs, NEW q \in rows', q.role = d.role
               PROVE  q.id <= d.id
    BY DEF Top
  <2>1. CASE q \in rows
    BY <1>1, <1>2, <1>4, <2>1
  <2>2. CASE q \in docs
    BY <1>2, <2>2 DEF OnTop
  <2> QED
    BY <2>1, <2>2
<1>8. \A r \in rows : \A role \in Role :
          Top(r, role) /\ (\A d \in docs : d.role # role) => Top(r, role)'
  BY DEF Top
<1> QED
  BY <1>5, <1>6, <1>7, <1>8
-----------------------------------------------------------------------------
(* What the three transactions are to the abstract repository, given the   *)
(* chain that is served before and after.                                  *)
LEMMA ServedChain ==
    ASSUME IInv, IdsAreUnique, NEW t, NEW s, NEW m, Chain(t, s, m)
    PROVE  Served("targets") = t /\ Served("snapshot") = s /\ Served("timestamp") = m
BY ServedIsTop DEF Chain

LEMMA NextServedChain ==
    ASSUME IInv', IdsAreUnique', NEW t, NEW s, NEW m, Chain(t, s, m)'
    PROVE  Served("targets")' = t /\ Served("snapshot")' = s /\ Served("timestamp")' = m
BY NextServedIsTop DEF Chain

LEMMA ChainsStep ==
    ASSUME IInv, IdsAreUnique, IInv', IdsAreUnique',
           NEW t, NEW s, NEW m, Chain(t, s, m),
           NEW T, NEW S, NEW M, Chain(T, S, M)',
           T.payload \in Payload, M.version = m.version + 1,
           \/ /\ T.version = t.version + 1 /\ S.version = s.version + 1
           \/ /\ T = t
              /\ S.version = s.version + 1 \/ S = s
    PROVE  Repository!Publish \/ Repository!Refresh
<1>1. /\ Served("targets") = t /\ Served("snapshot") = s /\ Served("timestamp") = m
      /\ Served("targets")' = T /\ Served("snapshot")' = S /\ Served("timestamp")' = M
  BY ServedChain, NextServedChain
<1> DEFINE versions(x, y, z) ==
               [role \in Role |-> CASE role = "targets" -> x.version
                                    [] role = "snapshot" -> y.version
                                    [] role = "timestamp" -> z.version]
<1>2. /\ Current = [versions |-> versions(t, s, m), payload |-> t.payload]
      /\ Current' = [versions |-> versions(T, S, M), payload |-> T.payload]
  BY <1>1 DEF Current, Role
<1>3. CASE T.version = t.version + 1 /\ S.version = s.version + 1
  <2>1. versions(T, S, M) = Repository!Bumped("targets")
    BY <1>2, <1>3 DEF Repository!Bumped, Repository!Above, Role
  <2> QED
    BY <1>2, <2>1 DEF Repository!Publish
<1>4. CASE T = t /\ S.version = s.version + 1
  <2>1. versions(T, S, M) = Repository!Bumped("snapshot")
    BY <1>2, <1>4 DEF Repository!Bumped, Repository!Above, Role
  <2> HIDE DEF versions
  <2>2. Current' = [versions |-> Repository!Bumped("snapshot"), payload |-> t.payload]
    BY <1>2, <1>4, <2>1
  <2>3. Current' = [Current EXCEPT !.versions = Repository!Bumped("snapshot")]
    BY <1>2, <2>2
  <2> QED
    BY <2>3 DEF Repository!Refresh
<1>5. CASE T = t /\ S = s
  <2>1. versions(T, S, M) = Repository!Bumped("timestamp")
    BY <1>2, <1>5 DEF Repository!Bumped, Repository!Above, Role
  <2> HIDE DEF versions
  <2>2. Current' = [versions |-> Repository!Bumped("timestamp"), payload |-> t.payload]
    BY <1>2, <1>5, <2>1
  <2>3. Current' = [Current EXCEPT !.versions = Repository!Bumped("timestamp")]
    BY <1>2, <2>2
  <2> QED
    BY <2>3 DEF Repository!Refresh
<1> QED
  BY <1>3, <1>4, <1>5

-----------------------------------------------------------------------------
(* Versions that have no gap hold the one above any that is not the        *)
(* highest.                                                                *)
LEMMA NextIsTaken ==
    ASSUME Numbered = Role, IInv, NEW role \in Role,
           NEW r \in rows, r.role = role, NEW q \in rows, q.role = role,
           r.version < q.version
    PROVE  \E x \in rows : x.role = role /\ x.version = r.version + 1
<1> DEFINE above == {v \in Nat : r.version < v /\ \E x \in rows : x.role = role /\ x.version = v}
           less == OpToRel(<, Nat)
<1>1. \A x \in rows : x.version \in Nat \ {0}
  BY DEF IInv, TableInv, TableTyped, Row
<1>2. q.version \in above
  BY <1>1
<1>3. PICK v \in above : \A u \in above : <<u, v>> \notin less
  <2>1. above \subseteq Nat /\ above # {}
    BY <1>2
  <2>2. IsWellFoundedOn(less, Nat)
    BY NatLessThanWellFounded
  <2> HIDE DEF above, less
  <2> QED
    BY <2>1, <2>2, WFMin
<1>4. \A u \in above : ~ (u < v)
  BY <1>3 DEF OpToRel
<1>5. PICK x \in rows : x.role = role /\ x.version = v /\ r.version < v
  OBVIOUS
<1>6. x.version # 1
  BY <1>1, <1>5
<1>7. PICK y \in rows : y.role = role /\ x.version = y.version + 1
  BY <1>5, <1>6 DEF IInv, TableInv, NoGaps
<1>8. y.version \notin above
  BY <1>1, <1>4, <1>5, <1>7
<1>9. y.version <= r.version
  BY <1>1, <1>7, <1>8
<1> QED
  BY <1>1, <1>5, <1>7, <1>9

(* A run whose version is not taken holds the newest document.             *)
LEMMA CountedIsTop ==
    ASSUME Numbered = Role, IInv, TableSerial, VersionsAreUnique', rows \subseteq rows',
           NEW j \in Job, NEW role \in Role, role \in Needs(pc[j]),
           NEW d \in rows', d.role = role, nextId <= d.id,
           d.version = seen[j][role].version + 1,
           NEW q, Top(q, role)
    PROVE  /\ seen[j][role] = q /\ IsLatest(q, role, rows) /\ q \in Row
           /\ \A r \in rows : r.role = role => r.version <= q.version
<1> DEFINE r == seen[j][role]
<1>1. r \in rows /\ r.role = role /\ r \in Row
  BY DEF IInv, JobInv, JobTyped, TableInv, TableTyped
<1>2. IsLatest(r, role, rows)
  <2> SUFFICES ASSUME NEW x \in rows, x.role = role, ~(x.version <= r.version)
               PROVE  FALSE
    BY <1>1 DEF IsLatest
  <2>1. r.version < x.version
    BY <1>1 DEF IInv, TableInv, TableTyped, Row
  <2>2. PICK y \in rows : y.role = role /\ y.version = r.version + 1
    BY <1>1, <2>1, NextIsTaken
  <2>3. y.id = d.id
    BY <2>2 DEF VersionsAreUnique
  <2>4. y.id \in Nat /\ y.id < nextId /\ nextId \in Nat
    BY DEF IInv, Shape, TableInv, TableTyped, Row
  <2> QED
    BY <2>3, <2>4
<1>3. r = q
  BY <1>2, LatestIsTop
<1> QED
  BY <1>1, <1>2, <1>3 DEF IsLatest

LEMMA FreshIsTop ==
    ASSUME IInv, TableSerial, NEW role \in Role, NEW r, IsLatest(r, role, rows),
           NEW q, Top(q, role)
    PROVE  /\ r = q /\ q \in Row
           /\ \A x \in rows : x.role = role => x.version <= q.version
<1>1. r = q
  BY LatestIsTop
<1> QED
  BY <1>1 DEF IsLatest, IInv, TableInv, TableTyped

(* A transaction replaces, with a document, every document above it, so    *)
(* the other runs stay fresh; the run that commits forgets what it read.   *)
LEMMA CommitKeepsFresh ==
    ASSUME IInv, JobsFresh, NEW docs, OnTop(docs), rows' = rows \cup docs,
           \A d \in docs : d.role = "targets" => \E e \in docs : e.role = "snapshot",
           \A d \in docs : d.role = "snapshot" => \E e \in docs : e.role = "timestamp",
           NEW j \in Job, NEW at, at \in {"idle", "listSnapshots", "listTimestamps"},
           pc' = [pc EXCEPT ![j] = at], seen' = [seen EXCEPT ![j] = Nothing]
    PROVE  JobsFresh'
<1> SUFFICES ASSUME NEW k \in Job PROVE JobFresh(k)'
  BY DEF JobsFresh
<1>1. CASE k = j
  <2>1. pc'[k] = at
    BY <1>1 DEF IInv, Shape
  <2> QED
    BY <2>1 DEF JobFresh
<1>2. CASE k # j
  <2>1. pc'[k] = pc[k] /\ seen'[k] = seen[k]
    BY <1>2 DEF IInv, Shape
  <2>2. /\ \A r \in rows : r.version \in Nat
        /\ \A d \in docs : d.version \in Nat
    BY DEF IInv, TableInv, TableTyped, OnTop, Row
  <2>3. ASSUME NEW role \in Role, seen[k][role] \in rows,
               IsLatest(seen[k][role], role, rows')
        PROVE  IsLatest(seen[k][role], role, rows) /\ \A d \in docs : d.role # role
    <3>1. IsLatest(seen[k][role], role, rows)
      BY <2>3 DEF IsLatest
    <3>2. ASSUME NEW d \in docs, d.role = role PROVE FALSE
      <4>1. d.version <= seen[k][role].version
        BY <2>3, <3>2 DEF IsLatest
      <4>2. seen[k][role].version < d.version
        BY <2>3, <3>1, <3>2 DEF OnTop, IsLatest
      <4> QED
        BY <2>2, <2>3, <4>1, <4>2
    <3> QED
      BY <3>1, <3>2
  <2>4. ASSUME NEW role \in Role, NEW r, IsLatest(r, role, rows),
               \A d \in docs : d.role # role
        PROVE  IsLatest(r, role, rows')
    BY <2>4 DEF IsLatest
  <2>5. ASSUME pc[k] \in {"readTimestampOnly", "commitSnapshot"},
               IsLatest(seen[k]["snapshot"], "snapshot", rows')
        PROVE  IsLatest(seen[k]["targets"], "targets", rows')
    <3>1. seen[k]["snapshot"] \in rows
      BY <2>5 DEF IInv, JobInv, JobTyped, Needs, Role
    <3>2. /\ IsLatest(seen[k]["snapshot"], "snapshot", rows)
          /\ \A d \in docs : d.role # "snapshot"
      BY <2>3, <2>5, <3>1 DEF Role
    <3>3. \A d \in docs : d.role # "targets"
      BY <3>2
    <3>4. IsLatest(seen[k]["targets"], "targets", rows)
      BY <2>5, <3>2 DEF JobsFresh, JobFresh
    <3> QED
      BY <2>4, <3>3, <3>4 DEF Role
  <2>6. ASSUME pc[k] = "commitTimestamp",
               IsLatest(seen[k]["timestamp"], "timestamp", rows')
        PROVE  IsLatest(seen[k]["snapshot"], "snapshot", rows')
    <3>1. seen[k]["timestamp"] \in rows
      BY <2>6 DEF IInv, JobInv, JobTyped, Needs, Role
    <3>2. /\ IsLatest(seen[k]["timestamp"], "timestamp", rows)
          /\ \A d \in docs : d.role # "timestamp"
      BY <2>3, <2>6, <3>1 DEF Role
    <3>3. \A d \in docs : d.role # "snapshot"
      BY <3>2
    <3>4. IsLatest(seen[k]["snapshot"], "snapshot", rows)
      BY <2>6, <3>2 DEF JobsFresh, JobFresh
    <3> QED
      BY <2>4, <3>3, <3>4 DEF Role
  <2> QED
    BY <2>1, <2>5, <2>6 DEF JobFresh
<1> QED
  BY <1>1, <1>2

(* The transaction of the rollout worker, and of the re-signer's targets.  *)
LEMMA FullChainSerial ==
    ASSUME Numbered = Role, AsIfSerial, IInv', VersionsAreUnique',
           NEW j \in Job, pc[j] = "commitTargets",
           NEW p \in Payload, rows' = rows \cup FullChain(j, p), published' = p,
           NEW at, at \in {"idle", "listSnapshots"},
           pc' = [pc EXCEPT ![j] = at], seen' = [seen EXCEPT ![j] = Nothing]
    PROVE  TableSerial' /\ JobsFresh' /\ RepositoryStep
<1> USE DEF AsIfSerial
<1>1. PICK t, s, m \in rows : Chain(t, s, m)
  BY DEF TableSerial
<1>2. Needs(pc[j]) = Role
  BY DEF Needs, Role
<1>3. /\ seen[j]["targets"] = t /\ \A r \in rows : r.role = "targets" => r.version <= t.version
      /\ seen[j]["snapshot"] = s /\ \A r \in rows : r.role = "snapshot" => r.version <= s.version
      /\ seen[j]["timestamp"] = m /\ \A r \in rows : r.role = "timestamp" => r.version <= m.version
      /\ t \in Row /\ s \in Row /\ m \in Row
  <2>1. /\ Top(t, "targets") /\ Top(s, "snapshot") /\ Top(m, "timestamp")
        /\ nextId \in Nat /\ rows \subseteq rows'
    BY <1>1 DEF Chain, IInv, Shape
  <2>2. PICK d \in rows' : /\ d.role = "targets" /\ nextId <= d.id
                           /\ d.version = seen[j]["targets"].version + 1
    <3> DEFINE x == TargetsDoc(j, nextId, p)
    <3>1. x \in rows'
      BY <2>1 DEF FullChain
    <3>2. /\ x.role = "targets" /\ nextId <= x.id
         /\ x.version = seen[j][x.role].version + 1
      BY <2>1 DEF TargetsDoc, NextVersion
    <3> QED
      BY <3>1, <3>2
  <2>3. PICK e \in rows' : /\ e.role = "snapshot" /\ nextId <= e.id
                           /\ e.version = seen[j]["snapshot"].version + 1
    <3> DEFINE x == SnapshotDoc(j, nextId + 1, nextId)
    <3>1. x \in rows'
      BY <2>1 DEF FullChain
    <3>2. /\ x.role = "snapshot" /\ nextId <= x.id
         /\ x.version = seen[j][x.role].version + 1
      BY <2>1 DEF SnapshotDoc, NextVersion
    <3> QED
      BY <3>1, <3>2
  <2>4. PICK f \in rows' : /\ f.role = "timestamp" /\ nextId <= f.id
                           /\ f.version = seen[j]["timestamp"].version + 1
    <3> DEFINE x == TimestampDoc(j, nextId + 2, nextId + 1)
    <3>1. x \in rows'
      BY <2>1 DEF FullChain
    <3>2. /\ x.role = "timestamp" /\ nextId <= x.id
         /\ x.version = seen[j][x.role].version + 1
      BY <2>1 DEF TimestampDoc, NextVersion
    <3> QED
      BY <3>1, <3>2
  <2>5. /\ seen[j]["targets"] = t /\ t \in Row
        /\ \A r \in rows : r.role = "targets" => r.version <= t.version
    BY <1>2, <2>1, <2>2, CountedIsTop DEF Role
  <2>6. /\ seen[j]["snapshot"] = s /\ s \in Row
        /\ \A r \in rows : r.role = "snapshot" => r.version <= s.version
    BY <1>2, <2>1, <2>3, CountedIsTop DEF Role
  <2>7. /\ seen[j]["timestamp"] = m /\ m \in Row
        /\ \A r \in rows : r.role = "timestamp" => r.version <= m.version
    BY <1>2, <2>1, <2>4, CountedIsTop DEF Role
  <2> QED
    BY <2>5, <2>6, <2>7
<1>4. PICK T, S, M, docs :
      /\ T = [id |-> nextId, role |-> "targets", version |-> t.version + 1,
              ref |-> 0, payload |-> p]
      /\ S = [id |-> nextId + 1, role |-> "snapshot", version |-> s.version + 1,
              ref |-> nextId, payload |-> NoPayload]
      /\ M = [id |-> nextId + 2, role |-> "timestamp", version |-> m.version + 1,
              ref |-> nextId + 1, payload |-> NoPayload]
      /\ docs = {T, S, M}
  OBVIOUS
<1>5. docs = {T, S, M} /\ rows' = rows \cup docs
  BY <1>3, <1>4 DEF FullChain, TargetsDoc, SnapshotDoc, TimestampDoc, NextVersion
<1>6. nextId \in Nat
  BY DEF IInv, Shape
<1>7. docs \subseteq Row
  BY <1>5 DEF IInv, TableInv, TableTyped
<1>8. \A r \in rows : r.version \in Nat
  BY DEF IInv, TableInv, TableTyped, Row
<1>9. OnTop(docs)
  <2>1. t.version \in Nat /\ s.version \in Nat /\ m.version \in Nat
    BY <1>1, <1>8
  <2>2. \A d \in {T, S, M} : /\ nextId <= d.id
                             /\ \A q \in rows : q.role = d.role => q.version < d.version
    BY <1>3, <1>4, <1>6, <1>8, <2>1
  <2>3. \A d, e \in {T, S, M} : d.role = e.role \/ d.id = e.id => d = e
    BY <1>4, <1>6
  <2> QED
    BY <1>5, <1>7, <2>2, <2>3 DEF OnTop
<1>10. IdsAreUnique' /\ VersionsFollowCommits' /\ \A d \in docs : Top(d, d.role)'
  BY <1>5, <1>9, InsertSerial
<1>11. Chain(T, S, M)'
  BY <1>4, <1>5, <1>10 DEF Chain
<1>12. T \in rows' /\ S \in rows' /\ M \in rows'
  BY <1>5
<1>13. Repository!Publish \/ Repository!Refresh
  <2>1. T.payload \in Payload /\ M.version = m.version + 1 /\ T.version = t.version + 1
        /\ S.version = s.version + 1
    BY <1>4
  <2> QED
    BY <1>1, <1>10, <1>11, <2>1, ChainsStep DEF TableSerial
<1>14. JobsFresh'
  BY <1>4, <1>5, <1>9, CommitKeepsFresh
<1> QED
  BY <1>10, <1>11, <1>12, <1>13, <1>14 DEF TableSerial, RepositoryStep

(* The transaction of a re-signed snapshot.                                *)
LEMMA SnapshotSerial ==
    ASSUME Numbered = Role, AsIfSerial, IInv', VersionsAreUnique',
           NEW j \in Job, pc[j] = "commitSnapshot", UNCHANGED published,
           rows' = rows \cup {SnapshotDoc(j, nextId, seen[j]["targets"].id),
                              TimestampDoc(j, nextId + 1, nextId)},
           pc' = [pc EXCEPT ![j] = "listTimestamps"], seen' = [seen EXCEPT ![j] = Nothing]
    PROVE  TableSerial' /\ JobsFresh' /\ RepositoryStep
<1> USE DEF AsIfSerial
<1>1. PICK t, s, m \in rows : Chain(t, s, m)
  BY DEF TableSerial
<1>2. Needs(pc[j]) = Role
  BY DEF Needs, Role
<1>3. /\ seen[j]["targets"] = t
      /\ seen[j]["snapshot"] = s /\ \A r \in rows : r.role = "snapshot" => r.version <= s.version
      /\ seen[j]["timestamp"] = m /\ \A r \in rows : r.role = "timestamp" => r.version <= m.version
      /\ t \in Row /\ s \in Row /\ m \in Row
  <2>1. /\ Top(t, "targets") /\ Top(s, "snapshot") /\ Top(m, "timestamp")
        /\ nextId \in Nat /\ rows \subseteq rows'
    BY <1>1 DEF Chain, IInv, Shape
  <2>2. PICK e \in rows' : /\ e.role = "snapshot" /\ nextId <= e.id
                           /\ e.version = seen[j]["snapshot"].version + 1
    <3> DEFINE x == SnapshotDoc(j, nextId, seen[j]["targets"].id)
    <3>1. x \in rows'
      BY <2>1
    <3>2. /\ x.role = "snapshot" /\ nextId <= x.id
         /\ x.version = seen[j][x.role].version + 1
      BY <2>1 DEF SnapshotDoc, NextVersion
    <3> QED
      BY <3>1, <3>2
  <2>3. PICK f \in rows' : /\ f.role = "timestamp" /\ nextId <= f.id
                           /\ f.version = seen[j]["timestamp"].version + 1
    <3> DEFINE x == TimestampDoc(j, nextId + 1, nextId)
    <3>1. x \in rows'
      BY <2>1
    <3>2. /\ x.role = "timestamp" /\ nextId <= x.id
         /\ x.version = seen[j][x.role].version + 1
      BY <2>1 DEF TimestampDoc, NextVersion
    <3> QED
      BY <3>1, <3>2
  <2>4. /\ seen[j]["snapshot"] = s /\ s \in Row /\ IsLatest(s, "snapshot", rows)
        /\ \A r \in rows : r.role = "snapshot" => r.version <= s.version
    BY <1>2, <2>1, <2>2, CountedIsTop DEF Role
  <2>5. /\ seen[j]["timestamp"] = m /\ m \in Row
        /\ \A r \in rows : r.role = "timestamp" => r.version <= m.version
    BY <1>2, <2>1, <2>3, CountedIsTop DEF Role
  <2>6. IsLatest(seen[j]["targets"], "targets", rows)
    BY <2>4 DEF JobsFresh, JobFresh
  <2>7. seen[j]["targets"] = t /\ t \in Row
    BY <2>1, <2>6, FreshIsTop DEF Role
  <2> QED
    BY <2>4, <2>5, <2>7
<1>4. PICK S, M, docs :
      /\ S = [id |-> nextId, role |-> "snapshot", version |-> s.version + 1,
              ref |-> t.id, payload |-> NoPayload]
      /\ M = [id |-> nextId + 1, role |-> "timestamp", version |-> m.version + 1,
              ref |-> nextId, payload |-> NoPayload]
      /\ docs = {S, M}
  OBVIOUS
<1>5. docs = {S, M} /\ rows' = rows \cup docs
  BY <1>3, <1>4 DEF SnapshotDoc, TimestampDoc, NextVersion
<1>6. nextId \in Nat
  BY DEF IInv, Shape
<1>7. docs \subseteq Row
  BY <1>5 DEF IInv, TableInv, TableTyped
<1>8. \A r \in rows : r.version \in Nat
  BY DEF IInv, TableInv, TableTyped, Row
<1>9. OnTop(docs)
  <2>1. s.version \in Nat /\ m.version \in Nat
    BY <1>1, <1>8
  <2>2. \A d \in {S, M} : /\ nextId <= d.id
                          /\ \A q \in rows : q.role = d.role => q.version < d.version
    BY <1>3, <1>4, <1>6, <1>8, <2>1
  <2>3. \A d, e \in {S, M} : d.role = e.role \/ d.id = e.id => d = e
    BY <1>4, <1>6
  <2> QED
    BY <1>5, <1>7, <2>2, <2>3 DEF OnTop
<1>10. IdsAreUnique' /\ VersionsFollowCommits' /\ \A d \in docs : Top(d, d.role)'
  BY <1>5, <1>9, InsertSerial
<1>11. Top(t, "targets")'
  <2>1. \A d \in docs : d.role # "targets"
    BY <1>4
  <2> QED
    BY <1>1, <1>5, <1>9, <2>1, InsertSerial DEF Chain, Role
<1>12. Chain(t, S, M)'
  BY <1>1, <1>4, <1>5, <1>10, <1>11 DEF Chain
<1>13. t \in rows' /\ S \in rows' /\ M \in rows'
  BY <1>5
<1>14. Repository!Publish \/ Repository!Refresh
  <2>1. M.version = m.version + 1 /\ S.version = s.version + 1
    BY <1>4
  <2>2. t.payload \in Payload
    BY <1>1 DEF Chain, IInv, Shape
  <2> QED
    BY <1>1, <1>10, <1>12, <2>1, <2>2, ChainsStep DEF TableSerial
<1>15. JobsFresh'
  BY <1>4, <1>5, <1>9, CommitKeepsFresh
<1> QED
  BY <1>10, <1>12, <1>13, <1>14, <1>15 DEF TableSerial, RepositoryStep

(* The transaction of a re-signed timestamp.                               *)
LEMMA TimestampSerial ==
    ASSUME Numbered = Role, AsIfSerial, IInv', VersionsAreUnique',
           NEW j \in Job, pc[j] = "commitTimestamp", UNCHANGED published,
           rows' = rows \cup {TimestampDoc(j, nextId, seen[j]["snapshot"].id)},
           pc' = [pc EXCEPT ![j] = "idle"], seen' = [seen EXCEPT ![j] = Nothing]
    PROVE  TableSerial' /\ JobsFresh' /\ RepositoryStep
<1> USE DEF AsIfSerial
<1>1. PICK t, s, m \in rows : Chain(t, s, m)
  BY DEF TableSerial
<1>2. Needs(pc[j]) = {"timestamp", "snapshot"}
  BY DEF Needs
<1>3. /\ seen[j]["snapshot"] = s
      /\ seen[j]["timestamp"] = m /\ \A r \in rows : r.role = "timestamp" => r.version <= m.version
      /\ t \in Row /\ s \in Row /\ m \in Row
  <2>1. /\ Top(t, "targets") /\ Top(s, "snapshot") /\ Top(m, "timestamp")
        /\ nextId \in Nat /\ rows \subseteq rows'
    BY <1>1 DEF Chain, IInv, Shape
  <2>2. PICK f \in rows' : /\ f.role = "timestamp" /\ nextId <= f.id
                           /\ f.version = seen[j]["timestamp"].version + 1
    <3> DEFINE x == TimestampDoc(j, nextId, seen[j]["snapshot"].id)
    <3>1. x \in rows'
      BY <2>1
    <3>2. /\ x.role = "timestamp" /\ nextId <= x.id
         /\ x.version = seen[j][x.role].version + 1
      BY <2>1 DEF TimestampDoc, NextVersion
    <3> QED
      BY <3>1, <3>2
  <2>3. /\ seen[j]["timestamp"] = m /\ m \in Row /\ IsLatest(m, "timestamp", rows)
        /\ \A r \in rows : r.role = "timestamp" => r.version <= m.version
    BY <1>2, <2>1, <2>2, CountedIsTop DEF Role
  <2>4. IsLatest(seen[j]["snapshot"], "snapshot", rows)
    BY <2>3 DEF JobsFresh, JobFresh
  <2>5. seen[j]["snapshot"] = s /\ s \in Row
    BY <2>1, <2>4, FreshIsTop DEF Role
  <2> QED
    BY <2>3, <2>5 DEF IInv, TableInv, TableTyped
<1>4. PICK M, docs :
      /\ M = [id |-> nextId, role |-> "timestamp", version |-> m.version + 1,
              ref |-> s.id, payload |-> NoPayload]
      /\ docs = {M}
  OBVIOUS
<1>5. docs = {M} /\ rows' = rows \cup docs
  BY <1>3, <1>4 DEF TimestampDoc, NextVersion
<1>6. nextId \in Nat
  BY DEF IInv, Shape
<1>7. docs \subseteq Row
  BY <1>5 DEF IInv, TableInv, TableTyped
<1>8. \A r \in rows : r.version \in Nat
  BY DEF IInv, TableInv, TableTyped, Row
<1>9. OnTop(docs)
  <2>1. /\ nextId <= M.id
        /\ \A q \in rows : q.role = M.role => q.version < M.version
    BY <1>1, <1>3, <1>4, <1>6, <1>8
  <2> QED
    BY <1>5, <1>7, <2>1 DEF OnTop
<1>10. IdsAreUnique' /\ VersionsFollowCommits' /\ \A d \in docs : Top(d, d.role)'
  BY <1>5, <1>9, InsertSerial
<1>11. Top(t, "targets")' /\ Top(s, "snapshot")'
  <2>1. \A d \in docs : d.role # "targets" /\ d.role # "snapshot"
    BY <1>4
  <2> QED
    BY <1>1, <1>5, <1>9, <2>1, InsertSerial DEF Chain, Role
<1>12. Chain(t, s, M)'
  BY <1>1, <1>4, <1>5, <1>10, <1>11 DEF Chain
<1>13. t \in rows' /\ s \in rows' /\ M \in rows'
  BY <1>5
<1>14. Repository!Publish \/ Repository!Refresh
  <2>1. M.version = m.version + 1
    BY <1>4
  <2>2. t.payload \in Payload
    BY <1>1 DEF Chain, IInv, Shape
  <2> QED
    BY <1>1, <1>10, <1>12, <2>1, <2>2, ChainsStep DEF TableSerial
<1>15. JobsFresh'
  <2>1. \A d \in docs : d.role # "targets" /\ d.role # "snapshot"
    BY <1>4
  <2>2. IInv /\ JobsFresh /\ "idle" \in {"idle", "listSnapshots", "listTimestamps"}
    OBVIOUS
  <2> QED
    BY <1>5, <1>9, <2>1, <2>2, CommitKeepsFresh
<1> QED
  BY <1>10, <1>12, <1>13, <1>14, <1>15 DEF TableSerial, RepositoryStep

-----------------------------------------------------------------------------
(* Every step of a run, whatever the others do.                            *)
LEMMA ReadSerial ==
    ASSUME AsIfSerial, NEW j \in Job, NEW role \in Role, NEW from, NEW to,
           Goto(j, from, to), Read(j, role), UNCHANGED <<rows, published>>,
           to \in {"readTimestampOnly", "commitSnapshot"} =>
               role = "targets" \/ (role = "timestamp" /\ from = "readTimestampOnly"),
           to = "commitTimestamp" => role = "snapshot"
    PROVE  TableSerial' /\ JobsFresh' /\ RepositoryStep
<1> USE DEF AsIfSerial, IInv
<1>1. PICK r \in rows : /\ IsLatest(r, role, rows)
                       /\ seen' = [seen EXCEPT ![j][role] = r]
  BY DEF Read
<1>2. PICK known \in [Role -> Row \cup {NoRow}] : known = [seen[j] EXCEPT ![role] = r]
  BY DEF Shape, TableInv, TableTyped
<1>3. seen' = [seen EXCEPT ![j] = known]
  BY <1>1, <1>2 DEF Shape
<1>4. \A x \in Role : known[x] = IF x = role THEN r ELSE seen[j][x]
  BY <1>2 DEF Shape
<1>5. pc' = [pc EXCEPT ![j] = to] /\ pc[j] = from
  BY DEF Goto
<1>6. pc'[j] = to /\ seen'[j] = known /\ rows' = rows
  BY <1>3, <1>5 DEF Shape
<1>7. JobFresh(j)
  BY DEF JobsFresh
<1>8. JobFresh(j)'
  BY <1>1, <1>4, <1>5, <1>6, <1>7 DEF JobFresh, Role
<1> HIDE DEF AsIfSerial, IInv
<1> QED
  BY <1>3, <1>5, <1>8, QuietStep DEF AsIfSerial

LEMMA MoveSerial ==
    ASSUME AsIfSerial, NEW j \in Job, NEW from, NEW to,
           Goto(j, from, to), UNCHANGED <<rows, published, seen>>,
           to \notin {"readTimestampOnly", "commitSnapshot", "commitTimestamp"}
    PROVE  TableSerial' /\ JobsFresh' /\ RepositoryStep
<1>1. PICK known \in [Role -> Row \cup {NoRow}] : known = seen[j]
  BY DEF AsIfSerial, IInv, Shape
<1>2. seen' = [seen EXCEPT ![j] = known]
  BY <1>1 DEF AsIfSerial, IInv, Shape
<1>3. pc' = [pc EXCEPT ![j] = to] /\ pc'[j] = to
  BY DEF Goto, AsIfSerial, IInv, Shape
<1>4. JobFresh(j)'
  BY <1>3 DEF JobFresh
<1> QED
  BY <1>2, <1>3, <1>4, QuietStep DEF AsIfSerial

LEMMA ForgetSerial ==
    ASSUME AsIfSerial, NEW j \in Job, NEW to,
           to \notin {"readTimestampOnly", "commitSnapshot", "commitTimestamp"},
           pc' = [pc EXCEPT ![j] = to], seen' = [seen EXCEPT ![j] = Nothing],
           UNCHANGED <<rows, published>>
    PROVE  TableSerial' /\ JobsFresh' /\ RepositoryStep
<1>1. PICK known \in [Role -> Row \cup {NoRow}] : known = Nothing
  <2>1. Nothing \in [Role -> Row \cup {NoRow}]
    BY DEF Nothing
  <2> QED
    BY <2>1, Zenon
<1>2. seen' = [seen EXCEPT ![j] = known] /\ pc'[j] = to
  BY <1>1 DEF AsIfSerial, IInv, Shape
<1>3. JobFresh(j)'
  BY <1>2 DEF JobFresh
<1> QED
  BY <1>2, <1>3, QuietStep DEF AsIfSerial

LEMMA RolloutSerial ==
    ASSUME Numbered = Role, AsIfSerial, IInv', VersionsAreUnique',
           NEW j \in RolloutJob, RolloutStep(j)
    PROVE  TableSerial' /\ JobsFresh' /\ RepositoryStep
<1> j \in Job
  BY DEF Job
<1> USE DEF Role
<1>1. ASSUME NEW p \in Payload, StartRollout(j, p)
      PROVE  TableSerial' /\ JobsFresh' /\ RepositoryStep
  BY <1>1, MoveSerial DEF StartRollout
<1>2. CASE RolloutReadTargets(j)
  BY <1>2, ReadSerial DEF RolloutReadTargets
<1>3. CASE ReadSnapshot(j)
  BY <1>3, ReadSerial DEF ReadSnapshot
<1>4. CASE ReadTimestamp(j)
  BY <1>4, ReadSerial DEF ReadTimestamp
<1>5. CASE CommitRollout(j)
  <2>1. /\ pc[j] = "commitTargets" /\ pc' = [pc EXCEPT ![j] = "idle"]
        /\ seen' = [seen EXCEPT ![j] = Nothing]
        /\ rows' = rows \cup FullChain(j, plan[j]) /\ published' = plan[j]
    BY <1>5 DEF CommitRollout, Goto, Insert
  <2>2. PICK p \in Payload : p = plan[j]
    BY DEF AsIfSerial, IInv, Shape
  <2> QED
    BY <2>1, <2>2, FullChainSerial
<1> QED
  BY <1>1, <1>2, <1>3, <1>4, <1>5 DEF RolloutStep

LEMMA ResignSerial ==
    ASSUME Numbered = Role, AsIfSerial, IInv', VersionsAreUnique',
           NEW j \in ResignJob, ResignStep(j)
    PROVE  TableSerial' /\ JobsFresh' /\ RepositoryStep
<1> j \in Job
  BY DEF Job
<1> USE DEF Role
<1>1. CASE ListTargets(j)
  BY <1>1, ReadSerial DEF ListTargets
<1>2. CASE TargetsExpiring(j)
  BY <1>2, MoveSerial DEF TargetsExpiring
<1>3. CASE TargetsFresh(j)
  BY <1>3, ForgetSerial DEF TargetsFresh, Goto
<1>4. CASE ReadSnapshot(j)
  BY <1>4, ReadSerial DEF ReadSnapshot
<1>5. CASE ReadTimestamp(j)
  BY <1>5, ReadSerial DEF ReadTimestamp
<1>6. CASE CommitResignedTargets(j)
  <2>1. /\ pc[j] = "commitTargets" /\ pc' = [pc EXCEPT ![j] = "listSnapshots"]
        /\ seen' = [seen EXCEPT ![j] = Nothing] /\ UNCHANGED published
        /\ rows' = rows \cup FullChain(j, seen[j]["targets"].payload)
    BY <1>6 DEF CommitResignedTargets, Goto, Insert
  <2>2. PICK t, s, m \in rows : Chain(t, s, m)
    BY DEF AsIfSerial, TableSerial
  <2>3. seen[j]["targets"] = t
    <3>1. Top(t, "targets") /\ nextId \in Nat /\ rows \subseteq rows'
      BY <2>1, <2>2 DEF Chain, AsIfSerial, IInv, Shape
    <3>2. PICK d \in rows' : /\ d.role = "targets" /\ nextId <= d.id
                             /\ d.version = seen[j]["targets"].version + 1
      <4> DEFINE x == TargetsDoc(j, nextId, seen[j]["targets"].payload)
      <4>1. x \in rows'
        BY <2>1 DEF FullChain
      <4>2. /\ x.role = "targets" /\ nextId <= x.id
            /\ x.version = seen[j]["targets"].version + 1
        BY <3>1 DEF TargetsDoc, NextVersion
      <4> QED
        BY <4>1, <4>2
    <3> QED
      BY <2>1, <3>1, <3>2, CountedIsTop DEF Needs, AsIfSerial
  <2>4. PICK p \in Payload : p = seen[j]["targets"].payload /\ p = published
    BY <2>2, <2>3 DEF Chain, AsIfSerial, IInv, Shape
  <2> QED
    BY <2>1, <2>4, FullChainSerial
<1>7. CASE ListSnapshots(j)
  BY <1>7, ReadSerial DEF ListSnapshots
<1>8. CASE SnapshotFresh(j)
  BY <1>8, ForgetSerial DEF SnapshotFresh, Goto
<1>9. CASE SnapshotExpiring(j)
  BY <1>9, ReadSerial DEF SnapshotExpiring
<1>10. CASE ReadTimestampOnly(j)
  BY <1>10, ReadSerial DEF ReadTimestampOnly
<1>11. CASE CommitSnapshot(j)
  <2>1. /\ pc[j] = "commitSnapshot" /\ pc' = [pc EXCEPT ![j] = "listTimestamps"]
        /\ seen' = [seen EXCEPT ![j] = Nothing] /\ UNCHANGED published
        /\ rows' = rows \cup {SnapshotDoc(j, nextId, seen[j]["targets"].id),
                              TimestampDoc(j, nextId + 1, nextId)}
    BY <1>11 DEF CommitSnapshot, Goto, Insert
  <2> QED
    BY <2>1, SnapshotSerial
<1>12. CASE ListTimestamps(j)
  BY <1>12, ReadSerial DEF ListTimestamps
<1>13. CASE TimestampFresh(j)
  BY <1>13, ForgetSerial DEF TimestampFresh, Goto
<1>14. CASE TimestampExpiring(j)
  BY <1>14, ReadSerial DEF TimestampExpiring
<1>15. CASE CommitTimestamp(j)
  <2>1. /\ pc[j] = "commitTimestamp" /\ pc' = [pc EXCEPT ![j] = "idle"]
        /\ seen' = [seen EXCEPT ![j] = Nothing] /\ UNCHANGED published
        /\ rows' = rows \cup {TimestampDoc(j, nextId, seen[j]["snapshot"].id)}
    BY <1>15 DEF CommitTimestamp, Goto, Insert
  <2> QED
    BY <2>1, TimestampSerial
<1>16. CASE SkipDocument(j)
  BY <1>16, ForgetSerial DEF SkipDocument
<1> QED
  BY <1>1, <1>2, <1>3, <1>4, <1>5, <1>6, <1>7, <1>8, <1>9, <1>10, <1>11, <1>12,
     <1>13, <1>14, <1>15, <1>16 DEF ResignStep

LEMMA NextUnique ==
    ASSUME Numbered = Role
    PROVE  UniqueInv /\ [Next]_vars =>
               UniqueInv' /\ [VersionsAreUnique' =>
                                  Repository!Publish \/ Repository!Refresh]_Current
<1> SUFFICES ASSUME UniqueInv, [Next]_vars
             PROVE  /\ UniqueInv'
                    /\ [VersionsAreUnique' => Repository!Publish \/ Repository!Refresh]_Current
  OBVIOUS
<1>1. IInv' /\ [AppendBatch]_rows
  BY NextKeeps DEF UniqueInv
<1>2. ASSUME VersionsAreUnique' PROVE AsIfSerial' /\ RepositoryStep
  <2>1. VersionsAreUnique
    BY <1>1, <1>2 DEF VersionsAreUnique, AppendBatch
  <2>2. AsIfSerial
    BY <2>1 DEF UniqueInv
  <2>3. ASSUME NEW j \in Job, Stop(j)
        PROVE  TableSerial' /\ JobsFresh' /\ RepositoryStep
    BY <2>2, <2>3, ForgetSerial DEF Stop
  <2>4. ASSUME UNCHANGED vars
        PROVE  TableSerial' /\ JobsFresh' /\ RepositoryStep
    <3>1. TableSerial'
      BY <2>2, <2>4 DEF vars, AsIfSerial, TableSerial, IdsAreUnique, VersionsFollowCommits,
                        Chain, Top
    <3>2. JobsFresh'
      BY <2>2, <2>4 DEF vars, AsIfSerial, JobsFresh, JobFresh
    <3>3. UNCHANGED Current
      BY <2>4 DEF vars, Current, Served
    <3> QED
      BY <3>1, <3>2, <3>3 DEF RepositoryStep
  <2>5. TableSerial' /\ JobsFresh' /\ RepositoryStep
    BY <1>1, <1>2, <2>2, <2>3, <2>4, RolloutSerial, ResignSerial DEF Next
  <2> QED
    BY <1>1, <2>5 DEF AsIfSerial
<1>3. UniqueInv'
  BY <1>1, <1>2 DEF UniqueInv
<1> QED
  BY <1>2, <1>3 DEF RepositoryStep

LEMMA InitUnique == Init => UniqueInv
<1> SUFFICES ASSUME Init PROVE UniqueInv
  OBVIOUS
<1>0. PICK p \in Payload :
        /\ rows = {[id |-> 1, role |-> "targets", version |-> 1, ref |-> 0,
                    payload |-> p],
                   [id |-> 2, role |-> "snapshot", version |-> 1, ref |-> 1,
                    payload |-> NoPayload],
                   [id |-> 3, role |-> "timestamp", version |-> 1, ref |-> 2,
                    payload |-> NoPayload]}
        /\ published = p
        /\ pc = [j \in Job |-> "idle"]
  BY DEF Init
<1>1. PICK t, s, m :
        /\ t = [id |-> 1, role |-> "targets", version |-> 1, ref |-> 0, payload |-> p]
        /\ s = [id |-> 2, role |-> "snapshot", version |-> 1, ref |-> 1, payload |-> NoPayload]
        /\ m = [id |-> 3, role |-> "timestamp", version |-> 1, ref |-> 2, payload |-> NoPayload]
        /\ rows = {t, s, m}
  BY <1>0
<1>2. Chain(t, s, m)
  BY <1>0, <1>1 DEF Chain, Top
<1>3. IdsAreUnique /\ VersionsFollowCommits
  BY <1>1 DEF IdsAreUnique, VersionsFollowCommits
<1>4. JobsFresh
  BY <1>0 DEF JobsFresh, JobFresh
<1> QED
  BY <1>1, <1>2, <1>3, <1>4, InitIInv DEF UniqueInv, AsIfSerial, TableSerial

-----------------------------------------------------------------------------
(* However the runs of the rollout worker and the re-signer overlap and    *)
(* fail, the served documents hash each other unless some version was      *)
(* signed twice.                                                           *)
THEOREM CoherentWhileUnique == ASSUME Numbered = Role PROVE Spec => []Coherent
<1>1. UniqueInv => Coherent
  <2> SUFFICES ASSUME UniqueInv, VersionsAreUnique
               PROVE  /\ Served("timestamp").ref = Served("snapshot").id
                      /\ Served("snapshot").ref = Served("targets").id
    BY DEF Coherent
  <2>1. PICK t, s, m \in rows : Chain(t, s, m)
    BY DEF UniqueInv, AsIfSerial, TableSerial
  <2> QED
    BY <2>1, ServedChain DEF UniqueInv, AsIfSerial, TableSerial, Chain
<1> QED
  BY <1>1, InitUnique, NextUnique, PTL DEF Spec

(* A rollout that commits while a re-signer holds an older list is served  *)
(* until the next one, unless some version was signed twice.               *)
THEOREM NoRolloutLostWhileUnique == ASSUME Numbered = Role PROVE Spec => []NoRolloutLost
<1>1. UniqueInv => NoRolloutLost
  <2> SUFFICES ASSUME UniqueInv, VersionsAreUnique
               PROVE  Served("targets").payload = published
    BY DEF NoRolloutLost
  <2>1. PICK t, s, m \in rows : Chain(t, s, m)
    BY DEF UniqueInv, AsIfSerial, TableSerial
  <2> QED
    BY <2>1, ServedChain DEF UniqueInv, AsIfSerial, TableSerial, Chain
<1> QED
  BY <1>1, InitUnique, NextUnique, PTL DEF Spec

(* Every transaction that signs no version twice is one publication or one *)
(* refresh of the atomic repository, whatever the run that commits it read *)
(* before, and every other step of the workers is invisible to robots.     *)
THEOREM JobsServeAtomically == ASSUME Numbered = Role PROVE Spec => ServesAtomically
BY InitUnique, NextUnique, PTL DEF Spec, ServesAtomically
=============================================================================

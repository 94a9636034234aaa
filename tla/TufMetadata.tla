---------------------------- MODULE TufMetadata ----------------------------
(***************************************************************************)
(* The director metadata of one robot and the background jobs that write   *)
(* it: the rollout worker (generateNewMetadata) and the three phases of    *)
(* the TUF re-signer.  Every job reads the newest documents one query at a *)
(* time, computes the next versions in memory and commits its documents in *)
(* one database transaction.  Nothing orders the jobs: both crons fire in  *)
(* the same process at the top of the hour, every await lets another job   *)
(* run, and node-schedule starts a run whether or not the last one ended.  *)
(*                                                                         *)
(* Time is left out: whether a listed document is about to expire is a     *)
(* nondeterministic choice.                                                *)
(***************************************************************************)
EXTENDS MetadataLog

CONSTANTS RolloutJob,   \* runs of the rollout worker that reach this robot
          ResignJob,    \* runs of the re-signer
          NoRow,        \* "not read"
          MaxVersion    \* bound: no document above this version is written

Job == RolloutJob \cup ResignJob

ASSUME JobAssumption == RolloutJob \cap ResignJob = {}
ASSUME NumberedAssumption ==
    {"snapshot", "timestamp"} \subseteq Numbered /\ Numbered \subseteq Role
ASSUME BoundAssumption == MaxVersion \in Nat \ {0}
ASSUME PayloadAssumption == NoPayload \notin Payload /\ Payload # {}
ASSUME NoRowAssumption == NoRow \notin Row

VARIABLES pc,           \* pc[j]: the query or transaction job j does next
          seen,         \* seen[j][role]: the row j read for role, if any
          plan,         \* plan[j]: the payload a rollout run is to publish
          nextId,       \* the id of the next row to be inserted
          published     \* history: the payload the last rollout committed

vars == <<rows, pc, seen, plan, nextId, published>>

PC == {"idle",
       "readTargets", "readSnapshot", "readTimestamp", "commitTargets",
       "listTargets", "targetsListed",
       "listSnapshots", "snapshotsListed", "readTimestampOnly", "commitSnapshot",
       "listTimestamps", "timestampsListed", "commitTimestamp"}

Nothing == [role \in Role |-> NoRow]

-----------------------------------------------------------------------------
(* Registration of the ECUs inserts version 1 of every role at once.       *)
Init ==
    \E p \in Payload :
        /\ rows = {[id |-> 1, role |-> "targets", version |-> 1, ref |-> 0,
                    payload |-> p],
                   [id |-> 2, role |-> "snapshot", version |-> 1, ref |-> 1,
                    payload |-> NoPayload],
                   [id |-> 3, role |-> "timestamp", version |-> 1, ref |-> 2,
                    payload |-> NoPayload]}
        /\ nextId = 4
        /\ published = p
        /\ pc = [j \in Job |-> "idle"]
        /\ seen = [j \in Job |-> Nothing]
        /\ plan = [j \in Job |-> p]

(* One query: job j reads a newest document of role.  Two rows can share   *)
(* the highest version; the database may then return either.               *)
Read(j, role) ==
    \E r \in rows :
        /\ IsLatest(r, role, rows)
        /\ seen' = [seen EXCEPT ![j][role] = r]

Goto(j, from, to) ==
    /\ pc[j] = from
    /\ pc' = [pc EXCEPT ![j] = to]

-----------------------------------------------------------------------------
(* generateNewMetadata: three separate version queries, then one           *)
(* transaction of three inserts.                                           *)
StartRollout(j, p) ==
    /\ Goto(j, "idle", "readTargets")
    /\ plan' = [plan EXCEPT ![j] = p]
    /\ UNCHANGED <<rows, seen, nextId, published>>

RolloutReadTargets(j) ==
    /\ Goto(j, "readTargets", "readSnapshot")
    /\ Read(j, "targets")
    /\ UNCHANGED <<rows, plan, nextId, published>>

(* The next two queries are the same in generateNewMetadata and in         *)
(* processTargetRoles.                                                     *)
ReadSnapshot(j) ==
    /\ Goto(j, "readSnapshot", "readTimestamp")
    /\ Read(j, "snapshot")
    /\ UNCHANGED <<rows, plan, nextId, published>>

(* Mutant of ReadTimestamp: the targets version is looked up last.         *)
ReadTimestampTargetsLast(j) ==
    /\ Goto(j, "readTimestamp", "commitTargets")
    /\ \E t, m \in rows :
          /\ IsLatest(t, "targets", rows)
          /\ IsLatest(m, "timestamp", rows)
          /\ seen' = [seen EXCEPT ![j]["targets"] = t, ![j]["timestamp"] = m]
    /\ UNCHANGED <<rows, plan, nextId, published>>

ReadTimestamp(j) ==
    /\ Goto(j, "readTimestamp", "commitTargets")
    /\ Read(j, "timestamp")
    /\ UNCHANGED <<rows, plan, nextId, published>>

(* Mutant of NextVersion: one too many.                                    *)
NextVersionSkips(j, role) == seen[j][role].version + 2

(* The documents a transaction inserts: each one version above the         *)
(* document its job read, each hashing the one signed just before it.      *)
NextVersion(j, role) == seen[j][role].version + 1

(* Mutant of TargetsDoc: the list of images is not copied.                 *)
TargetsDocEmpty(j, id, p) ==
    [id |-> id, role |-> "targets", version |-> NextVersion(j, "targets"),
     ref |-> 0, payload |-> NoPayload]

TargetsDoc(j, id, p) ==
    [id |-> id, role |-> "targets", version |-> NextVersion(j, "targets"),
     ref |-> 0, payload |-> p]

SnapshotDoc(j, id, ref) ==
    [id |-> id, role |-> "snapshot", version |-> NextVersion(j, "snapshot"),
     ref |-> ref, payload |-> NoPayload]

TimestampDoc(j, id, ref) ==
    [id |-> id, role |-> "timestamp", version |-> NextVersion(j, "timestamp"),
     ref |-> ref, payload |-> NoPayload]

WithinBound(docs) == \A d \in docs : d.version <= MaxVersion

Insert(docs) ==
    /\ WithinBound(docs)
    /\ rows' = rows \cup docs

(* Mutant of FullChain: the transaction leaves the snapshot out.           *)
FullChainNoSnapshot(j, p) == {TargetsDoc(j, nextId, p),
                              TimestampDoc(j, nextId + 2, nextId + 1)}

FullChain(j, p) == {TargetsDoc(j, nextId, p),
                    SnapshotDoc(j, nextId + 1, nextId),
                    TimestampDoc(j, nextId + 2, nextId + 1)}

(* The run is over once the robot's documents are in.                      *)
CommitRollout(j) ==
    /\ Goto(j, "commitTargets", "idle")
    /\ Insert(FullChain(j, plan[j]))
    /\ nextId' = nextId + 3
    /\ published' = plan[j]
    /\ seen' = [seen EXCEPT ![j] = Nothing]
    /\ UNCHANGED plan

-----------------------------------------------------------------------------
(* resignTufRoles: the three phases run one after the other, each from a   *)
(* list of newest documents that one query read before the loop.           *)
ListTargets(j) ==
    /\ Goto(j, "idle", "targetsListed")
    /\ Read(j, "targets")
    /\ UNCHANGED <<rows, plan, nextId, published>>

TargetsExpiring(j) ==
    /\ Goto(j, "targetsListed", "readSnapshot")
    /\ UNCHANGED <<rows, seen, plan, nextId, published>>

TargetsFresh(j) ==
    /\ Goto(j, "targetsListed", "listSnapshots")
    /\ seen' = [seen EXCEPT ![j] = Nothing]
    /\ UNCHANGED <<rows, plan, nextId, published>>

(* Mutant of CommitResignedTargets: signs the initial list of images again *)
(* (TUF_METADATA_INITIAL for TUF_METADATA_LATEST).                         *)
CommitResignedInitial(j) ==
    /\ Goto(j, "commitTargets", "listSnapshots")
    /\ \E r \in rows : /\ r.role = "targets" /\ r.version = 1
                       /\ Insert(FullChain(j, r.payload))
    /\ nextId' = nextId + 3
    /\ seen' = [seen EXCEPT ![j] = Nothing]
    /\ UNCHANGED <<plan, published>>

(* The listed targets are signed again, content and custom field as they   *)
(* were when the list was read.                                            *)
CommitResignedTargets(j) ==
    /\ Goto(j, "commitTargets", "listSnapshots")
    /\ Insert(FullChain(j, seen[j]["targets"].payload))
    /\ nextId' = nextId + 3
    /\ seen' = [seen EXCEPT ![j] = Nothing]
    /\ UNCHANGED <<plan, published>>

ListSnapshots(j) ==
    /\ Goto(j, "listSnapshots", "snapshotsListed")
    /\ Read(j, "snapshot")
    /\ UNCHANGED <<rows, plan, nextId, published>>

SnapshotFresh(j) ==
    /\ Goto(j, "snapshotsListed", "listTimestamps")
    /\ seen' = [seen EXCEPT ![j] = Nothing]
    /\ UNCHANGED <<rows, plan, nextId, published>>

SnapshotExpiring(j) ==
    /\ Goto(j, "snapshotsListed", "readTimestampOnly")
    /\ Read(j, "targets")
    /\ UNCHANGED <<rows, plan, nextId, published>>

ReadTimestampOnly(j) ==
    /\ Goto(j, "readTimestampOnly", "commitSnapshot")
    /\ Read(j, "timestamp")
    /\ UNCHANGED <<rows, plan, nextId, published>>

(* Mutant of CommitSnapshot: no new timestamp for the new snapshot.        *)
CommitSnapshotAlone(j) ==
    /\ Goto(j, "commitSnapshot", "listTimestamps")
    /\ Insert({SnapshotDoc(j, nextId, seen[j]["targets"].id)})
    /\ nextId' = nextId + 2
    /\ seen' = [seen EXCEPT ![j] = Nothing]
    /\ UNCHANGED <<plan, published>>

CommitSnapshot(j) ==
    /\ Goto(j, "commitSnapshot", "listTimestamps")
    /\ Insert({SnapshotDoc(j, nextId, seen[j]["targets"].id),
               TimestampDoc(j, nextId + 1, nextId)})
    /\ nextId' = nextId + 2
    /\ seen' = [seen EXCEPT ![j] = Nothing]
    /\ UNCHANGED <<plan, published>>

ListTimestamps(j) ==
    /\ Goto(j, "listTimestamps", "timestampsListed")
    /\ Read(j, "timestamp")
    /\ UNCHANGED <<rows, plan, nextId, published>>

TimestampFresh(j) ==
    /\ Goto(j, "timestampsListed", "idle")
    /\ seen' = [seen EXCEPT ![j] = Nothing]
    /\ UNCHANGED <<rows, plan, nextId, published>>

TimestampExpiring(j) ==
    /\ Goto(j, "timestampsListed", "commitTimestamp")
    /\ Read(j, "snapshot")
    /\ UNCHANGED <<rows, plan, nextId, published>>

CommitTimestamp(j) ==
    /\ Goto(j, "commitTimestamp", "idle")
    /\ Insert({TimestampDoc(j, nextId, seen[j]["snapshot"].id)})
    /\ nextId' = nextId + 1
    /\ seen' = [seen EXCEPT ![j] = Nothing]
    /\ UNCHANGED <<plan, published>>

-----------------------------------------------------------------------------
(* A key that cannot be read, a query or a transaction that fails: the     *)
(* rollout worker gives its run up, and so does the re-signer on a failed  *)
(* list query.  A crash of the process stops every run.                    *)
Stop(j) ==
    /\ pc[j] # "idle"
    /\ pc' = [pc EXCEPT ![j] = "idle"]
    /\ seen' = [seen EXCEPT ![j] = Nothing]
    /\ UNCHANGED <<rows, plan, nextId, published>>

(* Within its loops the re-signer catches the exception and goes on: with  *)
(* one robot, to its next phase.                                           *)
SkipDocument(j) ==
    /\ \/ /\ pc[j] \in {"readSnapshot", "readTimestamp", "commitTargets"}
          /\ pc' = [pc EXCEPT ![j] = "listSnapshots"]
       \/ /\ pc[j] \in {"readTimestampOnly", "commitSnapshot"}
          /\ pc' = [pc EXCEPT ![j] = "listTimestamps"]
    /\ seen' = [seen EXCEPT ![j] = Nothing]
    /\ UNCHANGED <<rows, plan, nextId, published>>

RolloutStep(j) ==
    \/ \E p \in Payload : StartRollout(j, p)
    \/ RolloutReadTargets(j)
    \/ ReadSnapshot(j)
    \/ ReadTimestamp(j)
    \/ CommitRollout(j)

ResignStep(j) ==
    \/ ListTargets(j)
    \/ TargetsExpiring(j)
    \/ TargetsFresh(j)
    \/ ReadSnapshot(j)
    \/ ReadTimestamp(j)
    \/ CommitResignedTargets(j)
    \/ ListSnapshots(j)
    \/ SnapshotFresh(j)
    \/ SnapshotExpiring(j)
    \/ ReadTimestampOnly(j)
    \/ CommitSnapshot(j)
    \/ ListTimestamps(j)
    \/ TimestampFresh(j)
    \/ TimestampExpiring(j)
    \/ CommitTimestamp(j)
    \/ SkipDocument(j)

Next ==
    \/ \E j \in RolloutJob : RolloutStep(j)
    \/ \E j \in ResignJob : ResignStep(j)
    \/ \E j \in Job : Stop(j)

Spec == Init /\ [][Next]_vars

-----------------------------------------------------------------------------
(* Every variable keeps its type: a job holds only rows that were          *)
(* committed, and every targets document, re-signed or new, lists images.  *)
TypeOK ==
    /\ rows \subseteq Row
    /\ pc \in [Job -> PC]
    /\ seen \in [Job -> [Role -> rows \cup {NoRow}]]
    /\ plan \in [Job -> Payload]
    /\ nextId \in Nat
    /\ published \in Payload
    /\ \A r \in rows : r.id < nextId /\ (r.role = "targets" <=> r.payload \in Payload)

(* However the runs of the two workers interleave and fail, the versions   *)
(* of a role never have a hole: a robot that asks for                      *)
(* /N.role.json, N below the newest, finds it.                             *)
NoGaps ==
    \A r \in rows :
        r.role \in Numbered /\ r.version # 1 => \E q \in rows : /\ q.role = r.role
                                                             /\ r.version = q.version + 1

(* However the runs interleave, no snapshot version is behind the targets  *)
(* versions and no timestamp version behind the snapshot versions: it is   *)
(* the order of the queries of generateNewMetadata and of the re-signer    *)
(* (targets, then snapshot, then timestamp) that makes it so.              *)
RoleOrder ==
    \A r \in rows :
        /\ r.role = "targets" /\ r.role \in Numbered =>
               \E q \in rows : q.role = "snapshot" /\ r.version <= q.version
        /\ r.role = "snapshot" =>
               \E q \in rows : q.role = "timestamp" /\ r.version <= q.version

(* The interleaved jobs keep the promises of MetadataLog: the table only   *)
(* grows, whole batches at a time, no version is jumped and every hash     *)
(* points at a committed document of the right role.                       *)
ImplementsLog == LogSpec

-----------------------------------------------------------------------------
(* Nothing above keeps two runs that overlap from signing a version twice. *)
(* What follows says that this is the trace a stale run always leaves: as  *)
(* long as the table has no two rows of one role and one version, which is *)
(* the unique index schema.prisma has as a TODO, runs that overlap, fail   *)
(* and stop in any order have the effect of runs one after the other.      *)
VersionsAreUnique ==
    \A r, q \in rows : r.role = q.role /\ r.version = q.version => r.id = q.id

(* The document GET /:role.json serves: the row created last.              *)
Served(role) ==
    CHOOSE r \in rows : /\ r.role = role
                        /\ \A q \in rows : q.role = role => q.id <= r.id

(* Unless a version was signed twice, the served timestamp hashes the      *)
(* served snapshot, which hashes the served targets: a phase that fails or *)
(* is skipped, or a rollout that commits between the list of one phase of  *)
(* the re-signer and its transaction, leaves the chain whole.              *)
Coherent ==
    VersionsAreUnique =>
        /\ Served("timestamp").ref = Served("snapshot").id
        /\ Served("snapshot").ref = Served("targets").id

(* Unless a version was signed twice, the served targets list what the     *)
(* last rollout published: a re-signer that lists the targets, lets a      *)
(* rollout commit and then signs its old list again cannot win unnoticed.  *)
NoRolloutLost == VersionsAreUnique => Served("targets").payload = published

(* What is served: the versions, and what targets lists.                   *)
Current ==
    [versions |-> [role \in Role |-> Served(role).version],
     payload |-> Served("targets").payload]

Repository == INSTANCE TufRepository WITH current <- Current

(* Unless it signs a version twice, every transaction of overlapping runs  *)
(* is one step of the atomic repository: it publishes or refreshes, moving *)
(* the version of a role and of every role above it by one, and keeping    *)
(* what is listed when it refreshes.                                       *)
ServesAtomically ==
    [][VersionsAreUnique' => Repository!Publish \/ Repository!Refresh]_Current
=============================================================================

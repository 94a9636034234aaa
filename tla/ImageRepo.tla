----------------------------- MODULE ImageRepo -----------------------------
(***************************************************************************)
(* The image repository of a team: clients fetch targets.json, sign the    *)
(* next one offline and upload it, while the re-signer of TufMetadata,     *)
(* which treats this repository like the director's, renews what expires.  *)
(* An upload names the checksum of the document it replaces; the check and *)
(* the commit are five queries apart and nothing holds the table between.  *)
(* The version of targets is whatever positive number the client signed:   *)
(* only snapshot and timestamp are Numbered by the server.                 *)
(***************************************************************************)
EXTENDS TufMetadata, FiniteSetsExt

CONSTANTS Image,        \* numbered in the order of custom.createdAt
          Client,
          MaxAdded,     \* images a client adds with one upload
          MaxOverlaps,  \* bound: writers that begin during another
          MaxRestarts   \* bound: ends of the process

ASSUME ImageAssumption == Image \subseteq Nat /\ Payload = SUBSET Image
ASSUME UploadAssumption == {MaxAdded, MaxOverlaps, MaxRestarts} \subseteq Nat

VARIABLES
    images,      \* images: the ones rollouts can deploy
    fetched,     \* fetched[c]: the targets client c works from
    put,         \* put[c]: its upload in progress
    overlaps,    \* history: uploads and re-signings that began during another
    restarts     \* ends of the process so far

imageVars == <<vars, images, fetched, put, overlaps, restarts>>

Upload(list, version) == [at |-> "snapshot", list |-> list, version |-> version,
                          snapshot |-> NoRow, timestamp |-> NoRow]
NoPut == [at |-> "idle", list |-> {}, version |-> 0, snapshot |-> NoRow, timestamp |-> NoRow]

ImageInit ==
    /\ Init /\ published = {}
    /\ images = {}
    /\ fetched = [c \in Client |-> NoRow]
    /\ put = [c \in Client |-> NoPut]
    /\ overlaps = 0
    /\ restarts = 0

Writing == \/ \E c \in Client : put[c].at # "idle"
           \/ \E j \in Job : pc[j] # "idle"

Begins == IF Writing THEN overlaps < MaxOverlaps /\ overlaps' = overlaps + 1
                     ELSE UNCHANGED overlaps

(* What the newest targets list.  Two rows can share the highest version.  *)
Newest(role, table) == CHOOSE r \in table : IsLatest(r, role, table)
Listed == Newest("targets", rows).payload

-----------------------------------------------------------------------------
(* GET targets.json.                                                       *)
Fetch(c) ==
    /\ put[c].at = "idle"
    /\ \E r \in rows : IsLatest(r, "targets", rows) /\ fetched' = [fetched EXCEPT ![c] = r]
    /\ UNCHANGED <<vars, images, put, overlaps, restarts>>

(* A client adds some images, or removes one.                              *)
Edits(list) == {list \cup new : new \in {n \in SUBSET (Image \ list) :
                                             Cardinality(n) \in 1..MaxAdded}}
                   \cup {list \ {i} : i \in list}

(* Mutant of SameChecksum: the checksum is not compared.                   *)
AnyChecksum(row, c) == TRUE

(* The checksum is that of the document the client fetched.                *)
SameChecksum(row, c) == row = fetched[c]

(* PUT targets: the newest targets are read and compared with what the     *)
(* client replaces; otherwise 412, and the client starts again.  The       *)
(* signed version must be positive, and is not compared with any other.    *)
StartUpload(c) ==
    /\ put[c].at = "idle"
    /\ fetched[c] # NoRow
    /\ \E r \in rows, list \in Edits(fetched[c].payload), v \in 1..MaxVersion :
          /\ IsLatest(r, "targets", rows)
          /\ IF SameChecksum(r, c)
             THEN /\ put' = [put EXCEPT ![c] = Upload(list, v)]
                  /\ Begins
                  /\ UNCHANGED fetched
             ELSE /\ fetched' = [fetched EXCEPT ![c] = NoRow]
                  /\ UNCHANGED <<put, overlaps>>
    /\ UNCHANGED <<vars, images, restarts>>

EndOfProcess ==
    /\ restarts < MaxRestarts
    /\ restarts' = restarts + 1
    /\ pc' = [j \in Job |-> "idle"]
    /\ seen' = [j \in Job |-> Nothing]
    /\ put' = [c \in Client |-> NoPut]

(* The check for an existing image compares the target id of the image     *)
(* created last with the ids of images and never finds one; an empty list  *)
(* has no such image, and the query throws.                                *)
FindNoImage(c) ==
    /\ put[c].at = "snapshot"
    /\ put[c].list = {}
    /\ EndOfProcess
    /\ UNCHANGED <<rows, plan, nextId, published, images, fetched, overlaps>>

(* The next two versions, a query each.                                    *)
ReadSnapshotVersion(c) ==
    /\ put[c].at = "snapshot"
    /\ put[c].list # {}
    /\ \E r \in rows : /\ IsLatest(r, "snapshot", rows)
                       /\ put' = [put EXCEPT ![c].at = "timestamp", ![c].snapshot = r]
    /\ UNCHANGED <<vars, images, fetched, overlaps, restarts>>

ReadTimestampVersion(c) ==
    /\ put[c].at = "timestamp"
    /\ \E r \in rows : /\ IsLatest(r, "timestamp", rows)
                       /\ put' = [put EXCEPT ![c].at = "commit", ![c].timestamp = r]
    /\ UNCHANGED <<vars, images, fetched, overlaps, restarts>>

(* The rows of the transaction: targets as the client signed them, the     *)
(* other two one above the documents that were read.                       *)
Chained(c, targets, snapshot, timestamp) ==
    {[id |-> nextId, role |-> "targets", version |-> targets,
      ref |-> 0, payload |-> put[c].list],
     [id |-> nextId + 1, role |-> "snapshot", version |-> snapshot,
      ref |-> nextId, payload |-> NoPayload],
     [id |-> nextId + 2, role |-> "timestamp", version |-> timestamp,
      ref |-> nextId + 1, payload |-> NoPayload]}

(* Mutant of UploadedChain: the timestamp takes the version of targets.    *)
UploadedChainOneVersion(c) ==
    Chained(c, put[c].version, put[c].snapshot.version + 1, put[c].version)

(* Mutant of UploadedChain: versions that were counted up already.         *)
UploadedChainTwice(c) ==
    Chained(c, put[c].version, put[c].snapshot.version + 2, put[c].timestamp.version + 2)

UploadedChain(c) ==
    Chained(c, put[c].version, put[c].snapshot.version + 1, put[c].timestamp.version + 1)

(* Only the image created last becomes a row, and target_id is unique.     *)
IsNewImage(list) == Max(list) \notin images

(* Mutant of CommitUpload: an image that has a row is passed over, and the *)
(* ids of rows are counted wrongly.                                        *)
CommitUploadAll(c) ==
    /\ put[c].at = "commit"
    /\ Insert(UploadedChain(c))
    /\ nextId' = nextId + 2
    /\ images' = images \cup {Max(put[c].list)}
    /\ put' = [put EXCEPT ![c] = NoPut]
    /\ fetched' = [fetched EXCEPT ![c] = NoRow]
    /\ UNCHANGED <<pc, seen, restarts, plan, published, overlaps>>

(* The transaction and the answer.  What it throws ends the process.       *)
CommitUpload(c) ==
    /\ put[c].at = "commit"
    /\ IF IsNewImage(put[c].list)
       THEN /\ Insert(UploadedChain(c))
            /\ nextId' = nextId + 3
            /\ images' = images \cup {Max(put[c].list)}
            /\ put' = [put EXCEPT ![c] = NoPut]
            /\ fetched' = [fetched EXCEPT ![c] = NoRow]
            /\ UNCHANGED <<pc, seen, restarts>>
       ELSE EndOfProcess /\ UNCHANGED <<rows, nextId, images, fetched>>
    /\ UNCHANGED <<plan, published, overlaps>>

Restart ==
    /\ EndOfProcess
    /\ UNCHANGED <<rows, plan, nextId, published, images, fetched, overlaps>>

(* The re-signer, or a run of it that fails.                               *)
Resign(j) ==
    /\ ResignStep(j) \/ Stop(j)
    /\ IF pc[j] = "idle" THEN Begins ELSE UNCHANGED overlaps
    /\ UNCHANGED <<images, fetched, put, restarts>>

ImageNext ==
    \/ \E c \in Client : \/ Fetch(c)
                         \/ StartUpload(c)
                         \/ FindNoImage(c)
                         \/ ReadSnapshotVersion(c)
                         \/ ReadTimestampVersion(c)
                         \/ CommitUpload(c)
    \/ \E j \in ResignJob : Resign(j)
    \/ Restart

ImageSpec == ImageInit /\ [][ImageNext]_imageVars

-----------------------------------------------------------------------------
ImageTypeOK ==
    /\ TypeOK
    /\ images \subseteq Image
    /\ fetched \in [Client -> rows \cup {NoRow}]
    /\ put \in [Client -> [at: {"idle", "snapshot", "timestamp", "commit"}, list: SUBSET Image,
                           version: 0..MaxVersion,
                           snapshot: rows \cup {NoRow}, timestamp: rows \cup {NoRow}]]
    /\ overlaps \in 0..MaxOverlaps
    /\ restarts \in 0..MaxRestarts

(* The clients count upwards: nothing in the server makes them.            *)
TargetsRise ==
    \A r, q \in rows : r.role = "targets" /\ q.role = "targets" /\ r.id < q.id =>
                            r.version < q.version

(* An image that rollouts can deploy is listed in the targets that robots  *)
(* compare the director's with, as long as clients count the versions of   *)
(* targets upwards and no writers overlapped.  A client that adds one      *)
(* image at a time cannot undo it: taking an image off the list ends the   *)
(* process, as the newest one that is left has a row.                      *)
DeployableIsListed == overlaps = 0 /\ TargetsRise => images \subseteq Listed
=============================================================================

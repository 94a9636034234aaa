------------------------- MODULE ImageRepo_proofs -------------------------
(***************************************************************************)
(* Safety of ImageRepo for any clients, re-signers, images and bounds,     *)
(* whether or not writers overlap, and whatever versions the clients sign: *)
(* the versions of targets are not Numbered by this server.                *)
(*                                                                         *)
(* The table keeps the invariant that TufMetadata_proofs proves of the     *)
(* director's: an upload is one more writer of it.  What is added is what  *)
(* a client holds between the five queries of an upload (ClientInv).       *)
(***************************************************************************)
EXTENDS ImageRepo, TufMetadata_proofs, WellFoundedInduction

PutAt == {"idle", "snapshot", "timestamp", "commit"}

Put == [at: PutAt, list: SUBSET Image, version: 0..MaxVersion,
        snapshot: Row \cup {NoRow}, timestamp: Row \cup {NoRow}]

ImageShape ==
    /\ fetched \in [Client -> Row \cup {NoRow}]
    /\ put \in [Client -> Put]
    /\ overlaps \in 0..MaxOverlaps
    /\ restarts \in 0..MaxRestarts

(* What an upload holds before each of its queries.  The two versions the  *)
(* server counts are ordered because the route looks them up in that order *)
ClientInv(c) ==
    /\ fetched[c] # NoRow => fetched[c] \in rows /\ fetched[c].role = "targets"
    /\ put[c].snapshot # NoRow => put[c].snapshot \in rows /\ put[c].snapshot.role = "snapshot"
    /\ put[c].timestamp # NoRow => put[c].timestamp \in rows /\ put[c].timestamp.role = "timestamp"
    /\ put[c].at # "idle" => fetched[c] # NoRow /\ put[c].version # 0
    /\ put[c].at \in {"timestamp", "commit"} =>
           /\ put[c].list # {}
           /\ put[c].snapshot # NoRow
    /\ put[c].at = "commit" =>
           /\ put[c].timestamp # NoRow
           /\ put[c].snapshot.version <= put[c].timestamp.version

ClientsInv == \A c \in Client : ClientInv(c)

ImageInv == IInv /\ ImageShape /\ ClientsInv

-----------------------------------------------------------------------------
(* The initial documents satisfy the invariant.                            *)
LEMMA ImageInitInv == ImageInit => ImageInv
<1> SUFFICES ASSUME ImageInit PROVE ImageInv
  OBVIOUS
<1>1. IInv
  BY InitIInv DEF ImageInit
<1>2. NoPut \in Put
  BY BoundAssumption DEF NoPut, Put, PutAt
<1>3. ImageShape
  BY <1>2, UploadAssumption DEF ImageInit, ImageShape
<1>4. ASSUME NEW c \in Client PROVE ClientInv(c)
  BY DEF ImageInit, ClientInv, NoPut
<1> QED
  BY <1>1, <1>3, <1>4 DEF ImageInv, ClientsInv

(* A step of client c leaves the others' uploads alone, and a table that   *)
(* only grows leaves all of them what they hold.                           *)
LEMMA OtherClientsKeep ==
    ASSUME ImageShape, ClientsInv, rows \subseteq rows', NEW c \in Client,
           NEW f \in Row \cup {NoRow}, NEW p \in Put,
           fetched' = [fetched EXCEPT ![c] = f], put' = [put EXCEPT ![c] = p],
           ClientInv(c)'
    PROVE  ClientsInv' /\ fetched' \in [Client -> Row \cup {NoRow}] /\ put' \in [Client -> Put]
<1>1. ASSUME NEW d \in Client PROVE ClientInv(d)'
  <2>1. CASE d = c
    BY <2>1
  <2>2. CASE d # c
    <3>1. fetched'[d] = fetched[d] /\ put'[d] = put[d]
      BY <2>2 DEF ImageShape
    <3> QED
      BY <3>1 DEF ClientsInv, ClientInv
  <2> QED
    BY <2>1, <2>2
<1> QED
  BY <1>1 DEF ClientsInv, ImageShape

LEMMA GrowthKeepsClients ==
    ASSUME ClientsInv, rows \subseteq rows', UNCHANGED fetched, UNCHANGED put
    PROVE  ClientsInv'
<1> SUFFICES ASSUME NEW c \in Client PROVE ClientInv(c)'
  BY DEF ClientsInv
<1> QED
  BY DEF ClientsInv, ClientInv

(* The end of the process drops every run and every upload, and nothing    *)
(* that was committed.                                                     *)
LEMMA EndOfProcessKeeps ==
    ASSUME ImageInv, EndOfProcess,
           UNCHANGED <<rows, plan, nextId, published, fetched, overlaps>>
    PROVE  ImageInv'
<1> USE DEF ImageInv, EndOfProcess
<1>1. Shape'
  BY DEF IInv, Shape, PC, Nothing
<1>2. JobInv'
  <2> SUFFICES ASSUME NEW j \in Job PROVE (JobTyped(j) /\ JobOrder(j))'
    BY DEF JobInv
  <2>1. pc'[j] = "idle" /\ \A role \in Role : seen'[j][role] = NoRow
    BY DEF Nothing
  <2> QED
    BY <2>1 DEF JobTyped, JobOrder, Needs
<1>3. TableInv'
  BY DEF IInv, TableInv, TableTyped, AllResolve, Resolves, NoGaps, RoleOrder
<1>4. NoPut \in Put
  BY BoundAssumption DEF NoPut, Put, PutAt
<1>5. ImageShape'
  BY <1>4, UploadAssumption DEF ImageShape
<1>6. ASSUME NEW c \in Client PROVE ClientInv(c)'
  BY DEF ClientsInv, ClientInv, NoPut
<1> QED
  BY <1>1, <1>2, <1>3, <1>5, <1>6 DEF IInv, ClientsInv

-----------------------------------------------------------------------------
(* The queries of an upload, one lemma each.                               *)
LEMMA BeginsKeepsBound ==
    ASSUME ImageShape, Begins
    PROVE  overlaps' \in 0..MaxOverlaps
BY UploadAssumption DEF ImageShape, Begins

(* What TufMetadata_proofs says of the jobs does not depend on clients.    *)
LEMMA SameVarsKeep ==
    ASSUME IInv, UNCHANGED vars
    PROVE  IInv'
BY DEF vars, IInv, Shape, TableInv, TableTyped, AllResolve, Resolves, NoGaps, RoleOrder,
       JobInv, JobTyped, JobOrder

LEMMA FetchKeeps ==
    ASSUME ImageInv, NEW c \in Client, Fetch(c)
    PROVE  ImageInv'
<1> USE DEF ImageInv
<1>1. PICK r \in rows : /\ IsLatest(r, "targets", rows)
                       /\ fetched' = [fetched EXCEPT ![c] = r]
  BY DEF Fetch
<1>2. put[c].at = "idle" /\ UNCHANGED vars /\ UNCHANGED <<put, overlaps, restarts>>
  BY DEF Fetch
<1>3. r \in Row /\ put[c] \in Put /\ put' = [put EXCEPT ![c] = put[c]]
  BY <1>2 DEF IInv, TableInv, TableTyped, ImageShape
<1>4. rows' = rows /\ fetched'[c] = r /\ put'[c] = put[c] /\ r.role = "targets"
  BY <1>1, <1>2, <1>3 DEF vars, ImageShape, IsLatest
<1>5. ClientInv(c)'
  BY <1>2, <1>4 DEF ClientsInv, ClientInv
<1>6. /\ ClientsInv' /\ fetched' \in [Client -> Row \cup {NoRow}]
      /\ put' \in [Client -> Put]
  BY <1>1, <1>3, <1>4, <1>5, OtherClientsKeep
<1> QED
  BY <1>2, <1>6, SameVarsKeep DEF ImageShape

LEMMA StartUploadKeeps ==
    ASSUME ImageInv, NEW c \in Client, StartUpload(c)
    PROVE  ImageInv'
<1> USE DEF ImageInv
<1>1. /\ put[c].at = "idle" /\ fetched[c] # NoRow
      /\ UNCHANGED vars /\ UNCHANGED restarts
  BY DEF StartUpload
<1>2. fetched[c] \in rows /\ fetched[c].role = "targets" /\ fetched[c] \in Row
  BY <1>1 DEF ClientsInv, ClientInv, IInv, TableInv, TableTyped
<1>3. PICK list \in Edits(fetched[c].payload), r \in rows, v \in 1..MaxVersion :
          IF SameChecksum(r, c)
          THEN /\ put' = [put EXCEPT ![c] = Upload(list, v)]
               /\ Begins
               /\ UNCHANGED fetched
          ELSE /\ fetched' = [fetched EXCEPT ![c] = NoRow]
               /\ UNCHANGED <<put, overlaps>>
  BY DEF StartUpload
<1>4. IInv' /\ rows' = rows
  BY <1>1, SameVarsKeep DEF vars
<1>5. CASE SameChecksum(r, c)
  <2> DEFINE p == Upload(list, v)
  <2>1. fetched[c].payload \subseteq Image
    BY <1>2, ImageAssumption DEF IInv, TableInv, TableTyped
  <2>2. list \subseteq Image
    BY <2>1 DEF Edits
  <2>3. /\ p \in Put /\ p.at = "snapshot" /\ p.version # 0
        /\ p.snapshot = NoRow /\ p.timestamp = NoRow
    <3>1. v \in 0..MaxVersion /\ v # 0
      BY BoundAssumption
    <3> QED
      BY <2>2, <3>1 DEF Upload, Put, PutAt
  <2>4. put' = [put EXCEPT ![c] = p] /\ fetched' = [fetched EXCEPT ![c] = fetched[c]]
    BY <1>3, <1>5 DEF ImageShape
  <2> HIDE DEF p
  <2>5. put'[c] = p /\ fetched'[c] = fetched[c]
    BY <2>4 DEF ImageShape
  <2>6. ClientInv(c)'
    BY <1>1, <1>2, <1>4, <2>3, <2>5 DEF ClientInv
  <2>7. /\ ClientsInv' /\ fetched' \in [Client -> Row \cup {NoRow}]
        /\ put' \in [Client -> Put]
    BY <1>2, <1>4, <2>3, <2>4, <2>6, OtherClientsKeep
  <2>8. overlaps' \in 0..MaxOverlaps
    BY <1>3, <1>5, BeginsKeepsBound
  <2> QED
    BY <1>1, <1>4, <2>7, <2>8 DEF ImageShape
<1>6. CASE ~SameChecksum(r, c)
  <2>1. /\ fetched' = [fetched EXCEPT ![c] = NoRow]
        /\ put' = [put EXCEPT ![c] = put[c]]
        /\ put[c] \in Put /\ UNCHANGED overlaps
    BY <1>3, <1>6 DEF ImageShape
  <2>2. fetched'[c] = NoRow /\ put'[c] = put[c]
    BY <2>1 DEF ImageShape
  <2>3. ClientInv(c)'
    BY <1>1, <1>4, <2>2 DEF ClientsInv, ClientInv
  <2>4. /\ ClientsInv' /\ fetched' \in [Client -> Row \cup {NoRow}]
        /\ put' \in [Client -> Put]
    BY <1>4, <2>1, <2>3, OtherClientsKeep
  <2> QED
    BY <1>1, <1>4, <2>1, <2>4 DEF ImageShape
<1> QED
  BY <1>5, <1>6

LEMMA ReadSnapshotVersionKeeps ==
    ASSUME ImageInv, NEW c \in Client, ReadSnapshotVersion(c)
    PROVE  ImageInv'
<1> USE DEF ImageInv
<1>1. PICK r \in rows :
        /\ IsLatest(r, "snapshot", rows)
        /\ put' = [put EXCEPT ![c].at = "timestamp", ![c].snapshot = r]
  BY DEF ReadSnapshotVersion
<1>2. /\ put[c].at = "snapshot" /\ put[c].list # {} /\ put[c] \in Put
      /\ UNCHANGED vars /\ UNCHANGED <<fetched, overlaps, restarts>>
  BY DEF ReadSnapshotVersion, ImageShape
<1> DEFINE p == [put[c] EXCEPT !.at = "timestamp", !.snapshot = r]
<1>3. r \in Row /\ r.role = "snapshot"
  BY <1>1 DEF IInv, TableInv, TableTyped, IsLatest
<1>4. /\ p \in Put /\ p.at = "timestamp" /\ p.list = put[c].list /\ p.version = put[c].version
      /\ p.snapshot = r /\ p.timestamp = put[c].timestamp
  BY <1>2, <1>3 DEF Put, PutAt
<1>5. put' = [put EXCEPT ![c] = p] /\ fetched' = [fetched EXCEPT ![c] = fetched[c]]
  BY <1>1, <1>2 DEF ImageShape
<1> HIDE DEF p
<1>6. put'[c] = p /\ fetched'[c] = fetched[c] /\ rows' = rows
  BY <1>2, <1>5 DEF ImageShape, vars
<1>7. fetched[c] \in rows /\ fetched[c].role = "targets" /\ fetched[c] \in Row
  BY <1>2 DEF ClientsInv, ClientInv, IInv, TableInv, TableTyped
<1>9. r # NoRow
  BY <1>3, NoRowAssumption
<1>10. ClientInv(c)'
  BY <1>2, <1>3, <1>4, <1>6, <1>7, <1>9 DEF ClientsInv, ClientInv
<1>11. /\ ClientsInv' /\ fetched' \in [Client -> Row \cup {NoRow}]
       /\ put' \in [Client -> Put]
  BY <1>4, <1>5, <1>6, <1>7, <1>10, OtherClientsKeep
<1> QED
  BY <1>2, <1>11, SameVarsKeep DEF ImageShape

LEMMA ReadTimestampVersionKeeps ==
    ASSUME ImageInv, NEW c \in Client, ReadTimestampVersion(c)
    PROVE  ImageInv'
<1> USE DEF ImageInv
<1>1. PICK r \in rows :
        /\ IsLatest(r, "timestamp", rows)
        /\ put' = [put EXCEPT ![c].at = "commit", ![c].timestamp = r]
  BY DEF ReadTimestampVersion
<1>2. /\ put[c].at = "timestamp" /\ put[c] \in Put
      /\ UNCHANGED vars /\ UNCHANGED <<fetched, overlaps, restarts>>
  BY DEF ReadTimestampVersion, ImageShape
<1> DEFINE p == [put[c] EXCEPT !.at = "commit", !.timestamp = r]
<1>3. r \in Row /\ r.role = "timestamp"
  BY <1>1 DEF IInv, TableInv, TableTyped, IsLatest
<1>4. /\ p \in Put /\ p.at = "commit" /\ p.list = put[c].list /\ p.version = put[c].version
      /\ p.snapshot = put[c].snapshot /\ p.timestamp = r
  BY <1>2, <1>3 DEF Put, PutAt
<1>5. put' = [put EXCEPT ![c] = p] /\ fetched' = [fetched EXCEPT ![c] = fetched[c]]
  BY <1>1, <1>2 DEF ImageShape
<1> HIDE DEF p
<1>6. put'[c] = p /\ fetched'[c] = fetched[c] /\ rows' = rows
  BY <1>2, <1>5 DEF ImageShape, vars
<1>7. /\ fetched[c] \in rows /\ fetched[c] \in Row
      /\ put[c].snapshot \in rows /\ put[c].snapshot.role = "snapshot"
  BY <1>2 DEF ClientsInv, ClientInv, IInv, TableInv, TableTyped
<1>8. put[c].snapshot.version <= r.version
  BY <1>1, <1>7, LatestTimestampIsAhead
<1>9. r # NoRow
  BY <1>3, NoRowAssumption
<1>10. ClientInv(c)'
  BY <1>2, <1>3, <1>4, <1>6, <1>7, <1>8, <1>9 DEF ClientsInv, ClientInv
<1>11. /\ ClientsInv' /\ fetched' \in [Client -> Row \cup {NoRow}]
       /\ put' \in [Client -> Put]
  BY <1>4, <1>5, <1>6, <1>7, <1>10, OtherClientsKeep
<1> QED
  BY <1>2, <1>11, SameVarsKeep DEF ImageShape

-----------------------------------------------------------------------------
(* The three rows of an upload are a good batch: what the server numbers   *)
(* is one version above a committed row, and stays ordered.                *)
LEMMA UploadedChainIsGood ==
    ASSUME "targets" \notin Numbered, ImageInv, NEW c \in Client, put[c].at = "commit"
    PROVE  /\ GoodBatch(UploadedChain(c))
           /\ \A d \in UploadedChain(c) : d.id < nextId + 3
<1> DEFINE s == put[c].snapshot
           m == put[c].timestamp
           p == put[c].list
           T == [id |-> nextId, role |-> "targets", version |-> put[c].version,
                 ref |-> 0, payload |-> p]
           S == [id |-> nextId + 1, role |-> "snapshot", version |-> s.version + 1,
                 ref |-> nextId, payload |-> NoPayload]
           M == [id |-> nextId + 2, role |-> "timestamp", version |-> m.version + 1,
                 ref |-> nextId + 1, payload |-> NoPayload]
<1> USE DEF ImageInv, IInv
<1>1. /\ s \in rows /\ s.role = "snapshot"
      /\ m \in rows /\ m.role = "timestamp"
      /\ s.version <= m.version
  BY DEF ClientsInv, ClientInv
<1>2. /\ put[c].version \in Nat \ {0} /\ s.version \in Nat \ {0} /\ m.version \in Nat \ {0}
      /\ nextId \in Nat \ {0}
  BY <1>1, BoundAssumption DEF TableInv, TableTyped, Row, Shape, ImageShape, Put,
                               ClientsInv, ClientInv
<1>3. p \in Payload
  BY ImageAssumption DEF ImageShape, Put
<1>4. UploadedChain(c) = {T, S, M}
  BY DEF UploadedChain, Chained
<1>5. /\ T = [id |-> nextId, role |-> "targets", version |-> put[c].version,
              ref |-> 0, payload |-> p]
      /\ S = [id |-> nextId + 1, role |-> "snapshot", version |-> s.version + 1,
              ref |-> nextId, payload |-> NoPayload]
      /\ M = [id |-> nextId + 2, role |-> "timestamp", version |-> m.version + 1,
              ref |-> nextId + 1, payload |-> NoPayload]
  OBVIOUS
<1> HIDE DEF T, S, M, p
<1>6. \A d \in {T, S, M} : d \in Row /\ nextId <= d.id /\ d.id < nextId + 3
  BY <1>2, <1>3, <1>5 DEF Row, Role
<1>7. \A d \in {T, S, M} : d.role = "targets" <=> d.payload \in Payload
  BY <1>3, <1>5, PayloadAssumption
<1>8. \A d \in {T, S, M} : d.role \in Numbered => Follows(d, rows)
  BY <1>1, <1>5 DEF Follows
<1>9. \A d \in {T, S, M} : Resolves(d, rows \cup {T, S, M})
  BY <1>5 DEF Resolves
<1>10. \A d \in {T, S, M} : Matched(d, rows \cup {T, S, M})
  BY <1>1, <1>2, <1>5 DEF Matched
<1> QED
  BY <1>4, <1>6, <1>7, <1>8, <1>9, <1>10 DEF GoodBatch

LEMMA CommitUploadKeeps ==
    ASSUME "targets" \notin Numbered, ImageInv, NEW c \in Client, CommitUpload(c)
    PROVE  ImageInv' /\ [AppendBatch]_rows
<1>1. CASE ~IsNewImage(put[c].list)
  <2>1. EndOfProcess /\ UNCHANGED <<rows, plan, nextId, published, fetched, overlaps>>
    BY <1>1 DEF CommitUpload
  <2> QED
    BY <2>1, EndOfProcessKeeps
<1>2. CASE IsNewImage(put[c].list)
  <2> USE DEF ImageInv
  <2>1. /\ put[c].at = "commit"
        /\ rows' = rows \cup UploadedChain(c) /\ nextId' = nextId + 3
        /\ put' = [put EXCEPT ![c] = NoPut]
        /\ fetched' = [fetched EXCEPT ![c] = NoRow]
        /\ UNCHANGED <<pc, seen, restarts, plan, published, overlaps>>
    BY <1>2 DEF CommitUpload, Insert
  <2>2. GoodBatch(UploadedChain(c)) /\ \A d \in UploadedChain(c) : d.id < nextId + 3
    BY <2>1, UploadedChainIsGood
  <2>3. nextId \in Nat \ {0} /\ nextId' \in Nat \ {0} /\ nextId <= nextId'
    BY <2>1 DEF IInv, Shape
  <2>4. TableInv' /\ AppendBatch
    BY <2>1, <2>2, <2>3, InsertKeepsTable DEF IInv
  <2>5. Shape'
    BY <2>1, <2>3 DEF IInv, Shape
  <2>6. rows \subseteq rows'
    BY <2>1
  <2>7. JobInv'
    BY <2>1, <2>6 DEF IInv, JobInv, JobTyped, JobOrder
  <2>8. NoPut \in Put
    BY BoundAssumption DEF NoPut, Put, PutAt
  <2>9. put'[c] = NoPut /\ fetched'[c] = NoRow
    BY <2>1 DEF ImageShape
  <2>10. ClientInv(c)'
    BY <2>9 DEF ClientInv, NoPut
  <2>11. /\ ClientsInv' /\ fetched' \in [Client -> Row \cup {NoRow}]
         /\ put' \in [Client -> Put]
    BY <2>1, <2>6, <2>8, <2>10, OtherClientsKeep
  <2> QED
    BY <2>1, <2>4, <2>5, <2>7, <2>11 DEF IInv, ImageShape
<1> QED
  BY <1>1, <1>2

LEMMA ResignKeeps ==
    ASSUME ImageInv, NEW j \in ResignJob, Resign(j)
    PROVE  ImageInv' /\ [AppendBatch]_rows
<1> USE DEF ImageInv
<1>1. ResignStep(j) \/ Stop(j)
  BY DEF Resign
<1>2. j \in Job
  BY DEF Job
<1>3. IInv' /\ [AppendBatch]_rows
  <2>1. CASE ResignStep(j)
    BY <2>1, ResignStepKeeps
  <2>2. CASE Stop(j)
    BY <1>2, <2>2, ForgetStep DEF Stop, PC, Needs
  <2> QED
    BY <1>1, <2>1, <2>2
<1>4. rows \subseteq rows'
  BY <1>3 DEF AppendBatch
<1>5. UNCHANGED <<fetched, put, restarts>>
  BY DEF Resign
<1>6. overlaps' \in 0..MaxOverlaps
  BY BeginsKeepsBound DEF Resign, ImageShape
<1>7. ClientsInv'
  BY <1>4, <1>5, GrowthKeepsClients
<1> QED
  BY <1>3, <1>5, <1>6, <1>7 DEF ImageShape

(* Every step keeps the invariant and appends a batch, or nothing.         *)
LEMMA ImageNextKeeps ==
    ASSUME "targets" \notin Numbered
    PROVE  ImageInv /\ [ImageNext]_imageVars => ImageInv' /\ [AppendBatch]_rows
<1> SUFFICES ASSUME ImageInv, [ImageNext]_imageVars PROVE ImageInv' /\ [AppendBatch]_rows
  OBVIOUS
<1>1. ASSUME NEW c \in Client, Fetch(c) PROVE ImageInv' /\ [AppendBatch]_rows
  BY <1>1, FetchKeeps DEF Fetch, vars
<1>2. ASSUME NEW c \in Client, StartUpload(c) PROVE ImageInv' /\ [AppendBatch]_rows
  BY <1>2, StartUploadKeeps DEF StartUpload, vars
<1>3. ASSUME NEW c \in Client, FindNoImage(c) PROVE ImageInv' /\ [AppendBatch]_rows
  BY <1>3, EndOfProcessKeeps DEF FindNoImage
<1>4. ASSUME NEW c \in Client, ReadSnapshotVersion(c) PROVE ImageInv' /\ [AppendBatch]_rows
  BY <1>4, ReadSnapshotVersionKeeps DEF ReadSnapshotVersion, vars
<1>5. ASSUME NEW c \in Client, ReadTimestampVersion(c) PROVE ImageInv' /\ [AppendBatch]_rows
  BY <1>5, ReadTimestampVersionKeeps DEF ReadTimestampVersion, vars
<1>6. CASE Restart
  BY <1>6, EndOfProcessKeeps DEF Restart
<1>7. CASE UNCHANGED imageVars
  <2>1. IInv' /\ rows' = rows
    BY <1>7, SameVarsKeep DEF ImageInv, imageVars, vars
  <2>2. UNCHANGED <<fetched, put, overlaps, restarts>>
    BY <1>7 DEF imageVars
  <2>3. ClientsInv'
    BY <2>1, <2>2, GrowthKeepsClients DEF ImageInv
  <2> QED
    BY <2>1, <2>2, <2>3 DEF ImageInv, ImageShape
<1> QED
  BY <1>1, <1>2, <1>3, <1>4, <1>5, <1>6, <1>7, CommitUploadKeeps, ResignKeeps DEF ImageNext

(* Uploads and re-signings that interleave, are refused, fail or are cut   *)
(* off by the end of the process keep timestamp versions of the image      *)
(* repository at or above snapshot versions, whatever versions the clients *)
(* sign targets with.                                                      *)
THEOREM UploadsKeepRolesOrdered ==
    ASSUME "targets" \notin Numbered
    PROVE  ImageSpec => []RoleOrder
<1>1. ImageInv => RoleOrder
  BY DEF ImageInv, IInv, TableInv
<1>2. ImageInv /\ [ImageNext]_imageVars => ImageInv'
  BY ImageNextKeeps
<1> QED
  BY <1>1, <1>2, ImageInitInv, PTL DEF ImageSpec

(* With clients that sign targets offline, with any version, the image     *)
(* repository still implements MetadataLog, however uploads overlap: whole *)
(* chains are appended, every hash resolves, and no version of snapshot or *)
(* timestamp, which the server numbers from queries of earlier steps, is   *)
(* jumped.                                                                 *)
THEOREM UploadsImplementLog ==
    ASSUME "targets" \notin Numbered
    PROVE  ImageSpec => ImplementsLog
<1>1. ASSUME ImageInit PROVE LogInit
  <2>1. \A r \in rows : r \in Row /\ Resolves(r, rows)
    BY <1>1, ImageInitInv DEF ImageInv, IInv, TableInv, TableTyped, AllResolve
  <2>2. \A r \in rows : r.version = 1
    BY <1>1 DEF ImageInit, Init
  <2>3. ASSUME NEW role \in Role PROVE \E r \in rows : r.role = role /\ r.version = 1
    BY <1>1 DEF ImageInit, Init, Role
  <2>4. ASSUME NEW role \in Role PROVE 1 \in VersionsIn(rows, role)
    BY <2>3 DEF VersionsIn
  <2> QED
    BY <2>1, <2>2, <2>4 DEF LogInit
<1>2. ImageInv /\ [ImageNext]_imageVars => ImageInv' /\ [AppendBatch]_rows
  BY ImageNextKeeps
<1> QED
  BY <1>1, <1>2, ImageInitInv, PTL DEF ImageSpec, ImplementsLog, LogSpec

-----------------------------------------------------------------------------
(* Max of FiniteSetsExt on the numbers of finitely many images: the least  *)
(* bound of the list is in the list.                                       *)
LEMMA MaxIsIn ==
    ASSUME NEW n \in Nat, NEW list, list \subseteq 0..n, list # {}
    PROVE  Max(list) \in list /\ \A y \in list : y <= Max(list)
<1> DEFINE above == {u \in Nat : \A y \in list : y <= u}
           less == OpToRel(<, Nat)
<1>1. IsWellFoundedOn(less, Nat)
  BY NatLessThanWellFounded
<1>2. n \in above
  OBVIOUS
<1>3. PICK u \in above : \A v \in above : <<v, u>> \notin less
  <2>1. above \subseteq Nat /\ above # {}
    BY <1>2
  <2> HIDE DEF above, less
  <2> QED
    BY <1>1, <2>1, WFMin
<1>4. \A v \in above : ~ (v < u)
  BY <1>3 DEF OpToRel
<1>5. u \in list
  <2> SUFFICES ASSUME u \notin list PROVE FALSE
    OBVIOUS
  <2>1. \A y \in list : y \in Nat /\ y < u
    OBVIOUS
  <2>2. u - 1 \in Nat /\ u - 1 < u
    <3>1. PICK y \in list : y \in Nat /\ y < u
      BY <2>1
    <3>2. u \in Nat
      OBVIOUS
    <3> HIDE DEF above
    <3> QED
      BY <3>1, <3>2
  <2>3. u - 1 \in above
    BY <2>1, <2>2
  <2> QED
    BY <1>4, <2>2, <2>3
<1>6. \E x \in list : \A y \in list : x >= y
  BY <1>5
<1> QED
  BY <1>6 DEF Max

(* Images stay images: what an upload adds to the table of images is one   *)
(* of its list.                                                            *)
LEMMA ImagesKeep ==
    ASSUME NEW n \in Nat, Image \subseteq 0..n, ImageInv, images \subseteq Image,
           [ImageNext]_imageVars
    PROVE  images' \subseteq Image
<1>1. ASSUME NEW c \in Client, CommitUpload(c) PROVE images' \subseteq Image
  <2>1. put[c].at = "commit"
    BY <1>1 DEF CommitUpload
  <2>2. put[c].list \subseteq Image /\ put[c].list # {}
    BY <2>1 DEF ImageInv, ImageShape, Put, ClientsInv, ClientInv
  <2>3. Max(put[c].list) \in put[c].list
    BY <2>2, MaxIsIn
  <2>4. images' = images \/ images' = images \cup {Max(put[c].list)}
    BY <1>1 DEF CommitUpload
  <2> QED
    BY <2>2, <2>3, <2>4
<1> QED
  BY <1>1 DEF ImageNext, imageVars, Fetch, StartUpload, FindNoImage, ReadSnapshotVersion,
              ReadTimestampVersion, Restart, Resign

(* Type correctness, for any finite set of images.                         *)
THEOREM ImageTypeCorrect ==
    ASSUME NEW n \in Nat, Image \subseteq 0..n, "targets" \notin Numbered
    PROVE  ImageSpec => []ImageTypeOK
<1>1. ImageInit => images \subseteq Image
  BY DEF ImageInit
<1>2. ImageInv /\ images \subseteq Image => ImageTypeOK
  <2> SUFFICES ASSUME ImageInv, images \subseteq Image PROVE ImageTypeOK
    OBVIOUS
  <2>1. TypeOK
    BY DEF ImageInv, IInv, Shape, TableInv, TableTyped, JobInv, JobTyped, TypeOK
  <2>2. fetched \in [Client -> rows \cup {NoRow}]
    BY DEF ImageInv, ImageShape, ClientsInv, ClientInv
  <2>3. ASSUME NEW c \in Client
        PROVE  put[c] \in [at: {"idle", "snapshot", "timestamp", "commit"}, list: SUBSET Image,
                           version: 0..MaxVersion,
                           snapshot: rows \cup {NoRow}, timestamp: rows \cup {NoRow}]
    BY DEF ImageInv, ImageShape, Put, PutAt, ClientsInv, ClientInv
  <2>4. put \in [Client -> [at: {"idle", "snapshot", "timestamp", "commit"},
                            list: SUBSET Image, version: 0..MaxVersion,
                            snapshot: rows \cup {NoRow}, timestamp: rows \cup {NoRow}]]
    BY <2>3 DEF ImageInv, ImageShape
  <2> QED
    BY <2>1, <2>2, <2>4 DEF ImageInv, ImageShape, ImageTypeOK
<1>3. ImageInv /\ images \subseteq Image /\ [ImageNext]_imageVars => (images \subseteq Image)'
  BY ImagesKeep
<1>4. ImageInv /\ [ImageNext]_imageVars => ImageInv'
  BY ImageNextKeeps
<1> QED
  BY <1>1, <1>2, <1>3, <1>4, ImageInitInv, PTL DEF ImageSpec

=============================================================================

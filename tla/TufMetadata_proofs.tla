------------------------ MODULE TufMetadata_proofs ------------------------
(***************************************************************************)
(* Safety of TufMetadata for any number of jobs, any payloads and any      *)
(* bound, however the runs overlap.                                        *)
(*                                                                         *)
(* NoGaps and RoleOrder are not inductive: what a job is about to insert   *)
(* depends on the rows it read some steps ago.  The inductive invariant    *)
(* adds what every job knows at every point of its program: which roles it *)
(* has read (Needs) and that the versions it holds are ordered as the      *)
(* roles are, because it read them in that order (JobOrder).               *)
(***************************************************************************)
EXTENDS TufMetadata, TLAPS

(* The roles a job has read when it stands before a given query.           *)
Needs(at) ==
    CASE at \in {"readSnapshot", "targetsListed"}       -> {"targets"}
      [] at = "readTimestamp"                           -> {"targets", "snapshot"}
      [] at = "commitTargets"                           -> Role
      [] at = "snapshotsListed"                         -> {"snapshot"}
      [] at = "readTimestampOnly"                       -> {"targets", "snapshot"}
      [] at = "commitSnapshot"                          -> Role
      [] at = "timestampsListed"                        -> {"timestamp"}
      [] at = "commitTimestamp"                         -> {"timestamp", "snapshot"}
      [] OTHER                                          -> {}

JobTyped(j) ==
    /\ \A role \in Role : seen[j][role] # NoRow =>
            seen[j][role] \in rows /\ seen[j][role].role = role
    /\ \A role \in Needs(pc[j]) : seen[j][role] # NoRow

JobOrder(j) ==
    /\ "targets" \in Numbered /\ pc[j] \in {"readTimestamp", "commitTargets"} =>
            seen[j]["targets"].version <= seen[j]["snapshot"].version
    /\ pc[j] \in {"commitTargets", "commitSnapshot"} =>
            seen[j]["snapshot"].version <= seen[j]["timestamp"].version

JobInv == \A j \in Job : JobTyped(j) /\ JobOrder(j)

Shape ==
    /\ pc \in [Job -> PC]
    /\ plan \in [Job -> Payload]
    /\ seen \in [Job -> [Role -> Row \cup {NoRow}]]
    /\ nextId \in Nat \ {0}
    /\ published \in Payload

TableTyped ==
    /\ rows \subseteq Row
    /\ \A r \in rows : r.id < nextId /\ (r.role = "targets" <=> r.payload \in Payload)

AllResolve == \A r \in rows : Resolves(r, rows)

TableInv == TableTyped /\ AllResolve /\ NoGaps /\ RoleOrder

IInv == Shape /\ TableInv /\ JobInv

-----------------------------------------------------------------------------
(* The initial documents satisfy the invariant.                            *)
LEMMA InitIInv == Init => IInv
<1> SUFFICES ASSUME Init PROVE IInv
  OBVIOUS
<1>1. PICK p \in Payload :
        /\ rows = {[id |-> 1, role |-> "targets", version |-> 1, ref |-> 0,
                    payload |-> p],
                   [id |-> 2, role |-> "snapshot", version |-> 1, ref |-> 1,
                    payload |-> NoPayload],
                   [id |-> 3, role |-> "timestamp", version |-> 1, ref |-> 2,
                    payload |-> NoPayload]}
        /\ nextId = 4
        /\ published = p
        /\ pc = [j \in Job |-> "idle"]
        /\ seen = [j \in Job |-> Nothing]
        /\ plan = [j \in Job |-> p]
  BY DEF Init
<1>2. Shape
  BY <1>1 DEF Shape, Nothing, PC
<1>3. TableTyped
  BY <1>1, PayloadAssumption DEF TableTyped, Row, Role
<1>4. AllResolve
  BY <1>1 DEF AllResolve, Resolves
<1>5. NoGaps /\ RoleOrder
  BY <1>1 DEF NoGaps, RoleOrder
<1>6. JobInv
  BY <1>1 DEF JobInv, JobTyped, JobOrder, PC, Nothing, Needs, Role
<1> QED
  BY <1>2, <1>3, <1>4, <1>5, <1>6 DEF IInv, TableInv

-----------------------------------------------------------------------------
(* What a transaction must insert for the table to keep its invariant.     *)
Matched(r, table) ==
    /\ r.role = "targets" /\ r.role \in Numbered =>
           \E q \in table : q.role = "snapshot" /\ r.version <= q.version
    /\ r.role = "snapshot" =>
           \E q \in table : q.role = "timestamp" /\ r.version <= q.version

GoodBatch(docs) ==
    \A d \in docs : /\ d \in Row
                    /\ nextId <= d.id
                    /\ d.role = "targets" <=> d.payload \in Payload
                    /\ d.role \in Numbered => Follows(d, rows)
                    /\ Resolves(d, rows \cup docs)
                    /\ Matched(d, rows \cup docs)

LEMMA InsertKeepsTable ==
    ASSUME Shape, TableInv, NEW docs, GoodBatch(docs),
           rows' = rows \cup docs,
           nextId' \in Nat, nextId <= nextId', \A d \in docs : d.id < nextId'
    PROVE  TableInv' /\ AppendBatch
<1> USE DEF TableInv, GoodBatch
<1>1. TableTyped'
  <2>1. rows' \subseteq Row
    BY DEF TableTyped
  <2>2. ASSUME NEW r \in rows'
        PROVE  r.id < nextId' /\ (r.role = "targets" <=> r.payload \in Payload)
    <3>1. CASE r \in rows
      BY <3>1 DEF TableTyped, Row, Shape
    <3>2. CASE r \in docs
      BY <3>2
    <3> QED
      BY <2>2, <3>1, <3>2
  <2> QED
    BY <2>1, <2>2 DEF TableTyped
<1>2. AllResolve'
  BY DEF AllResolve, Resolves
<1>3. NoGaps'
  <2> SUFFICES ASSUME NEW r \in rows', r.role \in Numbered, r.version # 1
               PROVE  \E q \in rows' : q.role = r.role /\ r.version = q.version + 1
    BY DEF NoGaps
  <2>1. CASE r \in rows
    BY <2>1 DEF NoGaps
  <2>2. CASE r \in docs
    BY <2>2 DEF Follows
  <2> QED
    BY <2>1, <2>2
<1>4. RoleOrder'
  <2> SUFFICES ASSUME NEW r \in rows' PROVE Matched(r, rows')
    BY DEF RoleOrder, Matched
  <2>1. CASE r \in rows
    BY <2>1 DEF RoleOrder, Matched
  <2>2. CASE r \in docs
    BY <2>2
  <2> QED
    BY <2>1, <2>2
<1>5. AppendBatch
  <2>1. ASSUME NEW r \in rows' \ rows, NEW q \in rows
        PROVE  r.id # q.id
    BY <2>1 DEF TableTyped, Row, Shape
  <2> QED
    BY <2>1 DEF AppendBatch
<1> QED
  BY <1>1, <1>2, <1>3, <1>4, <1>5

(* A step of job j leaves what the other jobs know alone: the table only   *)
(* grows.                                                                  *)
LEMMA OtherJobsKeep ==
    ASSUME Shape, JobInv, rows \subseteq rows', NEW j \in Job, NEW at \in PC,
           NEW known \in [Role -> Row \cup {NoRow}],
           pc' = [pc EXCEPT ![j] = at],
           seen' = [seen EXCEPT ![j] = known],
           (JobTyped(j) /\ JobOrder(j))'
    PROVE  JobInv'
<1> SUFFICES ASSUME NEW k \in Job PROVE (JobTyped(k) /\ JobOrder(k))'
  BY DEF JobInv
<1>1. CASE k = j
  BY <1>1
<1>2. CASE k # j
  <2>1. pc'[k] = pc[k] /\ seen'[k] = seen[k]
    BY <1>2 DEF Shape
  <2>2. JobTyped(k) /\ JobOrder(k)
    BY DEF JobInv
  <2> QED
    BY <2>1, <2>2 DEF JobTyped, JobOrder
<1> QED
  BY <1>1, <1>2

-----------------------------------------------------------------------------
(* The four kinds of step: a query, a step that only moves on, a step that *)
(* forgets what was read without writing, and a transaction.               *)
LEMMA ReadStep ==
    ASSUME IInv, NEW j \in Job, NEW role \in Role, NEW from, NEW at \in PC,
           Goto(j, from, at), Read(j, role),
           UNCHANGED <<rows, plan, nextId, published>>,
           Needs(at) \subseteq Needs(from) \cup {role},
           JobOrder(j)'
    PROVE  IInv' /\ [AppendBatch]_rows
<1> USE DEF IInv
<1>1. PICK r \in rows : /\ IsLatest(r, role, rows)
                       /\ seen' = [seen EXCEPT ![j][role] = r]
  BY DEF Read
<1> DEFINE known == [seen[j] EXCEPT ![role] = r]
<1>2. known \in [Role -> Row \cup {NoRow}] /\ r # NoRow
  BY NoRowAssumption DEF Shape, TableInv, TableTyped
<1>3. seen' = [seen EXCEPT ![j] = known]
  BY <1>1 DEF Shape
<1>4. pc[j] = from /\ pc' = [pc EXCEPT ![j] = at]
  BY DEF Goto
<1>5. pc'[j] = at /\ seen'[j] = known
  BY <1>3, <1>4 DEF Shape
<1>6. JobTyped(j)'
  <2>1. JobTyped(j)
    BY DEF JobInv
  <2>2. \A x \in Role : known[x] = IF x = role THEN r ELSE seen[j][x]
    BY DEF Shape
  <2>3. r.role = role
    BY <1>1 DEF IsLatest
  <2>4. ASSUME NEW x \in Role, known[x] # NoRow
        PROVE  known[x] \in rows /\ known[x].role = x
    BY <2>1, <2>2, <2>3, <2>4 DEF JobTyped
  <2>5. ASSUME NEW x \in Needs(at) PROVE known[x] # NoRow
    <3>1. x \in Role
      BY <2>5 DEF Needs, Role
    <3> QED
      BY <1>2, <1>4, <2>1, <2>2, <2>5, <3>1 DEF JobTyped
  <2> QED
    BY <1>5, <2>4, <2>5 DEF JobTyped
<1>7. JobInv'
  BY <1>2, <1>3, <1>4, <1>6, OtherJobsKeep
<1>8. Shape'
  BY <1>2, <1>3, <1>4 DEF Shape
<1>9. TableInv'
  BY DEF TableInv, TableTyped, AllResolve, Resolves, NoGaps, RoleOrder
<1> QED
  BY <1>7, <1>8, <1>9

LEMMA MoveStep ==
    ASSUME IInv, NEW j \in Job, NEW from, NEW at \in PC, NEW p \in Payload,
           Goto(j, from, at),
           plan' \in {plan, [plan EXCEPT ![j] = p]},
           UNCHANGED <<rows, seen, nextId, published>>,
           Needs(at) \subseteq Needs(from),
           at \notin {"readTimestamp", "commitTargets", "commitSnapshot"}
    PROVE  IInv' /\ [AppendBatch]_rows
<1> USE DEF IInv
<1>1. pc[j] = from /\ pc' = [pc EXCEPT ![j] = at] /\ pc'[j] = at
  BY DEF Goto, Shape
<1>2. seen' = [seen EXCEPT ![j] = seen[j]] /\ seen[j] \in [Role -> Row \cup {NoRow}]
  BY DEF Shape
<1>3. (JobTyped(j) /\ JobOrder(j))'
  BY <1>1 DEF JobInv, JobTyped, JobOrder
<1>4. JobInv'
  BY <1>1, <1>2, <1>3, OtherJobsKeep
<1>5. Shape'
  BY <1>1 DEF Shape
<1>6. TableInv'
  BY DEF TableInv, TableTyped, AllResolve, Resolves, NoGaps, RoleOrder
<1> QED
  BY <1>4, <1>5, <1>6

LEMMA ForgetKeepsJobs ==
    ASSUME Shape, JobInv, rows \subseteq rows', NEW j \in Job, NEW at \in PC,
           pc' = [pc EXCEPT ![j] = at], Needs(at) = {},
           seen' = [seen EXCEPT ![j] = Nothing], UNCHANGED plan
    PROVE  JobInv' /\ pc' \in [Job -> PC] /\ plan' \in [Job -> Payload]
             /\ seen' \in [Job -> [Role -> Row \cup {NoRow}]]
<1>1. Nothing \in [Role -> Row \cup {NoRow}]
  BY DEF Nothing
<1>2. pc'[j] = at /\ seen'[j] = Nothing
  BY DEF Shape
<1>3. at \notin {"readTimestamp", "commitTargets", "commitSnapshot"}
  BY DEF Needs, Role
<1>4. (JobTyped(j) /\ JobOrder(j))'
  BY <1>2, <1>3 DEF JobTyped, JobOrder, Nothing
<1>5. JobInv'
  BY <1>1, <1>4, OtherJobsKeep
<1> QED
  BY <1>1, <1>5 DEF Shape

LEMMA ForgetStep ==
    ASSUME IInv, NEW j \in Job, NEW at \in PC,
           pc' = [pc EXCEPT ![j] = at], Needs(at) = {},
           seen' = [seen EXCEPT ![j] = Nothing],
           UNCHANGED <<rows, plan, nextId, published>>
    PROVE  IInv' /\ [AppendBatch]_rows
<1> USE DEF IInv
<1>1. JobInv' /\ Shape'
  BY ForgetKeepsJobs DEF Shape
<1>2. TableInv'
  BY DEF TableInv, TableTyped, AllResolve, Resolves, NoGaps, RoleOrder
<1> QED
  BY <1>1, <1>2

LEMMA CommitStep ==
    ASSUME IInv, NEW j \in Job, NEW at \in PC, NEW docs,
           pc' = [pc EXCEPT ![j] = at], Needs(at) = {},
           seen' = [seen EXCEPT ![j] = Nothing],
           GoodBatch(docs), rows' = rows \cup docs,
           nextId' \in Nat, nextId <= nextId', \A d \in docs : d.id < nextId',
           published' \in Payload, UNCHANGED plan
    PROVE  IInv' /\ [AppendBatch]_rows
<1> USE DEF IInv
<1>1. TableInv' /\ AppendBatch
  BY InsertKeepsTable
<1>2. rows \subseteq rows'
  OBVIOUS
<1>3. /\ JobInv' /\ pc' \in [Job -> PC] /\ plan' \in [Job -> Payload]
      /\ seen' \in [Job -> [Role -> Row \cup {NoRow}]]
  BY <1>2, ForgetKeepsJobs
<1>4. Shape'
  BY <1>3 DEF Shape
<1> QED
  BY <1>1, <1>3, <1>4

-----------------------------------------------------------------------------
(* The batches of the three transactions are good ones.                    *)
LEMMA FullChainIsGood ==
    ASSUME IInv, NEW j \in Job, pc[j] = "commitTargets", NEW p \in Payload
    PROVE  /\ GoodBatch(FullChain(j, p))
           /\ \A d \in FullChain(j, p) : d.id < nextId + 3
<1> DEFINE t == seen[j]["targets"]
           s == seen[j]["snapshot"]
           m == seen[j]["timestamp"]
           T == TargetsDoc(j, nextId, p)
           S == SnapshotDoc(j, nextId + 1, nextId)
           M == TimestampDoc(j, nextId + 2, nextId + 1)
<1> USE DEF IInv
<1>1. /\ t \in rows /\ t.role = "targets"
      /\ s \in rows /\ s.role = "snapshot"
      /\ m \in rows /\ m.role = "timestamp"
      /\ ("targets" \in Numbered => t.version <= s.version) /\ s.version <= m.version
  BY DEF JobInv, JobTyped, JobOrder, Needs, Role
<1>2. /\ t.version \in Nat \ {0} /\ s.version \in Nat \ {0} /\ m.version \in Nat \ {0}
      /\ nextId \in Nat \ {0}
  BY <1>1 DEF TableInv, TableTyped, Row, Shape
<1>3. /\ T = [id |-> nextId, role |-> "targets", version |-> t.version + 1,
               ref |-> 0, payload |-> p]
      /\ S = [id |-> nextId + 1, role |-> "snapshot", version |-> s.version + 1,
               ref |-> nextId, payload |-> NoPayload]
      /\ M = [id |-> nextId + 2, role |-> "timestamp", version |-> m.version + 1,
               ref |-> nextId + 1, payload |-> NoPayload]
  BY DEF TargetsDoc, SnapshotDoc, TimestampDoc, NextVersion
<1>4. FullChain(j, p) = {T, S, M}
  BY DEF FullChain
<1> HIDE DEF T, S, M
<1>5. \A d \in {T, S, M} : d \in Row /\ nextId <= d.id /\ d.id < nextId + 3
  BY <1>2, <1>3 DEF Row, Role
<1>6. \A d \in {T, S, M} : d.role = "targets" <=> d.payload \in Payload
  BY <1>3, PayloadAssumption
<1>7. \A d \in {T, S, M} : Follows(d, rows)
  BY <1>1, <1>3 DEF Follows
<1>8. \A d \in {T, S, M} : Resolves(d, rows \cup {T, S, M})
  BY <1>3 DEF Resolves
<1>9. \A d \in {T, S, M} : Matched(d, rows \cup {T, S, M})
  BY <1>1, <1>2, <1>3 DEF Matched
<1> QED
  BY <1>4, <1>5, <1>6, <1>7, <1>8, <1>9 DEF GoodBatch

LEMMA SnapshotBatchIsGood ==
    ASSUME IInv, NEW j \in Job, pc[j] = "commitSnapshot", NEW docs,
           docs = {SnapshotDoc(j, nextId, seen[j]["targets"].id),
                   TimestampDoc(j, nextId + 1, nextId)}
    PROVE  GoodBatch(docs) /\ \A d \in docs : d.id < nextId + 2
<1> DEFINE t == seen[j]["targets"]
           s == seen[j]["snapshot"]
           m == seen[j]["timestamp"]
           S == SnapshotDoc(j, nextId, t.id)
           M == TimestampDoc(j, nextId + 1, nextId)
<1> USE DEF IInv
<1>1. /\ t \in rows /\ t.role = "targets"
      /\ s \in rows /\ s.role = "snapshot"
      /\ m \in rows /\ m.role = "timestamp"
      /\ s.version <= m.version
  BY DEF JobInv, JobTyped, JobOrder, Needs, Role
<1>2. /\ s.version \in Nat \ {0} /\ m.version \in Nat \ {0} /\ t.id \in Nat
      /\ nextId \in Nat \ {0}
  BY <1>1 DEF TableInv, TableTyped, Row, Shape
<1>3. /\ S = [id |-> nextId, role |-> "snapshot", version |-> s.version + 1,
               ref |-> t.id, payload |-> NoPayload]
      /\ M = [id |-> nextId + 1, role |-> "timestamp", version |-> m.version + 1,
               ref |-> nextId, payload |-> NoPayload]
  BY DEF SnapshotDoc, TimestampDoc, NextVersion
<1>4. docs = {S, M}
  OBVIOUS
<1> HIDE DEF S, M
<1>5. \A d \in {S, M} : d \in Row /\ nextId <= d.id /\ d.id < nextId + 2
  BY <1>2, <1>3 DEF Row, Role
<1>6. \A d \in {S, M} : d.role = "targets" <=> d.payload \in Payload
  BY <1>3, PayloadAssumption
<1>7. \A d \in {S, M} : Follows(d, rows)
  BY <1>1, <1>3 DEF Follows
<1>8. \A d \in {S, M} : Resolves(d, rows \cup {S, M})
  BY <1>1, <1>3 DEF Resolves
<1>9. \A d \in {S, M} : Matched(d, rows \cup {S, M})
  BY <1>1, <1>2, <1>3 DEF Matched
<1> QED
  BY <1>4, <1>5, <1>6, <1>7, <1>8, <1>9 DEF GoodBatch

LEMMA TimestampBatchIsGood ==
    ASSUME IInv, NEW j \in Job, pc[j] = "commitTimestamp", NEW docs,
           docs = {TimestampDoc(j, nextId, seen[j]["snapshot"].id)}
    PROVE  GoodBatch(docs) /\ \A d \in docs : d.id < nextId + 1
<1> DEFINE s == seen[j]["snapshot"]
           m == seen[j]["timestamp"]
           M == TimestampDoc(j, nextId, s.id)
<1> USE DEF IInv
<1>1. /\ s \in rows /\ s.role = "snapshot"
      /\ m \in rows /\ m.role = "timestamp"
  BY DEF JobInv, JobTyped, JobOrder, Needs, Role
<1>2. m.version \in Nat \ {0} /\ s.id \in Nat /\ nextId \in Nat \ {0}
  BY <1>1 DEF TableInv, TableTyped, Row, Shape
<1>3. M = [id |-> nextId, role |-> "timestamp", version |-> m.version + 1,
           ref |-> s.id, payload |-> NoPayload]
  BY DEF TimestampDoc, NextVersion
<1>4. docs = {M}
  OBVIOUS
<1> HIDE DEF M
<1>5. M \in Row /\ nextId <= M.id /\ M.id < nextId + 1
  BY <1>2, <1>3 DEF Row, Role
<1>6. (M.role = "targets" <=> M.payload \in Payload) /\ Follows(M, rows)
  BY <1>1, <1>3, PayloadAssumption DEF Follows
<1>7. Resolves(M, rows \cup {M}) /\ Matched(M, rows \cup {M})
  BY <1>1, <1>3 DEF Resolves, Matched
<1> QED
  BY <1>4, <1>5, <1>6, <1>7 DEF GoodBatch

-----------------------------------------------------------------------------
(* The two queries both workers share, and the one of processSnapshotRoles. *)
LEMMA ReadSnapshotKeeps ==
    ASSUME IInv, NEW j \in Job, ReadSnapshot(j)
    PROVE  IInv' /\ [AppendBatch]_rows
<1>1. PICK r \in rows : /\ IsLatest(r, "snapshot", rows)
                       /\ seen' = [seen EXCEPT ![j]["snapshot"] = r]
  BY DEF ReadSnapshot, Read
<1>2. pc[j] = "readSnapshot" /\ pc'[j] = "readTimestamp"
  BY DEF ReadSnapshot, Goto, IInv, Shape
<1> DEFINE t == seen[j]["targets"]
<1>3. t \in rows /\ t.role = "targets"
  BY <1>2 DEF IInv, JobInv, JobTyped, Needs, Role
<1>5. ASSUME "targets" \in Numbered PROVE t.version <= r.version
  <2>1. PICK q \in rows : q.role = "snapshot" /\ t.version <= q.version
    BY <1>3, <1>5 DEF IInv, TableInv, RoleOrder
  <2>2. q.version <= r.version
    BY <1>1, <2>1 DEF IsLatest
  <2>3. t.version \in Nat /\ q.version \in Nat /\ r.version \in Nat
    BY <1>3 DEF IInv, TableInv, TableTyped, Row
  <2> QED
    BY <2>1, <2>2, <2>3
<1>6. seen'[j]["targets"] = t /\ seen'[j]["snapshot"] = r
  BY <1>1 DEF IInv, Shape, Role
<1>7. JobOrder(j)'
  BY <1>2, <1>5, <1>6 DEF JobOrder
<1> QED
  BY <1>7, ReadStep DEF ReadSnapshot, PC, Needs, Role

LEMMA LatestTimestampIsAhead ==
    ASSUME IInv, NEW s \in rows, s.role = "snapshot",
           NEW r \in rows, IsLatest(r, "timestamp", rows)
    PROVE  s.version <= r.version
<1>1. PICK q \in rows : q.role = "timestamp" /\ s.version <= q.version
  BY DEF IInv, TableInv, RoleOrder
<1>2. q.version <= r.version
  BY <1>1 DEF IsLatest
<1>3. s.version \in Nat /\ q.version \in Nat /\ r.version \in Nat
  BY DEF IInv, TableInv, TableTyped, Row
<1> QED
  BY <1>1, <1>2, <1>3

LEMMA ReadTimestampKeeps ==
    ASSUME IInv, NEW j \in Job, ReadTimestamp(j)
    PROVE  IInv' /\ [AppendBatch]_rows
<1>1. PICK r \in rows : /\ IsLatest(r, "timestamp", rows)
                       /\ seen' = [seen EXCEPT ![j]["timestamp"] = r]
  BY DEF ReadTimestamp, Read
<1>2. pc[j] = "readTimestamp" /\ pc'[j] = "commitTargets"
  BY DEF ReadTimestamp, Goto, IInv, Shape
<1> DEFINE t == seen[j]["targets"]
           s == seen[j]["snapshot"]
<1>3. /\ s \in rows /\ s.role = "snapshot"
      /\ "targets" \in Numbered => t.version <= s.version
  BY <1>2 DEF IInv, JobInv, JobTyped, JobOrder, Needs, Role
<1>4. s.version <= r.version
  BY <1>1, <1>3, LatestTimestampIsAhead
<1>5. /\ seen'[j]["targets"] = t
      /\ seen'[j]["snapshot"] = s
      /\ seen'[j]["timestamp"] = r
  BY <1>1 DEF IInv, Shape, Role
<1>6. JobOrder(j)'
  BY <1>2, <1>3, <1>4, <1>5 DEF JobOrder
<1> QED
  BY <1>6, ReadStep DEF ReadTimestamp, PC, Needs, Role

LEMMA ReadTimestampOnlyKeeps ==
    ASSUME IInv, NEW j \in Job, ReadTimestampOnly(j)
    PROVE  IInv' /\ [AppendBatch]_rows
<1>1. PICK r \in rows : /\ IsLatest(r, "timestamp", rows)
                       /\ seen' = [seen EXCEPT ![j]["timestamp"] = r]
  BY DEF ReadTimestampOnly, Read
<1>2. pc[j] = "readTimestampOnly" /\ pc'[j] = "commitSnapshot"
  BY DEF ReadTimestampOnly, Goto, IInv, Shape
<1> DEFINE s == seen[j]["snapshot"]
<1>3. s \in rows /\ s.role = "snapshot"
  BY <1>2 DEF IInv, JobInv, JobTyped, Needs, Role
<1>4. s.version <= r.version
  BY <1>1, <1>3, LatestTimestampIsAhead
<1>5. seen'[j]["snapshot"] = s /\ seen'[j]["timestamp"] = r
  BY <1>1 DEF IInv, Shape, Role
<1>6. JobOrder(j)'
  BY <1>2, <1>4, <1>5 DEF JobOrder
<1> QED
  BY <1>6, ReadStep DEF ReadTimestampOnly, PC, Needs, Role

(* Every step keeps the invariant and appends a batch, or nothing.         *)
LEMMA RolloutStepKeeps ==
    ASSUME IInv, NEW j \in RolloutJob, RolloutStep(j)
    PROVE  IInv' /\ [AppendBatch]_rows
<1> j \in Job
  BY DEF Job
<1> USE DEF PC, Needs, Role
<1>1. ASSUME NEW p \in Payload, StartRollout(j, p) PROVE IInv' /\ [AppendBatch]_rows
  <2>1. plan' \in {plan, [plan EXCEPT ![j] = p]}
    BY <1>1 DEF StartRollout
  <2> QED
    BY <1>1, <2>1, MoveStep DEF StartRollout
<1>2. CASE RolloutReadTargets(j)
  <2>1. JobOrder(j)'
    BY <1>2 DEF RolloutReadTargets, Goto, JobOrder, IInv, Shape
  <2> QED
    BY <1>2, <2>1, ReadStep DEF RolloutReadTargets
<1>3. CASE ReadSnapshot(j)
  BY <1>3, ReadSnapshotKeeps
<1>4. CASE ReadTimestamp(j)
  BY <1>4, ReadTimestampKeeps
<1>5. CASE CommitRollout(j)
  <2>1. pc[j] = "commitTargets" /\ pc' = [pc EXCEPT ![j] = "idle"] /\ plan[j] \in Payload
    BY <1>5 DEF CommitRollout, Goto, IInv, Shape
  <2>2. /\ GoodBatch(FullChain(j, plan[j]))
        /\ \A d \in FullChain(j, plan[j]) : d.id < nextId + 3
    BY <2>1, FullChainIsGood
  <2>3. nextId' \in Nat /\ nextId <= nextId' /\ nextId' = nextId + 3
    BY <1>5 DEF CommitRollout, IInv, Shape
  <2>4. /\ rows' = rows \cup FullChain(j, plan[j])
        /\ seen' = [seen EXCEPT ![j] = Nothing]
        /\ published' = plan[j] /\ UNCHANGED plan
    BY <1>5 DEF CommitRollout, Insert
  <2> QED
    BY <2>1, <2>2, <2>3, <2>4, CommitStep
<1> QED
  BY <1>1, <1>2, <1>3, <1>4, <1>5 DEF RolloutStep

LEMMA ResignStepKeeps ==
    ASSUME IInv, NEW j \in ResignJob, ResignStep(j)
    PROVE  IInv' /\ [AppendBatch]_rows
<1> j \in Job
  BY DEF Job
<1> USE DEF PC, Needs, Role
<1> DEFINE Quiet == pc'[j] \notin {"readTimestamp", "commitTargets", "commitSnapshot"}
<1>0. Quiet => JobOrder(j)'
  BY DEF JobOrder
<1>1. CASE ListTargets(j)
  <2>1. Quiet
    BY <1>1 DEF ListTargets, Goto, IInv, Shape
  <2> QED
    BY <1>1, <2>1, <1>0, ReadStep DEF ListTargets
<1>2. CASE TargetsExpiring(j)
  <2>1. PICK p : p \in Payload
    BY PayloadAssumption
  <2> QED
    BY <1>2, <2>1, MoveStep DEF TargetsExpiring
<1>3. CASE TargetsFresh(j)
  BY <1>3, ForgetStep DEF TargetsFresh, Goto
<1>4. CASE ReadSnapshot(j)
  BY <1>4, ReadSnapshotKeeps
<1>5. CASE ReadTimestamp(j)
  BY <1>5, ReadTimestampKeeps
<1>6. CASE CommitResignedTargets(j)
  <2>1. pc[j] = "commitTargets" /\ pc' = [pc EXCEPT ![j] = "listSnapshots"]
    BY <1>6 DEF CommitResignedTargets, Goto
  <2> DEFINE p == seen[j]["targets"].payload
  <2>2. p \in Payload
    BY <2>1 DEF IInv, JobInv, JobTyped, TableInv, TableTyped
  <2>3. /\ GoodBatch(FullChain(j, p))
        /\ \A d \in FullChain(j, p) : d.id < nextId + 3
    BY <2>1, <2>2, FullChainIsGood
  <2>4. nextId' \in Nat /\ nextId <= nextId' /\ nextId' = nextId + 3 /\ published' \in Payload
    BY <1>6 DEF CommitResignedTargets, IInv, Shape
  <2>5. /\ rows' = rows \cup FullChain(j, p)
        /\ seen' = [seen EXCEPT ![j] = Nothing] /\ UNCHANGED plan
    BY <1>6 DEF CommitResignedTargets, Insert
  <2> QED
    BY <2>1, <2>3, <2>4, <2>5, CommitStep
<1>7. CASE ListSnapshots(j)
  <2>1. Quiet
    BY <1>7 DEF ListSnapshots, Goto, IInv, Shape
  <2> QED
    BY <1>7, <2>1, <1>0, ReadStep DEF ListSnapshots
<1>8. CASE SnapshotFresh(j)
  BY <1>8, ForgetStep DEF SnapshotFresh, Goto
<1>9. CASE SnapshotExpiring(j)
  <2>1. Quiet
    BY <1>9 DEF SnapshotExpiring, Goto, IInv, Shape
  <2> QED
    BY <1>9, <2>1, <1>0, ReadStep DEF SnapshotExpiring
<1>10. CASE ReadTimestampOnly(j)
  BY <1>10, ReadTimestampOnlyKeeps
<1>11. CASE CommitSnapshot(j)
  <2> DEFINE docs == {SnapshotDoc(j, nextId, seen[j]["targets"].id),
                      TimestampDoc(j, nextId + 1, nextId)}
  <2>1. pc[j] = "commitSnapshot" /\ pc' = [pc EXCEPT ![j] = "listTimestamps"]
    BY <1>11 DEF CommitSnapshot, Goto
  <2>2. GoodBatch(docs) /\ \A d \in docs : d.id < nextId + 2
    BY <2>1, SnapshotBatchIsGood
  <2>3. nextId' \in Nat /\ nextId <= nextId' /\ nextId' = nextId + 2 /\ published' \in Payload
    BY <1>11 DEF CommitSnapshot, IInv, Shape
  <2>4. /\ rows' = rows \cup docs
        /\ seen' = [seen EXCEPT ![j] = Nothing] /\ UNCHANGED plan
    BY <1>11 DEF CommitSnapshot, Insert
  <2> HIDE DEF docs
  <2> QED
    BY <2>1, <2>2, <2>3, <2>4, CommitStep
<1>12. CASE ListTimestamps(j)
  <2>1. Quiet
    BY <1>12 DEF ListTimestamps, Goto, IInv, Shape
  <2> QED
    BY <1>12, <2>1, <1>0, ReadStep DEF ListTimestamps
<1>13. CASE TimestampFresh(j)
  BY <1>13, ForgetStep DEF TimestampFresh, Goto
<1>14. CASE TimestampExpiring(j)
  <2>1. Quiet
    BY <1>14 DEF TimestampExpiring, Goto, IInv, Shape
  <2> QED
    BY <1>14, <2>1, <1>0, ReadStep DEF TimestampExpiring
<1>15. CASE CommitTimestamp(j)
  <2> DEFINE docs == {TimestampDoc(j, nextId, seen[j]["snapshot"].id)}
  <2>1. pc[j] = "commitTimestamp" /\ pc' = [pc EXCEPT ![j] = "idle"]
    BY <1>15 DEF CommitTimestamp, Goto
  <2>2. GoodBatch(docs) /\ \A d \in docs : d.id < nextId + 1
    BY <2>1, TimestampBatchIsGood
  <2>3. nextId' \in Nat /\ nextId <= nextId' /\ nextId' = nextId + 1 /\ published' \in Payload
    BY <1>15 DEF CommitTimestamp, IInv, Shape
  <2>4. /\ rows' = rows \cup docs
        /\ seen' = [seen EXCEPT ![j] = Nothing] /\ UNCHANGED plan
    BY <1>15 DEF CommitTimestamp, Insert
  <2> HIDE DEF docs
  <2> QED
    BY <2>1, <2>2, <2>3, <2>4, CommitStep
<1>16. CASE SkipDocument(j)
  BY <1>16, ForgetStep DEF SkipDocument
<1> QED
  BY <1>1, <1>2, <1>3, <1>4, <1>5, <1>6, <1>7, <1>8, <1>9, <1>10, <1>11, <1>12,
     <1>13, <1>14, <1>15, <1>16 DEF ResignStep

LEMMA NextKeeps == IInv /\ [Next]_vars => IInv' /\ [AppendBatch]_rows
<1> SUFFICES ASSUME IInv, [Next]_vars PROVE IInv' /\ [AppendBatch]_rows
  OBVIOUS
<1>1. ASSUME NEW j \in Job, Stop(j) PROVE IInv' /\ [AppendBatch]_rows
  BY <1>1, ForgetStep DEF Stop, PC, Needs
<1>2. CASE UNCHANGED vars
  BY <1>2 DEF vars, IInv, Shape, TableInv, TableTyped, AllResolve, Resolves, NoGaps,
              RoleOrder, JobInv, JobTyped, JobOrder
<1> QED
  BY <1>1, <1>2, RolloutStepKeeps, ResignStepKeeps DEF Next

-----------------------------------------------------------------------------
(* Type correctness, for any jobs, payloads and bound.                     *)
THEOREM TypeCorrect == Spec => []TypeOK
<1>1. IInv => TypeOK
  BY DEF IInv, Shape, TableInv, TableTyped, JobInv, JobTyped, TypeOK
<1> QED
  BY <1>1, InitIInv, NextKeeps, PTL DEF Spec

(* Any number of overlapping, failing or stopped runs of the rollout       *)
(* worker and the re-signer leave no hole in the versions of a role.       *)
THEOREM VersionsHaveNoGaps == Spec => []NoGaps
<1>1. IInv => NoGaps
  BY DEF IInv, TableInv
<1> QED
  BY <1>1, InitIInv, NextKeeps, PTL DEF Spec

(* Any number of overlapping runs keep timestamp versions at or above      *)
(* snapshot versions, and those at or above targets versions.              *)
THEOREM RolesStayOrdered == Spec => []RoleOrder
<1>1. IInv => RoleOrder
  BY DEF IInv, TableInv
<1> QED
  BY <1>1, InitIInv, NextKeeps, PTL DEF Spec

(* The jobs implement the append-only log of MetadataLog.                  *)
THEOREM JobsImplementLog == Spec => ImplementsLog
<1>1. ASSUME Init PROVE LogInit
  <2>1. \A r \in rows : r \in Row /\ Resolves(r, rows)
    BY <1>1, InitIInv DEF IInv, TableInv, TableTyped, AllResolve
  <2>2. \A r \in rows : r.version = 1
    BY <1>1 DEF Init
  <2>3. ASSUME NEW role \in Role PROVE \E r \in rows : r.role = role /\ r.version = 1
    BY <1>1 DEF Init, Role
  <2>4. ASSUME NEW role \in Role PROVE 1 \in VersionsIn(rows, role)
    BY <2>3 DEF VersionsIn
  <2> QED
    BY <2>1, <2>2, <2>4 DEF LogInit
<1> QED
  BY <1>1, InitIInv, NextKeeps, PTL DEF Spec, ImplementsLog, LogSpec
=============================================================================

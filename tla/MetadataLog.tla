---------------------------- MODULE MetadataLog ----------------------------
(***************************************************************************)
(* What the table of signed TUF metadata of one repository promises to its *)
(* readers, whoever writes it and however the writers interleave: it only  *)
(* grows, a write is a batch that appears all at once, and a batch never   *)
(* points outside the table nor jumps a version that the server counts.    *)
(*                                                                         *)
(* The table is the set of rows that share (team, repo, robot_id).  A row  *)
(* has an id (its primary key, in the order of commits), the role it       *)
(* signs, its version, the id of the row it hashes (snapshot -> targets,   *)
(* timestamp -> snapshot; 0 for targets) and, for targets, its payload.    *)
(***************************************************************************)
EXTENDS Naturals

CONSTANTS Payload,      \* what a targets document can list
          NoPayload,    \* the payload of a document that is not targets
          Numbered      \* the roles whose versions the server counts: all of
                        \* them in the director repository; in the image
                        \* repository clients number targets themselves

Role == {"targets", "snapshot", "timestamp"}

Row == [id: Nat \ {0}, role: Role, version: Nat \ {0}, ref: Nat,
        payload: Payload \cup {NoPayload}]

VARIABLE rows           \* the committed rows of tuf_metadata

(* Versions of a role that are in the table, and the newest documents.     *)
VersionsIn(table, role) == {r.version : r \in {q \in table : q.role = role}}

IsLatest(row, role, table) ==
    /\ row \in table
    /\ row.role = role
    /\ \A q \in table : q.role = role => q.version <= row.version

(* A document points at a document of the role it is meant to hash.        *)
Resolves(row, table) ==
    /\ row.role = "targets" => row.ref = 0
    /\ row.role = "snapshot" => \E q \in table : q.id = row.ref /\ q.role = "targets"
    /\ row.role = "timestamp" => \E q \in table : q.id = row.ref /\ q.role = "snapshot"

(* A new row is one above some version already there: the versions the     *)
(* server counts never have a gap, though one can be written twice.        *)
Follows(row, table) == \E q \in table : q.role = row.role /\ row.version = q.version + 1

LogInit ==
    /\ \A r \in rows : r \in Row /\ r.version = 1 /\ Resolves(r, rows)
    /\ \A role \in Role : 1 \in VersionsIn(rows, role)

AppendBatch ==
    /\ rows \subseteq rows'
    /\ \A r \in rows' \ rows : /\ r \in Row
                               /\ \A q \in rows : r.id # q.id
                               /\ r.role \in Numbered => Follows(r, rows)
                               /\ Resolves(r, rows')

LogSpec == LogInit /\ [][AppendBatch]_rows
=============================================================================

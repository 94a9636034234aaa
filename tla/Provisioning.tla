---------------------------- MODULE Provisioning ----------------------------
(***************************************************************************)
(* Provisioning credentials and the robots they provision, for one team:   *)
(* users create, download and revoke credentials and delete robots, robots *)
(* ask for an identity.  Every operation works on several stores, one call *)
(* after the other: the tables, the key store, the trash.                  *)
(*                                                                         *)
(* A step is one call that waits (a query, or a call to the key store)     *)
(* with the code that runs before the next one.  None of these handlers    *)
(* catches what its calls throw, and Express does not either: an           *)
(* unhandled rejection ends the process and every handler with it.         *)
(***************************************************************************)
EXTENDS Naturals, FiniteSets

CONSTANTS Cred, Robot, NoRobot,
          Handler,        \* requests that can be in progress at once
          StrictDelete,   \* deleting a missing key throws (files) or not (AWS)
          MaxRobotCerts,  \* bound: robot certificates issued
          MaxRestarts     \* bound: ends of the process

ASSUME ProvisioningAssumption == /\ Cred # {} /\ NoRobot \notin Robot
                                 /\ StrictDelete \in BOOLEAN
                                 /\ MaxRobotCerts \in Nat
                                 /\ MaxRestarts \in Nat

(* Certificates: two per credential, and those of robots by number.        *)
Prov(c) == [cred |-> c, type |-> "provisioning"]
Client(c) == [cred |-> c, type |-> "client"]
CredCert == [cred: Cred, type: {"provisioning", "client"}]
RobotCert == [serial: 1..MaxRobotCerts]
NoCert == [serial |-> 0]
Cert == CredCert \cup RobotCert

VARIABLES
    status,    \* provisioning_credentials.status
    certs,     \* certificates.status
    owner,     \* certificates.robot_id
    keys,      \* key store: temporary keys of credentials
    trash,     \* trash: certificates to be revoked
    robots,    \* robots
    handler,   \* requests in progress
    restarts,  \* ends of the process so far
    archives,  \* replies with the archive of a credential (history)
    held       \* certificates robots were given (history)

tables == <<status, certs, owner, trash, robots>>
vars == <<tables, keys, handler, restarts, archives, held>>

Step == {"idle", "issue_client", "put_prov", "put_client", "insert",
         "download_prov", "download_client", "get_keys", "delete_prov",
         "delete_client", "set_issued", "reply_archive",
         "trash_client", "trash_prov", "set_revoked",
         "check_robot", "create_robot", "issue_robot", "download_robot",
         "reply_robot", "trash_robot"}

Memory == [at: Step, cred: Cred, robot: Robot \cup {NoRobot}, cert: RobotCert \cup {NoCert}]
Idle == [at |-> "idle", cred |-> CHOOSE c \in Cred : TRUE, robot |-> NoRobot, cert |-> NoCert]

At(h, step) == handler[h].at = step
Goto(h, step) == handler' = [handler EXCEPT ![h].at = step]
Return(h) == handler' = [handler EXCEPT ![h] = Idle]

Init ==
    /\ status = [c \in Cred |-> "none"]
    /\ certs = [k \in Cert |-> "none"]
    /\ owner = [k \in RobotCert |-> NoRobot]
    /\ keys = {}
    /\ trash = {}
    /\ robots = {}
    /\ handler = [h \in Handler |-> Idle]
    /\ restarts = 0
    /\ archives = [c \in Cred |-> 0]
    /\ held = {}

-----------------------------------------------------------------------------
(* The process ends, by itself or because a handler throws, and starts     *)
(* again: what the handlers were doing is lost.                            *)
ProcessEnds ==
    /\ restarts < MaxRestarts
    /\ restarts' = restarts + 1
    /\ handler' = [h \in Handler |-> Idle]

Restart == ProcessEnds /\ UNCHANGED <<tables, keys, archives, held>>

(* Mutant of CanDelete: the file provider ignores a missing file.          *)
CanDeleteAny(k) == TRUE

(* deleteKeyPair.                                                          *)
CanDelete(k) == StrictDelete => k \in keys

(* issueCertificate and downloadCertificate, once the certificate is there *)
(* for the issuer: its row.                                                *)
Issue(k) == certs' = [certs EXCEPT ![k] = "issuing"]
Download(k) == certs' = [certs EXCEPT ![k] = "issued"]

-----------------------------------------------------------------------------
(* createProvisioningCredentials: two certificates, their keys, the row.   *)
(* The id is fresh.                                                        *)
IssueProvCert(h, c) ==
    /\ At(h, "idle")
    /\ certs[Prov(c)] = "none"
    /\ Issue(Prov(c))
    /\ handler' = [handler EXCEPT ![h] = [Idle EXCEPT !.at = "issue_client", !.cred = c]]
    /\ UNCHANGED <<status, owner, keys, trash, robots, restarts, archives, held>>

IssueClientCert(h) ==
    /\ At(h, "issue_client")
    /\ Issue(Client(handler[h].cred))
    /\ Goto(h, "put_prov")
    /\ UNCHANGED <<status, owner, keys, trash, robots, restarts, archives, held>>

PutKeyPair(h) ==
    /\ \/ /\ At(h, "put_prov")
          /\ keys' = keys \cup {Prov(handler[h].cred)}
          /\ Goto(h, "put_client")
       \/ /\ At(h, "put_client")
          /\ keys' = keys \cup {Client(handler[h].cred)}
          /\ Goto(h, "insert")
    /\ UNCHANGED <<tables, restarts, archives, held>>

InsertCredentials(h) ==
    /\ At(h, "insert")
    /\ status' = [status EXCEPT ![handler[h].cred] = "issuing"]
    /\ Return(h)
    /\ UNCHANGED <<certs, owner, keys, trash, robots, restarts, archives, held>>

-----------------------------------------------------------------------------
(* downloadProvisioningCredential.                                         *)
FindForDownload(h, c) ==
    /\ At(h, "idle")
    /\ status[c] = "issuing"
    /\ handler' = [handler EXCEPT ![h] = [Idle EXCEPT !.at = "download_prov", !.cred = c]]
    /\ UNCHANGED <<tables, keys, restarts, archives, held>>

DownloadCertificate(h) ==
    /\ \/ /\ At(h, "download_prov")
          /\ Download(Prov(handler[h].cred))
          /\ Goto(h, "download_client")
       \/ /\ At(h, "download_client")
          /\ Download(Client(handler[h].cred))
          /\ Goto(h, "get_keys")
    /\ UNCHANGED <<status, owner, keys, trash, robots, restarts, archives, held>>

(* The two getKeyPair: a missing key throws.                               *)
GetKeyPairs(h) ==
    /\ At(h, "get_keys")
    /\ IF {Prov(handler[h].cred), Client(handler[h].cred)} \subseteq keys
       THEN Goto(h, "delete_prov") /\ UNCHANGED restarts
       ELSE ProcessEnds
    /\ UNCHANGED <<tables, keys, archives, held>>

DeleteKeyPair(h, step, k, then) ==
    /\ At(h, step)
    /\ IF CanDelete(k)
       THEN keys' = keys \ {k} /\ Goto(h, then) /\ UNCHANGED restarts
       ELSE ProcessEnds /\ UNCHANGED keys
    /\ UNCHANGED <<tables, archives, held>>

DeleteProvKey(h) ==
    DeleteKeyPair(h, "delete_prov", Prov(handler[h].cred), "delete_client")
DeleteClientKey(h) ==
    DeleteKeyPair(h, "delete_client", Client(handler[h].cred), "set_issued")

SetIssued(h) ==
    /\ At(h, "set_issued")
    /\ status' = [status EXCEPT ![handler[h].cred] = "issued"]
    /\ Goto(h, "reply_archive")
    /\ UNCHANGED <<certs, owner, keys, trash, robots, restarts, archives, held>>

ReplyArchive(h) ==
    /\ At(h, "reply_archive")
    /\ archives' = [archives EXCEPT ![handler[h].cred] = @ + 1]
    /\ Return(h)
    /\ UNCHANGED <<tables, keys, restarts, held>>

-----------------------------------------------------------------------------
(* revokeProvisioningCredentials.                                          *)

(* Mutant of FindForRevoke: the status is set before the trash is written. *)
FindForRevokeFirst(h, c) ==
    /\ At(h, "idle")
    /\ status[c] = "issued"
    /\ status' = [status EXCEPT ![c] = "revoked"]
    /\ handler' = [handler EXCEPT ![h] = [Idle EXCEPT !.at = "trash_client", !.cred = c]]
    /\ UNCHANGED <<certs, owner, trash, robots, keys, restarts, archives, held>>

FindForRevoke(h, c) ==
    /\ At(h, "idle")
    /\ status[c] = "issued"
    /\ handler' = [handler EXCEPT ![h] = [Idle EXCEPT !.at = "trash_client", !.cred = c]]
    /\ UNCHANGED <<tables, keys, restarts, archives, held>>

TrashCertificates(h) ==
    /\ \/ /\ At(h, "trash_client")
          /\ trash' = trash \cup {Client(handler[h].cred)}
          /\ Goto(h, "trash_prov")
       \/ /\ At(h, "trash_prov")
          /\ trash' = trash \cup {Prov(handler[h].cred)}
          /\ Goto(h, "set_revoked")
    /\ UNCHANGED <<status, certs, owner, keys, robots, restarts, archives, held>>

(* Mutant of SetRevoked: the request toggles the status.                   *)
SetRevokedToggle(h) ==
    /\ At(h, "set_revoked")
    /\ status' = [status EXCEPT ![handler[h].cred] = IF @ = "revoked" THEN "issued" ELSE "revoked"]
    /\ Return(h)
    /\ UNCHANGED <<certs, owner, keys, trash, robots, restarts, archives, held>>

SetRevoked(h) ==
    /\ At(h, "set_revoked")
    /\ status' = [status EXCEPT ![handler[h].cred] = "revoked"]
    /\ Return(h)
    /\ UNCHANGED <<certs, owner, keys, trash, robots, restarts, archives, held>>

-----------------------------------------------------------------------------
(* POST /devices: the credential must be issued, the robot must be new.    *)
FindCredentials(h, c, r) ==
    /\ At(h, "idle")
    /\ status[c] = "issued"
    /\ handler' = [handler EXCEPT ![h] =
                      [Idle EXCEPT !.at = "check_robot", !.cred = c, !.robot = r]]
    /\ UNCHANGED <<tables, keys, restarts, archives, held>>

CheckRobot(h) ==
    /\ At(h, "check_robot")
    /\ IF handler[h].robot \in robots THEN Return(h) ELSE Goto(h, "create_robot")
    /\ UNCHANGED <<tables, keys, restarts, archives, held>>

(* Robot ids are unique: if another request was faster, the query throws.  *)
CreateRobot(h) ==
    /\ At(h, "create_robot")
    /\ IF handler[h].robot \in robots
       THEN ProcessEnds /\ UNCHANGED robots
       ELSE /\ robots' = robots \cup {handler[h].robot}
            /\ Goto(h, "issue_robot") /\ UNCHANGED restarts
    /\ UNCHANGED <<status, certs, owner, keys, trash, archives, held>>

(* Mutant of IssueRobotCert: the id of the certificate is not kept.        *)
IssueRobotCertForget(h, k) ==
    /\ At(h, "issue_robot")
    /\ handler[h].robot \in robots
    /\ owner' = [owner EXCEPT ![k] = handler[h].robot]
    /\ Goto(h, "reply_robot")
    /\ UNCHANGED <<status, certs, keys, trash, robots, restarts, archives, held>>

(* A foreign key: the certificate of a robot that is gone throws.          *)
IssueRobotCert(h, k) ==
    /\ At(h, "issue_robot")
    /\ certs[k] = "none" /\ \A j \in RobotCert : j.serial < k.serial => certs[j] # "none"
    /\ IF handler[h].robot \in robots
       THEN /\ Issue(k)
            /\ owner' = [owner EXCEPT ![k] = handler[h].robot]
            /\ handler' = [handler EXCEPT ![h].at = "download_robot", ![h].cert = k]
            /\ UNCHANGED restarts
       ELSE ProcessEnds /\ UNCHANGED <<certs, owner>>
    /\ UNCHANGED <<status, keys, trash, robots, archives, held>>

DownloadRobotCert(h) ==
    /\ At(h, "download_robot")
    /\ Download(handler[h].cert)
    /\ Goto(h, "reply_robot")
    /\ UNCHANGED <<status, owner, keys, trash, robots, restarts, archives, held>>

ReplyRobot(h) ==
    /\ At(h, "reply_robot")
    /\ held' = held \cup {handler[h].cert}
    /\ Return(h)
    /\ UNCHANGED <<tables, keys, restarts, archives>>

-----------------------------------------------------------------------------
(* deleteRobot: its certificates lose their robot_id, one of them is       *)
(* remembered for the trash; without one, reading its id throws at once.   *)
CertsOf(r) == {k \in RobotCert : owner[k] = r}

(* Mutant of DeleteRobotRow: a robot without a certificate is deleted      *)
(* without an error.                                                       *)
DeleteRobotRowQuietly(h, r) ==
    /\ At(h, "idle")
    /\ r \in robots
    /\ robots' = robots \ {r}
    /\ owner' = [k \in RobotCert |-> IF owner[k] = r THEN NoRobot ELSE owner[k]]
    /\ \/ CertsOf(r) = {} /\ UNCHANGED handler
       \/ \E k \in CertsOf(r) :
             handler' = [handler EXCEPT ![h] = [Idle EXCEPT !.at = "trash_robot", !.cert = k]]
    /\ UNCHANGED <<status, certs, keys, trash, restarts, archives, held>>

DeleteRobotRow(h, r) ==
    /\ At(h, "idle")
    /\ r \in robots
    /\ robots' = robots \ {r}
    /\ owner' = [k \in RobotCert |-> IF owner[k] = r THEN NoRobot ELSE owner[k]]
    /\ \/ /\ CertsOf(r) = {}
          /\ ProcessEnds
       \/ \E k \in CertsOf(r) :
             /\ handler' = [handler EXCEPT ![h] = [Idle EXCEPT !.at = "trash_robot", !.cert = k]]
             /\ UNCHANGED restarts
    /\ UNCHANGED <<status, certs, keys, trash, archives, held>>

(* Mutant of TrashRobotCert: only a certificate that is issued needs to be *)
(* revoked.                                                                *)
TrashIssuedRobotCert(h) ==
    /\ At(h, "trash_robot")
    /\ trash' = trash \cup {k \in {handler[h].cert} : certs[k] = "issued"}
    /\ Return(h)
    /\ UNCHANGED <<status, certs, owner, keys, robots, restarts, archives, held>>

TrashRobotCert(h) ==
    /\ At(h, "trash_robot")
    /\ trash' = trash \cup {handler[h].cert}
    /\ Return(h)
    /\ UNCHANGED <<status, certs, owner, keys, robots, restarts, archives, held>>

-----------------------------------------------------------------------------
Credentials(h) ==
    \/ \E c \in Cred : IssueProvCert(h, c) \/ FindForDownload(h, c) \/ FindForRevoke(h, c)
    \/ IssueClientCert(h) \/ PutKeyPair(h) \/ InsertCredentials(h)
    \/ DownloadCertificate(h) \/ GetKeyPairs(h) \/ DeleteProvKey(h) \/ DeleteClientKey(h)
    \/ SetIssued(h) \/ ReplyArchive(h)
    \/ TrashCertificates(h) \/ SetRevoked(h)

Robots(h) ==
    \/ \E c \in Cred, r \in Robot : FindCredentials(h, c, r)
    \/ CheckRobot(h) \/ CreateRobot(h)
    \/ \E k \in RobotCert : IssueRobotCert(h, k)
    \/ DownloadRobotCert(h) \/ ReplyRobot(h)
    \/ \E r \in Robot : DeleteRobotRow(h, r)
    \/ TrashRobotCert(h)

Next == Restart \/ \E h \in Handler : Credentials(h) \/ Robots(h)

Spec == Init /\ [][Next]_vars

-----------------------------------------------------------------------------
TypeOK ==
    /\ status \in [Cred -> {"none", "issuing", "issued", "revoked"}]
    /\ certs \in [Cert -> {"none", "issuing", "issued"}]
    /\ owner \in [RobotCert -> Robot \cup {NoRobot}]
    /\ keys \subseteq CredCert
    /\ trash \subseteq Cert
    /\ robots \subseteq Robot
    /\ handler \in [Handler -> Memory]
    /\ restarts \in 0..MaxRestarts
    /\ archives \in [Cred -> Nat]
    /\ held \subseteq RobotCert

(* "Can only do this once": whatever requests overlap or are lost to a     *)
(* restart, the archive with the private keys of a credential is sent at   *)
(* most once.  What guards it is not the check of the status but that a    *)
(* key can be deleted only once.                                           *)
DownloadedOnce == \A c \in Cred : archives[c] <= 1

(* A credential that users see as revoked has both certificates in the     *)
(* trash, and one that is issued has left no private key in the store,     *)
(* also when a restart interrupts the revocation or the download.          *)
StatusIsEarned ==
    \A c \in Cred :
        /\ status[c] = "revoked" => {Prov(c), Client(c)} \subseteq trash
        /\ status[c] \in {"issued", "revoked"} => {Prov(c), Client(c)} \cap keys = {}

(* Revocation is for ever: no download that began earlier makes a revoked  *)
(* credential usable again, and an issued one is not issued anew.          *)
RevocationIsFinal ==
    [][\A c \in Cred : /\ status[c] = "revoked" => status'[c] = "revoked"
                       /\ status[c] = "issued" => status'[c] \in {"issued", "revoked"}]_vars

(* "Right now robots only have one certificate": requests of a robot that  *)
(* was deleted in between never leave two, of which the next deletion      *)
(* would put one in the trash.                                             *)
OneCertificate == \A r \in robots : Cardinality(CertsOf(r)) <= 1

(* While the process does not end, a certificate a robot was given belongs *)
(* to a robot that exists or is in the trash, at the latest when the       *)
(* deletion returns; and a robot has its certificate, at the latest when   *)
(* the request that created it returns.                                    *)
IdentitiesAreKnown ==
    restarts = 0 =>
        /\ \A k \in held : \/ owner[k] \in robots
                           \/ k \in trash
                           \/ \E h \in Handler : At(h, "trash_robot") /\ handler[h].cert = k
        /\ \A r \in robots : \/ CertsOf(r) # {}
                             \/ \E h \in Handler : At(h, "issue_robot") /\ handler[h].robot = r
=============================================================================

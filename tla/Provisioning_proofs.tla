------------------------ MODULE Provisioning_proofs ------------------------
(***************************************************************************)
(* Safety of Provisioning for any number of credentials, robots and        *)
(* requests in progress, and any number of restarts.                       *)
(*                                                                         *)
(* None of the properties is inductive: each depends on what requests in   *)
(* progress have done so far.  For credentials the invariant says what     *)
(* holds at each step of a creation, a download and a revocation           *)
(* (CreatedFirst, DoneBeforeStatus) and, if a missing key cannot be        *)
(* deleted, that one download gets past the deletion of the first key      *)
(* (OneHolder).  For robots it says that a robot has its certificate or    *)
(* one request that is to issue it, never both (OneIssuer): a robot        *)
(* without one cannot be deleted while that request lives, because the     *)
(* deletion ends the process.                                              *)
(***************************************************************************)
EXTENDS Provisioning, FiniteSetTheorems, TLAPS

(* What a request of a robot remembers when it needs it.                   *)
RobotSteps == {"check_robot", "create_robot", "issue_robot"}
CertSteps == {"download_robot", "reply_robot", "trash_robot"}

Remembers(m) == /\ m.at \in RobotSteps => m.robot \in Robot
                /\ m.at \in CertSteps => m.cert \in RobotCert

HandlersTyped == /\ handler \in [Handler -> Memory]
                 /\ \A h \in Handler : Remembers(handler[h])

Typed == TypeOK /\ HandlersTyped

(* Where a request on a credential stands.                                 *)
CreateSteps == {"issue_client", "put_prov", "put_client", "insert"}
DownloadSteps == {"download_prov", "download_client", "get_keys", "delete_prov"}
HoldSteps == {"delete_client", "set_issued", "reply_archive"}
RevokeSteps == {"trash_client", "trash_prov", "set_revoked"}

Stands(h, c, steps) == handler[h].cred = c /\ handler[h].at \in steps

(* One request creates a credential, before anything else is done to it.   *)
CreatedFirst(c) ==
    /\ certs[Prov(c)] = "none" => /\ status[c] = "none"
                                  /\ Prov(c) \notin keys /\ Client(c) \notin keys
    /\ status[c] = "none" => archives[c] = 0
    /\ \A h \in Handler :
          /\ Stands(h, c, CreateSteps) => status[c] = "none" /\ certs[Prov(c)] # "none"
          /\ Stands(h, c, DownloadSteps \cup HoldSteps) => status[c] # "none"
          /\ Stands(h, c, RevokeSteps) => status[c] \in {"issued", "revoked"}
          /\ \A g \in Handler :
                Stands(g, c, CreateSteps) /\ Stands(h, c, CreateSteps) => g = h

(* What a download has deleted and a revocation has put in the trash stays *)
(* there, and the status is set only afterwards.                           *)
DoneBeforeStatus(c) ==
    /\ \A h \in Handler :
          /\ Stands(h, c, HoldSteps) => Prov(c) \notin keys
          /\ Stands(h, c, {"set_issued", "reply_archive"}) => Client(c) \notin keys
          /\ Stands(h, c, {"trash_prov", "set_revoked"}) => Client(c) \in trash
          /\ Stands(h, c, {"set_revoked"}) => Prov(c) \in trash
    /\ status[c] \in {"issued", "revoked"} => Prov(c) \notin keys /\ Client(c) \notin keys
    /\ status[c] = "revoked" => Prov(c) \in trash /\ Client(c) \in trash

(* A key that can be deleted once lets one download through.               *)
OneHolder(c) ==
    /\ Prov(c) \in keys => archives[c] = 0
    /\ archives[c] <= 1
    /\ \A h \in Handler :
          /\ Stands(h, c, HoldSteps) => archives[c] = 0
          /\ Stands(h, c, {"delete_client", "set_issued"}) => status[c] = "issuing"
          /\ \A g \in Handler :
                Stands(g, c, HoldSteps) /\ Stands(h, c, HoldSteps) => g = h

CredInv == /\ Typed
           /\ \A c \in Cred : CreatedFirst(c) /\ DoneBeforeStatus(c)
OnceInv == StrictDelete => \A c \in Cred : OneHolder(c)

(* A robot has its one certificate or a request that is to issue it.       *)
Issuing(h, r) == handler[h].at = "issue_robot" /\ handler[h].robot = r

OwnersExist ==
    \A k \in RobotCert : owner[k] # NoRobot => owner[k] \in robots /\ certs[k] # "none"

OneIssuer ==
    \A h \in Handler, r \in Robot : Issuing(h, r) =>
        /\ r \in robots
        /\ \A k \in RobotCert : owner[k] # r
        /\ \A g \in Handler : Issuing(g, r) => g = h

OneOwned == \A j, k \in RobotCert : owner[j] = owner[k] /\ owner[j] # NoRobot => j = k

RobotInv == OwnersExist /\ OneIssuer /\ OneOwned

(* What becomes of certificates while the process lives.                   *)
Delivered(k) == \/ k \in held
                \/ \E h \in Handler : /\ handler[h].at \in {"download_robot", "reply_robot"}
                                      /\ handler[h].cert = k

Accounted(k) == \/ owner[k] \in robots
                \/ k \in trash
                \/ \E h \in Handler : handler[h].at = "trash_robot" /\ handler[h].cert = k

IdentityInv ==
    restarts = 0 =>
        /\ \A k \in RobotCert : Delivered(k) => Accounted(k)
        /\ \A r \in robots : \/ \E k \in RobotCert : owner[k] = r
                             \/ \E h \in Handler : Issuing(h, r)

-----------------------------------------------------------------------------
LEMMA IdleTyped == Idle \in Memory /\ Remembers(Idle)
  BY ProvisioningAssumption DEF Idle, Memory, Step, NoCert, Remembers, RobotSteps, CertSteps

(* One step of one handler, its return, or the end of the process leaves   *)
(* every handler well typed.                                               *)
LEMMA MoveTyped ==
    ASSUME HandlersTyped, NEW h \in Handler, NEW m \in Memory, Remembers(m),
           handler' = [handler EXCEPT ![h] = m]
    PROVE  HandlersTyped'
  BY DEF HandlersTyped

LEMMA GotoTyped ==
    ASSUME HandlersTyped, NEW h \in Handler, NEW step \in Step, Goto(h, step),
           step \in RobotSteps => handler[h].robot \in Robot,
           step \in CertSteps => handler[h].cert \in RobotCert
    PROVE  HandlersTyped'
<1>1. handler[h] \in Memory
  BY DEF HandlersTyped
<1>2. /\ [handler[h] EXCEPT !.at = step] \in Memory
      /\ Remembers([handler[h] EXCEPT !.at = step])
  BY <1>1 DEF Memory, Remembers
<1>3. handler' = [handler EXCEPT ![h] = [handler[h] EXCEPT !.at = step]]
  BY <1>1 DEF Goto, Memory, HandlersTyped
<1> QED
  BY <1>2, <1>3, MoveTyped

LEMMA ReturnTyped ==
    ASSUME HandlersTyped, NEW h \in Handler, Return(h)
    PROVE  HandlersTyped'
  BY IdleTyped DEF Return, HandlersTyped

LEMMA EndTyped ==
    ASSUME Typed, ProcessEnds
    PROVE  HandlersTyped' /\ restarts' \in 0..MaxRestarts
  BY IdleTyped, ProvisioningAssumption DEF ProcessEnds, Typed, TypeOK, HandlersTyped

LEMMA CertTyped ==
    /\ \A c \in Cred : Prov(c) \in CredCert /\ Client(c) \in CredCert
    /\ CredCert \subseteq Cert /\ RobotCert \subseteq Cert
  BY DEF Prov, Client, CredCert, Cert

(* The steps of the handlers of credentials keep the types.                *)
LEMMA CredentialsTyped ==
    ASSUME Typed, NEW h \in Handler, Credentials(h)
    PROVE  Typed'
<1> USE DEF At, Typed
<1>1. ASSUME NEW c \in Cred, NEW step \in Step \ (RobotSteps \cup CertSteps)
      PROVE  /\ [Idle EXCEPT !.at = step, !.cred = c] \in Memory
             /\ Remembers([Idle EXCEPT !.at = step, !.cred = c])
  BY IdleTyped DEF Memory, Remembers
<1>2. {"issue_client", "put_prov", "put_client", "insert", "download_prov",
       "download_client", "get_keys", "delete_prov", "delete_client", "set_issued",
       "reply_archive", "trash_client", "trash_prov", "set_revoked"}
         \subseteq Step \ (RobotSteps \cup CertSteps)
  BY DEF Step, RobotSteps, CertSteps
<1>3. \A step \in Step \ (RobotSteps \cup CertSteps) : Goto(h, step) => HandlersTyped'
  BY GotoTyped
<1>4. handler[h].cred \in Cred
  BY DEF TypeOK, Memory
<1>5. ASSUME NEW c \in Cred, IssueProvCert(h, c) PROVE Typed'
  <2>1. HandlersTyped'
    BY <1>1, <1>2, <1>5, MoveTyped DEF IssueProvCert
  <2> QED
    BY <1>5, <2>1, CertTyped DEF IssueProvCert, Issue, TypeOK, HandlersTyped
<1>6. ASSUME NEW c \in Cred, FindForDownload(h, c) \/ FindForRevoke(h, c) PROVE Typed'
  <2>1. HandlersTyped'
    BY <1>1, <1>2, <1>6, MoveTyped DEF FindForDownload, FindForRevoke
  <2> QED
    BY <1>6, <2>1 DEF FindForDownload, FindForRevoke, tables, TypeOK, HandlersTyped
<1>7. CASE IssueClientCert(h)
  BY <1>2, <1>3, <1>4, <1>7, CertTyped DEF IssueClientCert, Issue, TypeOK, HandlersTyped
<1>8. CASE PutKeyPair(h)
  BY <1>2, <1>3, <1>4, <1>8, CertTyped DEF PutKeyPair, tables, TypeOK, HandlersTyped
<1>9. CASE InsertCredentials(h)
  BY <1>4, <1>9, ReturnTyped DEF InsertCredentials, TypeOK, HandlersTyped
<1>10. CASE DownloadCertificate(h)
  BY <1>2, <1>3, <1>4, <1>10, CertTyped DEF DownloadCertificate, Download, TypeOK, HandlersTyped
<1>11. CASE GetKeyPairs(h)
  BY <1>2, <1>3, <1>11, EndTyped DEF GetKeyPairs, tables, TypeOK, HandlersTyped
<1>12. CASE DeleteProvKey(h) \/ DeleteClientKey(h)
  BY <1>2, <1>3, <1>12, EndTyped
     DEF DeleteProvKey, DeleteClientKey, DeleteKeyPair, tables, TypeOK, HandlersTyped
<1>13. CASE SetIssued(h)
  BY <1>2, <1>3, <1>4, <1>13 DEF SetIssued, TypeOK, HandlersTyped
<1>14. CASE ReplyArchive(h)
  BY <1>4, <1>14, ReturnTyped DEF ReplyArchive, tables, TypeOK, HandlersTyped
<1>15. CASE TrashCertificates(h)
  BY <1>2, <1>3, <1>4, <1>15, CertTyped DEF TrashCertificates, TypeOK, HandlersTyped
<1>16. CASE SetRevoked(h)
  BY <1>4, <1>16, ReturnTyped DEF SetRevoked, TypeOK, HandlersTyped
<1> QED
  BY <1>5, <1>6, <1>7, <1>8, <1>9, <1>10, <1>11, <1>12, <1>13, <1>14, <1>15, <1>16
     DEF Credentials

(* The steps of the handlers of robots keep the types.                     *)
LEMMA RobotsTyped ==
    ASSUME Typed, NEW h \in Handler, Robots(h)
    PROVE  Typed'
<1> USE DEF At, Typed
<1>1. /\ handler[h] \in Memory
      /\ handler[h].at \in RobotSteps => handler[h].robot \in Robot
      /\ handler[h].at \in CertSteps => handler[h].cert \in RobotCert
  BY DEF HandlersTyped, Remembers
<1>2. /\ RobotSteps \cup CertSteps \subseteq Step
      /\ RobotSteps \cap CertSteps = {}
      /\ {"check_robot", "create_robot", "issue_robot"} \subseteq RobotSteps
      /\ {"download_robot", "reply_robot", "trash_robot"} \subseteq CertSteps
  BY DEF Step, RobotSteps, CertSteps
<1>3. ASSUME NEW c \in Cred, NEW r \in Robot, FindCredentials(h, c, r) PROVE Typed'
  <2>1. LET m == [Idle EXCEPT !.at = "check_robot", !.cred = c, !.robot = r]
        IN  m \in Memory /\ Remembers(m)
    BY <1>2, IdleTyped DEF Memory, Remembers
  <2>2. HandlersTyped'
    BY <1>3, <2>1, MoveTyped DEF FindCredentials
  <2> QED
    BY <1>3, <2>2 DEF FindCredentials, tables, TypeOK, HandlersTyped
<1>4. CASE CheckRobot(h)
  BY <1>1, <1>2, <1>4, GotoTyped, ReturnTyped DEF CheckRobot, tables, TypeOK, HandlersTyped
<1>5. CASE CreateRobot(h)
  BY <1>1, <1>2, <1>5, GotoTyped, EndTyped DEF CreateRobot, TypeOK, HandlersTyped
<1>6. ASSUME NEW k \in RobotCert, IssueRobotCert(h, k) PROVE Typed'
  <2>1. LET m == [handler[h] EXCEPT !.at = "download_robot", !.cert = k]
        IN  m \in Memory /\ Remembers(m)
    BY <1>1, <1>2 DEF Memory, Remembers
  <2>2. CASE handler[h].robot \in robots
    <3>1. handler' = [handler EXCEPT ![h] = [handler[h] EXCEPT !.at = "download_robot", !.cert = k]]
      BY <1>1, <1>6, <2>2 DEF IssueRobotCert, HandlersTyped, Memory
    <3>2. HandlersTyped'
      BY <2>1, <3>1, MoveTyped
    <3> QED
      BY <1>6, <2>2, <3>2, CertTyped DEF IssueRobotCert, Issue, TypeOK, HandlersTyped
  <2>3. CASE handler[h].robot \notin robots
    BY <1>6, <2>3, EndTyped DEF IssueRobotCert, TypeOK, HandlersTyped
  <2> QED
    BY <2>2, <2>3
<1>7. CASE DownloadRobotCert(h)
  BY <1>1, <1>2, <1>7, GotoTyped DEF DownloadRobotCert, Download, TypeOK, HandlersTyped
<1>8. CASE ReplyRobot(h)
  BY <1>1, <1>2, <1>8, ReturnTyped DEF ReplyRobot, tables, TypeOK, HandlersTyped
<1>9. ASSUME NEW r \in Robot, DeleteRobotRow(h, r) PROVE Typed'
  <2>1. ASSUME NEW k \in CertsOf(r)
        PROVE  LET m == [Idle EXCEPT !.at = "trash_robot", !.cert = k]
               IN  m \in Memory /\ Remembers(m)
    BY <1>2, IdleTyped DEF CertsOf, Memory, Remembers
  <2>2. HandlersTyped' /\ restarts' \in 0..MaxRestarts
    BY <1>9, <2>1, MoveTyped, EndTyped DEF DeleteRobotRow, TypeOK
  <2> QED
    BY <1>9, <2>2 DEF DeleteRobotRow, TypeOK, HandlersTyped
<1>10. CASE TrashRobotCert(h)
  BY <1>1, <1>2, <1>10, ReturnTyped, CertTyped DEF TrashRobotCert, TypeOK, HandlersTyped
<1> QED
  BY <1>3, <1>4, <1>5, <1>6, <1>7, <1>8, <1>9, <1>10 DEF Robots

-----------------------------------------------------------------------------
LEMMA InitTyped == Init => Typed
  BY IdleTyped, ProvisioningAssumption DEF Init, Typed, TypeOK, HandlersTyped

LEMMA NextTyped == Typed /\ [Next]_vars => Typed'
<1> SUFFICES ASSUME Typed, [Next]_vars PROVE Typed'
  OBVIOUS
<1>1. CASE Restart
  BY <1>1, EndTyped DEF Restart, tables, Typed, TypeOK, HandlersTyped
<1>2. CASE UNCHANGED vars
  BY <1>2 DEF vars, tables, Typed, TypeOK, HandlersTyped
<1> QED
  BY <1>1, <1>2, CredentialsTyped, RobotsTyped DEF Next

(* Type correctness.                                                       *)
THEOREM TypeCorrect == Spec => []TypeOK
<1>1. Typed => TypeOK
  BY DEF Typed
<1> QED
  BY <1>1, InitTyped, NextTyped, PTL DEF Spec

-----------------------------------------------------------------------------
(* Handler h is at a step with a credential, the others stay where they    *)
(* are.                                                                    *)
Moved(h, step, c) == /\ handler'[h].at = step
                     /\ handler'[h].cred = c
                     /\ \A g \in Handler \ {h} : handler'[g] = handler[g]

LEMMA GotoMoves ==
    ASSUME Typed, NEW h \in Handler, NEW step, Goto(h, step)
    PROVE  Moved(h, step, handler[h].cred)
  BY DEF Goto, Moved, Typed, HandlersTyped, Memory

LEMMA ReturnMoves ==
    ASSUME Typed, NEW h \in Handler, Return(h)
    PROVE  Moved(h, "idle", Idle.cred)
  BY DEF Return, Moved, Typed, HandlersTyped, Idle

LEMMA StartMoves ==
    ASSUME Typed, NEW h \in Handler, NEW step, NEW c,
           handler' = [handler EXCEPT ![h] = [Idle EXCEPT !.at = step, !.cred = c]]
    PROVE  Moved(h, step, c)
  BY DEF Moved, Typed, HandlersTyped, Idle

LEMMA EndIdles ==
    ASSUME ProcessEnds
    PROVE  \A h \in Handler : handler'[h].at = "idle"
  BY DEF ProcessEnds, Idle

LEMMA KeysDiffer ==
    \A c, d \in Cred : /\ Prov(c) # Client(d)
                       /\ c # d => Prov(c) # Prov(d) /\ Client(c) # Client(d)
  BY DEF Prov, Client

LocalSteps == CreateSteps \cup DownloadSteps \cup HoldSteps \cup RevokeSteps

(* What leaves the credentials alone: nothing is taken from the trash, no  *)
(* request enters a step on a credential or changes its credential there.  *)
LEMMA CredFrame ==
    ASSUME CredInv, OnceInv, Typed',
           status' = status, keys' = keys, archives' = archives, trash \subseteq trash',
           \A c \in Cred : certs'[Prov(c)] = "none" <=> certs[Prov(c)] = "none",
           \A h \in Handler : handler'[h].at \in LocalSteps =>
               handler'[h].at = handler[h].at /\ handler'[h].cred = handler[h].cred
    PROVE  CredInv' /\ OnceInv'
<1>1. \A c \in Cred, h \in Handler : \A steps \in SUBSET LocalSteps :
          Stands(h, c, steps)' => Stands(h, c, steps)
  BY DEF Stands
<1> DEFINE Parts == {CreateSteps, DownloadSteps \cup HoldSteps, RevokeSteps, HoldSteps,
                     {"set_issued", "reply_archive"}, {"trash_prov", "set_revoked"},
                     {"set_revoked"}, {"delete_client", "set_issued"}}
<1>2. Parts \subseteq SUBSET LocalSteps
  BY DEF LocalSteps, CreateSteps, DownloadSteps, HoldSteps, RevokeSteps
<1>3. \A c \in Cred, h \in Handler, steps \in Parts :
          Stands(h, c, steps)' => Stands(h, c, steps)
  BY <1>1, <1>2
<1>4. ASSUME NEW c \in Cred PROVE CreatedFirst(c)'
  <2>1. CreatedFirst(c)
    BY DEF CredInv
  <2> QED
    BY <1>3, <2>1 DEF CreatedFirst
<1>5. ASSUME NEW c \in Cred PROVE DoneBeforeStatus(c)'
  <2>1. DoneBeforeStatus(c)
    BY DEF CredInv
  <2> QED
    BY <1>3, <2>1 DEF DoneBeforeStatus
<1>6. ASSUME StrictDelete, NEW c \in Cred PROVE OneHolder(c)'
  <2>1. OneHolder(c)
    BY <1>6 DEF OnceInv
  <2> QED
    BY <1>3, <2>1 DEF OneHolder
<1> QED
  BY <1>4, <1>5, <1>6 DEF CredInv, OnceInv

-----------------------------------------------------------------------------
(* The steps of the handlers of credentials keep both invariants of        *)
(* credentials.                                                            *)
LEMMA CredentialsKeep ==
    ASSUME CredInv, OnceInv, NEW h \in Handler, Credentials(h)
    PROVE  CredInv' /\ OnceInv'
<1> USE KeysDiffer DEF At, Moved, Stands, CreateSteps, DownloadSteps, HoldSteps, RevokeSteps
<1> DEFINE cred == handler[h].cred
<1>1. Typed /\ Typed' /\ cred \in Cred
  BY CredentialsTyped DEF CredInv, Typed, TypeOK, Memory
<1>2. SUFFICES ASSUME NEW d \in Cred
               PROVE  CreatedFirst(d)' /\ DoneBeforeStatus(d)' /\ (StrictDelete => OneHolder(d)')
  BY <1>1 DEF CredInv, OnceInv
<1>3. CreatedFirst(d) /\ DoneBeforeStatus(d) /\ (StrictDelete => OneHolder(d))
  BY DEF CredInv, OnceInv
<1>4. /\ status \in [Cred -> {"none", "issuing", "issued", "revoked"}]
      /\ certs \in [Cert -> {"none", "issuing", "issued"}]
      /\ Prov(d) \in Cert /\ Client(d) \in Cert
      /\ archives \in [Cred -> Nat]
  BY <1>1, CertTyped DEF Typed, TypeOK
<1> DEFINE Kept == CreatedFirst(d)' /\ DoneBeforeStatus(d)' /\ (StrictDelete => OneHolder(d)')
<1>5. ASSUME NEW c \in Cred, IssueProvCert(h, c) PROVE Kept
  <2>1. Moved(h, "issue_client", c)
    BY <1>1, <1>5, StartMoves DEF IssueProvCert, Issue
  <2>2. CreatedFirst(d)'
    BY <1>1, <1>3, <1>4, <1>5, <2>1 DEF CreatedFirst, IssueProvCert, Issue
  <2>3. DoneBeforeStatus(d)'
    BY <1>1, <1>3, <1>4, <1>5, <2>1 DEF CreatedFirst, DoneBeforeStatus, IssueProvCert, Issue
  <2>4. StrictDelete => OneHolder(d)'
    BY <1>1, <1>3, <1>4, <1>5, <2>1
       DEF CreatedFirst, OneHolder, DoneBeforeStatus, IssueProvCert, Issue
  <2> QED
    BY <2>2, <2>3, <2>4
<1>6. ASSUME NEW c \in Cred, FindForDownload(h, c) PROVE Kept
  <2>1. Moved(h, "download_prov", c)
    BY <1>1, <1>6, StartMoves DEF FindForDownload, tables
  <2>2. CreatedFirst(d)'
    BY <1>1, <1>3, <1>4, <1>6, <2>1 DEF CreatedFirst, FindForDownload, tables
  <2>3. DoneBeforeStatus(d)'
    BY <1>1, <1>3, <1>4, <1>6, <2>1
       DEF CreatedFirst, DoneBeforeStatus, FindForDownload, tables
  <2>4. StrictDelete => OneHolder(d)'
    BY <1>1, <1>3, <1>4, <1>6, <2>1
       DEF CreatedFirst, OneHolder, DoneBeforeStatus, FindForDownload, tables
  <2> QED
    BY <2>2, <2>3, <2>4
<1>7. ASSUME NEW c \in Cred, FindForRevoke(h, c) PROVE Kept
  <2>1. Moved(h, "trash_client", c)
    BY <1>1, <1>7, StartMoves DEF FindForRevoke, tables
  <2>2. CreatedFirst(d)'
    BY <1>1, <1>3, <1>4, <1>7, <2>1 DEF CreatedFirst, FindForRevoke, tables
  <2>3. DoneBeforeStatus(d)'
    BY <1>1, <1>3, <1>4, <1>7, <2>1
       DEF CreatedFirst, DoneBeforeStatus, FindForRevoke, tables
  <2>4. StrictDelete => OneHolder(d)'
    BY <1>1, <1>3, <1>4, <1>7, <2>1
       DEF CreatedFirst, OneHolder, DoneBeforeStatus, FindForRevoke, tables
  <2> QED
    BY <2>2, <2>3, <2>4
<1>8. ASSUME IssueClientCert(h) PROVE Kept
  <2>1. Moved(h, "put_prov", cred)
    BY <1>1, <1>8, GotoMoves DEF IssueClientCert, Issue
  <2>2. CreatedFirst(d)'
    BY <1>1, <1>3, <1>4, <1>8, <2>1 DEF CreatedFirst, IssueClientCert, Issue
  <2>3. DoneBeforeStatus(d)'
    BY <1>1, <1>3, <1>4, <1>8, <2>1
       DEF CreatedFirst, DoneBeforeStatus, IssueClientCert, Issue
  <2>4. StrictDelete => OneHolder(d)'
    BY <1>1, <1>3, <1>4, <1>8, <2>1
       DEF CreatedFirst, OneHolder, DoneBeforeStatus, IssueClientCert, Issue
  <2> QED
    BY <2>2, <2>3, <2>4
<1>9. ASSUME PutKeyPair(h) PROVE Kept
  <2>1. \/ At(h, "put_prov") /\ Moved(h, "put_client", cred)
        \/ At(h, "put_client") /\ Moved(h, "insert", cred)
    BY <1>1, <1>9, GotoMoves DEF PutKeyPair, tables
  <2>2. CreatedFirst(d)'
    BY <1>1, <1>3, <1>4, <1>9, <2>1 DEF CreatedFirst, PutKeyPair, tables
  <2>3. DoneBeforeStatus(d)'
    BY <1>1, <1>3, <1>4, <1>9, <2>1 DEF CreatedFirst, DoneBeforeStatus, PutKeyPair, tables
  <2>4. StrictDelete => OneHolder(d)'
    BY <1>1, <1>3, <1>4, <1>9, <2>1
       DEF CreatedFirst, OneHolder, DoneBeforeStatus, PutKeyPair, tables
  <2> QED
    BY <2>2, <2>3, <2>4
<1>10. ASSUME InsertCredentials(h) PROVE Kept
  <2>1. Moved(h, "idle", Idle.cred)
    BY <1>1, <1>10, ReturnMoves DEF InsertCredentials
  <2>2. CreatedFirst(d)'
    BY <1>1, <1>3, <1>4, <1>10, <2>1 DEF CreatedFirst, InsertCredentials
  <2>3. DoneBeforeStatus(d)'
    BY <1>1, <1>3, <1>4, <1>10, <2>1 DEF CreatedFirst, DoneBeforeStatus, InsertCredentials
  <2>4. StrictDelete => OneHolder(d)'
    BY <1>1, <1>3, <1>4, <1>10, <2>1
       DEF CreatedFirst, OneHolder, DoneBeforeStatus, InsertCredentials
  <2> QED
    BY <2>2, <2>3, <2>4
<1>11. ASSUME DownloadCertificate(h) PROVE Kept
  <2>1. \/ At(h, "download_prov") /\ Moved(h, "download_client", cred)
        \/ At(h, "download_client") /\ Moved(h, "get_keys", cred)
    BY <1>1, <1>11, GotoMoves DEF DownloadCertificate, Download
  <2>2. CreatedFirst(d)'
    BY <1>1, <1>3, <1>4, <1>11, <2>1 DEF CreatedFirst, DownloadCertificate, Download
  <2>3. DoneBeforeStatus(d)'
    BY <1>1, <1>3, <1>4, <1>11, <2>1
       DEF CreatedFirst, DoneBeforeStatus, DownloadCertificate, Download
  <2>4. StrictDelete => OneHolder(d)'
    BY <1>1, <1>3, <1>4, <1>11, <2>1
       DEF CreatedFirst, OneHolder, DoneBeforeStatus, DownloadCertificate, Download
  <2> QED
    BY <2>2, <2>3, <2>4
<1>12. ASSUME SetIssued(h) PROVE Kept
  <2>1. Moved(h, "reply_archive", cred)
    BY <1>1, <1>12, GotoMoves DEF SetIssued
  <2>2. CreatedFirst(d)'
    BY <1>1, <1>3, <1>4, <1>12, <2>1 DEF CreatedFirst, SetIssued
  <2>3. DoneBeforeStatus(d)'
    BY <1>1, <1>3, <1>4, <1>12, <2>1 DEF CreatedFirst, DoneBeforeStatus, SetIssued
  <2>4. StrictDelete => OneHolder(d)'
    BY <1>1, <1>3, <1>4, <1>12, <2>1
       DEF CreatedFirst, OneHolder, DoneBeforeStatus, SetIssued
  <2> QED
    BY <2>2, <2>3, <2>4
<1>13. ASSUME ReplyArchive(h) PROVE Kept
  <2>1. Moved(h, "idle", Idle.cred)
    BY <1>1, <1>13, ReturnMoves DEF ReplyArchive, tables
  <2>2. CreatedFirst(d)'
    BY <1>1, <1>3, <1>4, <1>13, <2>1 DEF CreatedFirst, ReplyArchive, tables
  <2>3. DoneBeforeStatus(d)'
    BY <1>1, <1>3, <1>4, <1>13, <2>1
       DEF CreatedFirst, DoneBeforeStatus, ReplyArchive, tables
  <2>4. StrictDelete => OneHolder(d)'
    BY <1>1, <1>3, <1>4, <1>13, <2>1
       DEF CreatedFirst, OneHolder, DoneBeforeStatus, ReplyArchive, tables
  <2> QED
    BY <2>2, <2>3, <2>4
<1>14. ASSUME TrashCertificates(h) PROVE Kept
  <2>1. \/ At(h, "trash_client") /\ Moved(h, "trash_prov", cred)
        \/ At(h, "trash_prov") /\ Moved(h, "set_revoked", cred)
    BY <1>1, <1>14, GotoMoves DEF TrashCertificates
  <2>2. CreatedFirst(d)'
    BY <1>1, <1>3, <1>4, <1>14, <2>1 DEF CreatedFirst, TrashCertificates
  <2>3. DoneBeforeStatus(d)'
    BY <1>1, <1>3, <1>4, <1>14, <2>1 DEF CreatedFirst, DoneBeforeStatus, TrashCertificates
  <2>4. StrictDelete => OneHolder(d)'
    BY <1>1, <1>3, <1>4, <1>14, <2>1
       DEF CreatedFirst, OneHolder, DoneBeforeStatus, TrashCertificates
  <2> QED
    BY <2>2, <2>3, <2>4
<1>15. ASSUME SetRevoked(h) PROVE Kept
  <2>1. Moved(h, "idle", Idle.cred)
    BY <1>1, <1>15, ReturnMoves DEF SetRevoked
  <2>2. CreatedFirst(d)'
    BY <1>1, <1>3, <1>4, <1>15, <2>1 DEF CreatedFirst, SetRevoked
  <2>3. DoneBeforeStatus(d)'
    BY <1>1, <1>3, <1>4, <1>15, <2>1 DEF CreatedFirst, DoneBeforeStatus, SetRevoked
  <2>4. StrictDelete => OneHolder(d)'
    BY <1>1, <1>3, <1>4, <1>15, <2>1
       DEF CreatedFirst, OneHolder, DoneBeforeStatus, SetRevoked
  <2> QED
    BY <2>2, <2>3, <2>4
<1>16. ASSUME ProcessEnds, UNCHANGED <<tables, keys, archives>>
       PROVE  Kept
  <2>1. \A g \in Handler : handler'[g].at \notin LocalSteps
    BY <1>16, EndIdles DEF LocalSteps
  <2> QED
    BY <1>1, <1>16, <2>1, CredFrame DEF tables, CredInv, OnceInv
<1>17. CASE GetKeyPairs(h)
  <2>1. CASE Goto(h, "delete_prov")
    <3>1. Moved(h, "delete_prov", cred)
      BY <1>1, <2>1, GotoMoves
    <3>2. CreatedFirst(d)'
      BY <1>1, <1>3, <1>4, <1>17, <3>1
         DEF CreatedFirst, GetKeyPairs, tables
    <3>3. DoneBeforeStatus(d)'
      BY <1>1, <1>3, <1>4, <1>17, <3>1
         DEF DoneBeforeStatus, GetKeyPairs, tables
    <3>4. StrictDelete => OneHolder(d)'
      BY <1>1, <1>3, <1>4, <1>17, <3>1
         DEF OneHolder, GetKeyPairs, tables
    <3> QED
      BY <3>2, <3>3, <3>4
  <2> QED
    BY <1>16, <1>17, <2>1 DEF GetKeyPairs
<1>18. CASE DeleteProvKey(h)
  <2>1. CASE CanDelete(Prov(cred))
    <3>1. /\ At(h, "delete_prov") /\ Moved(h, "delete_client", cred)
          /\ keys' = keys \ {Prov(cred)}
          /\ UNCHANGED <<status, certs, trash, archives>>
          /\ StrictDelete => Prov(cred) \in keys
      BY <1>1, <1>18, <2>1, GotoMoves DEF DeleteProvKey, DeleteKeyPair, CanDelete, tables
    <3>2. CreatedFirst(d)'
      BY <1>1, <1>3, <1>4, <3>1 DEF CreatedFirst
    <3>3. DoneBeforeStatus(d)'
      BY <1>1, <1>3, <1>4, <3>1 DEF CreatedFirst, DoneBeforeStatus
    <3>4. StrictDelete => OneHolder(d)'
      BY <1>1, <1>3, <1>4, <3>1 DEF CreatedFirst, DoneBeforeStatus, OneHolder
    <3> QED
      BY <3>2, <3>3, <3>4
  <2> QED
    BY <1>16, <1>18, <2>1 DEF DeleteProvKey, DeleteKeyPair
<1>19. CASE DeleteClientKey(h)
  <2>1. CASE CanDelete(Client(cred))
    <3>1. /\ At(h, "delete_client") /\ Moved(h, "set_issued", cred)
          /\ keys' = keys \ {Client(cred)}
          /\ UNCHANGED <<status, certs, trash, archives>>
          /\ StrictDelete => Client(cred) \in keys
      BY <1>1, <1>19, <2>1, GotoMoves DEF DeleteClientKey, DeleteKeyPair, CanDelete, tables
    <3>2. CreatedFirst(d)'
      BY <1>1, <1>3, <1>4, <3>1 DEF CreatedFirst
    <3>3. DoneBeforeStatus(d)'
      BY <1>1, <1>3, <1>4, <3>1 DEF CreatedFirst, DoneBeforeStatus
    <3>4. StrictDelete => OneHolder(d)'
      BY <1>1, <1>3, <1>4, <3>1 DEF CreatedFirst, DoneBeforeStatus, OneHolder
    <3> QED
      BY <3>2, <3>3, <3>4
  <2> QED
    BY <1>16, <1>19, <2>1 DEF DeleteClientKey, DeleteKeyPair
<1> QED
  BY <1>5, <1>6, <1>7, <1>8, <1>9, <1>10, <1>11, <1>12, <1>13, <1>14, <1>15, <1>17, <1>18,
     <1>19 DEF Credentials

-----------------------------------------------------------------------------
(* Handler h is at a step of a robot, the others stay where they are.      *)
Carries(h, step, r, k) == /\ handler'[h].at = step
                          /\ handler'[h].robot = r
                          /\ handler'[h].cert = k
                          /\ \A g \in Handler \ {h} : handler'[g] = handler[g]

LEMMA GotoCarries ==
    ASSUME Typed, NEW h \in Handler, NEW step, Goto(h, step)
    PROVE  Carries(h, step, handler[h].robot, handler[h].cert)
  BY DEF Goto, Carries, Typed, HandlersTyped, Memory

LEMMA ReturnCarries ==
    ASSUME Typed, NEW h \in Handler, Return(h)
    PROVE  Carries(h, "idle", NoRobot, NoCert)
  BY DEF Return, Carries, Typed, HandlersTyped, Idle

LEMMA FindCarries ==
    ASSUME Typed, NEW h \in Handler, NEW c \in Cred, NEW r \in Robot, FindCredentials(h, c, r)
    PROVE  Carries(h, "check_robot", r, NoCert)
  BY DEF FindCredentials, Carries, Typed, HandlersTyped, Idle

LEMMA IssueCarries ==
    ASSUME Typed, NEW h \in Handler, NEW k \in RobotCert, IssueRobotCert(h, k),
           handler[h].robot \in robots
    PROVE  Carries(h, "download_robot", handler[h].robot, k)
  BY DEF IssueRobotCert, Carries, Typed, HandlersTyped, Memory

LEMMA DeleteCarries ==
    ASSUME Typed, NEW h \in Handler, NEW r \in Robot, DeleteRobotRow(h, r)
    PROVE  \/ ProcessEnds
           \/ \E k \in CertsOf(r) : Carries(h, "trash_robot", NoRobot, k) /\ UNCHANGED restarts
<1>1. ASSUME NEW k \in CertsOf(r), UNCHANGED restarts,
             handler' = [handler EXCEPT ![h] = [Idle EXCEPT !.at = "trash_robot", !.cert = k]]
      PROVE  Carries(h, "trash_robot", NoRobot, k) /\ UNCHANGED restarts
  BY <1>1 DEF Carries, Typed, HandlersTyped, Idle
<1> QED
  BY <1>1 DEF DeleteRobotRow

(* Where the handlers of robots go.                                        *)
LEMMA RobotsMove ==
    ASSUME Typed, NEW h \in Handler, Robots(h)
    PROVE  \E step \in {"idle"} \cup RobotSteps \cup CertSteps :
               ProcessEnds \/ \E r, k : Carries(h, step, r, k)
<1> USE DEF RobotSteps, CertSteps
<1>1. ASSUME NEW c \in Cred, NEW r \in Robot, FindCredentials(h, c, r)
      PROVE  Carries(h, "check_robot", r, NoCert)
  BY <1>1, FindCarries
<1>2. ASSUME NEW k \in RobotCert, IssueRobotCert(h, k)
      PROVE  ProcessEnds \/ Carries(h, "download_robot", handler[h].robot, k)
  BY <1>2, IssueCarries DEF IssueRobotCert
<1>3. ASSUME NEW r \in Robot, DeleteRobotRow(h, r)
      PROVE  ProcessEnds \/ \E k : Carries(h, "trash_robot", NoRobot, k)
  BY <1>3, DeleteCarries
<1>4. CASE CheckRobot(h) \/ CreateRobot(h) \/ DownloadRobotCert(h) \/ ReplyRobot(h)
           \/ TrashRobotCert(h)
  BY <1>4, GotoCarries, ReturnCarries
     DEF CheckRobot, CreateRobot, DownloadRobotCert, ReplyRobot, TrashRobotCert
<1> QED
  BY <1>1, <1>2, <1>3, <1>4 DEF Robots

(* The handlers of robots leave the credentials alone.                     *)
LEMMA RobotsKeepCredentials ==
    ASSUME CredInv, OnceInv, NEW h \in Handler, Robots(h)
    PROVE  CredInv' /\ OnceInv'
<1>1. Typed /\ Typed'
  BY RobotsTyped DEF CredInv
<1>2. certs \in [Cert -> {"none", "issuing", "issued"}] /\ \A c \in Cred : Prov(c) \in Cert
  BY <1>1, CertTyped DEF Typed, TypeOK
<1>3. \A c \in Cred, k \in RobotCert : Prov(c) # k
  BY DEF Prov, RobotCert
<1>4. /\ status' = status /\ keys' = keys /\ archives' = archives /\ trash \subseteq trash'
      /\ \A c \in Cred : certs'[Prov(c)] = "none" <=> certs[Prov(c)] = "none"
  <2>1. ASSUME NEW k \in RobotCert, IssueRobotCert(h, k)
        PROVE  \A c \in Cred : certs'[Prov(c)] = certs[Prov(c)]
    BY <1>2, <1>3, <2>1 DEF IssueRobotCert, Issue
  <2>2. ASSUME DownloadRobotCert(h)
        PROVE  \A c \in Cred : certs'[Prov(c)] = certs[Prov(c)]
    <3>1. handler[h].cert \in RobotCert
      BY <1>1, <2>2 DEF DownloadRobotCert, At, Typed, HandlersTyped, Remembers, CertSteps
    <3> QED
      BY <1>2, <1>3, <2>2, <3>1 DEF DownloadRobotCert, Download
  <2> QED
    BY <2>1, <2>2
       DEF Robots, FindCredentials, CheckRobot, CreateRobot, IssueRobotCert, DownloadRobotCert,
           ReplyRobot, DeleteRobotRow, TrashRobotCert, tables
<1>5. \A g \in Handler : handler'[g].at \in LocalSteps =>
          handler'[g].at = handler[g].at /\ handler'[g].cred = handler[g].cred
  <2>1. PICK step \in {"idle"} \cup RobotSteps \cup CertSteps :
            ProcessEnds \/ \E r, k : Carries(h, step, r, k)
    BY <1>1, RobotsMove
  <2>2. step \notin LocalSteps /\ "idle" \notin LocalSteps
    BY DEF LocalSteps, CreateSteps, DownloadSteps, HoldSteps, RevokeSteps, RobotSteps, CertSteps
  <2> QED
    BY <2>1, <2>2, EndIdles DEF Carries
<1> QED
  BY <1>1, <1>4, <1>5, CredFrame

-----------------------------------------------------------------------------
(* The handlers of credentials leave robots and their certificates alone.  *)
IdentitySteps == {"issue_robot", "download_robot", "reply_robot", "trash_robot"}

SameIdentity(h) ==
    handler[h].at \in IdentitySteps \/ handler'[h].at \in IdentitySteps =>
        /\ handler'[h].at = handler[h].at
        /\ handler'[h].robot = handler[h].robot
        /\ handler'[h].cert = handler[h].cert

IssuedStay == \A k \in RobotCert : certs[k] # "none" => certs'[k] # "none"

LEMMA IdentityFrame ==
    ASSUME RobotInv, IdentityInv,
           robots' = robots, owner' = owner, held' = held, restarts' = restarts,
           trash \subseteq trash', IssuedStay, \A h \in Handler : SameIdentity(h)
    PROVE  RobotInv' /\ IdentityInv'
<1> USE DEF SameIdentity, IdentitySteps
<1>1. OwnersExist' /\ OneOwned'
  BY DEF RobotInv, OwnersExist, OneOwned, IssuedStay
<1>2. \A h \in Handler, r \in Robot : Issuing(h, r)' <=> Issuing(h, r)
  BY DEF Issuing
<1>3. OneIssuer'
  BY <1>2 DEF RobotInv, OneIssuer
<1>4. ASSUME NEW k \in RobotCert
      PROVE  (Delivered(k)' => Delivered(k)) /\ (Accounted(k) => Accounted(k)')
  BY DEF Delivered, Accounted
<1>5. \A h \in Handler, r \in robots : Issuing(h, r) => Issuing(h, r)'
  BY DEF Issuing
<1>6. IdentityInv'
  BY <1>4, <1>5 DEF IdentityInv
<1> QED
  BY <1>1, <1>3, <1>6 DEF RobotInv

(* The end of the process leaves no request, and nothing to account for.   *)
LEMMA IdentityEnds ==
    ASSUME Typed, RobotInv, ProcessEnds, robots' = robots, owner' = owner, IssuedStay
    PROVE  RobotInv' /\ IdentityInv'
<1>1. OwnersExist' /\ OneOwned'
  BY DEF RobotInv, OwnersExist, OneOwned, IssuedStay
<1>2. OneIssuer'
  BY EndIdles DEF OneIssuer, Issuing
<1>3. IdentityInv'
  BY DEF IdentityInv, ProcessEnds, Typed, TypeOK
<1> QED
  BY <1>1, <1>2, <1>3 DEF RobotInv

(* The handlers of credentials keep the invariants of robots.              *)
LEMMA CredentialsKeepRobots ==
    ASSUME Typed, RobotInv, IdentityInv, NEW h \in Handler, Credentials(h)
    PROVE  RobotInv' /\ IdentityInv'
<1>1. /\ robots' = robots /\ owner' = owner /\ held' = held /\ trash \subseteq trash'
      /\ IssuedStay
  <2>1. certs \in [Cert -> {"none", "issuing", "issued"}] /\ RobotCert \subseteq Cert
    BY CertTyped DEF Typed, TypeOK
  <2> QED
    BY <2>1
       DEF Credentials, IssueProvCert, FindForDownload, FindForRevoke, IssueClientCert, PutKeyPair,
           InsertCredentials, DownloadCertificate, GetKeyPairs, DeleteProvKey, DeleteClientKey,
           DeleteKeyPair, SetIssued, ReplyArchive, TrashCertificates, SetRevoked, Issue, Download,
           IssuedStay, tables
<1>2. ProcessEnds \/ (restarts' = restarts /\ \A g \in Handler : SameIdentity(g))
  <2> DEFINE From == {"idle"} \cup LocalSteps
  <2>1. ProcessEnds \/ /\ restarts' = restarts /\ handler[h].at \in From
                       /\ \E step \in From : \E c : Moved(h, step, c)
    <3> USE DEF LocalSteps, CreateSteps, DownloadSteps, HoldSteps, RevokeSteps, At
    <3>1. ASSUME NEW c \in Cred, IssueProvCert(h, c) \/ FindForDownload(h, c) \/ FindForRevoke(h, c)
          PROVE  /\ restarts' = restarts /\ handler[h].at \in From
                 /\ \E step \in From : Moved(h, step, c)
      BY <3>1, StartMoves DEF IssueProvCert, FindForDownload, FindForRevoke
    <3>2. CASE IssueClientCert(h) \/ PutKeyPair(h) \/ InsertCredentials(h)
               \/ DownloadCertificate(h) \/ SetIssued(h) \/ ReplyArchive(h)
               \/ TrashCertificates(h) \/ SetRevoked(h)
      BY <3>2, GotoMoves, ReturnMoves
         DEF IssueClientCert, PutKeyPair, InsertCredentials, DownloadCertificate, SetIssued,
             ReplyArchive, TrashCertificates, SetRevoked
    <3>3. CASE GetKeyPairs(h) \/ DeleteProvKey(h) \/ DeleteClientKey(h)
      BY <3>3, GotoMoves DEF GetKeyPairs, DeleteProvKey, DeleteClientKey, DeleteKeyPair
    <3> QED
      BY <3>1, <3>2, <3>3 DEF Credentials
  <2>2. From \cap IdentitySteps = {}
    BY DEF LocalSteps, CreateSteps, DownloadSteps, HoldSteps, RevokeSteps, IdentitySteps
  <2> HIDE DEF From
  <2>3. ASSUME NEW step \in From, NEW c, Moved(h, step, c), handler[h].at \in From,
               NEW g \in Handler
        PROVE  SameIdentity(g)
    BY <2>2, <2>3 DEF Moved, SameIdentity
  <2> QED
    BY <2>1, <2>3
<1> QED
  BY <1>1, <1>2, IdentityFrame, IdentityEnds

(* The handlers of robots keep the invariants of robots.                   *)
LEMMA RobotsKeep ==
    ASSUME Typed, RobotInv, IdentityInv, NEW h \in Handler, Robots(h)
    PROVE  RobotInv' /\ IdentityInv'
<1> USE DEF At, IdentitySteps, RobotSteps, CertSteps
<1> DEFINE bot == handler[h].robot
           crt == handler[h].cert
<1>1. /\ owner \in [RobotCert -> Robot \cup {NoRobot}] /\ robots \subseteq Robot
      /\ NoRobot \notin Robot /\ held \subseteq RobotCert /\ restarts \in Nat
      /\ certs \in [Cert -> {"none", "issuing", "issued"}] /\ RobotCert \subseteq Cert
      /\ handler[h].at \in RobotSteps => bot \in Robot
      /\ handler[h].at \in CertSteps => crt \in RobotCert
  BY ProvisioningAssumption, CertTyped DEF Typed, TypeOK, HandlersTyped, Remembers
<1>2. ASSUME NEW c \in Cred, NEW r \in Robot, FindCredentials(h, c, r)
      PROVE  RobotInv' /\ IdentityInv'
  <2>1. \A g \in Handler : SameIdentity(g)
    BY <1>2, FindCarries DEF Carries, SameIdentity, FindCredentials
  <2> QED
    BY <1>2, <2>1, IdentityFrame DEF FindCredentials, tables, IssuedStay
<1>3. CASE CheckRobot(h)
  <2>1. \A g \in Handler : SameIdentity(g)
    BY <1>3, GotoCarries, ReturnCarries DEF Carries, SameIdentity, CheckRobot
  <2> QED
    BY <1>3, <2>1, IdentityFrame DEF CheckRobot, tables, IssuedStay
<1>4. CASE CreateRobot(h)
  <2>1. CASE bot \in robots
    BY <1>4, <2>1, IdentityEnds DEF CreateRobot, IssuedStay
  <2>2. CASE bot \notin robots
    <3>1. /\ handler[h].at = "create_robot" /\ Carries(h, "issue_robot", bot, crt)
          /\ robots' = robots \cup {bot}
          /\ UNCHANGED <<certs, owner, trash, held, restarts>>
      BY <1>4, <2>2, GotoCarries DEF CreateRobot
    <3>2. \A g \in Handler, r \in Robot :
              Issuing(g, r)' <=> Issuing(g, r) \/ (g = h /\ r = bot)
      BY <3>1 DEF Carries, Issuing
    <3>3. \A g \in Handler : ~Issuing(g, bot)
      BY <1>1, <2>2, <3>1 DEF RobotInv, OneIssuer
    <3>4. \A k \in RobotCert : owner[k] # bot
      BY <1>1, <2>2, <3>1 DEF RobotInv, OwnersExist
    <3>5. RobotInv'
      BY <1>1, <3>1, <3>2, <3>3, <3>4 DEF RobotInv, OwnersExist, OneIssuer, OneOwned
    <3>6. \A k \in RobotCert : (Delivered(k)' => Delivered(k)) /\ (Accounted(k) => Accounted(k)')
      BY <3>1 DEF Delivered, Accounted, Carries
    <3>7. ASSUME NEW r \in Robot, r = bot PROVE Issuing(h, r)'
      BY <3>1, <3>7 DEF Issuing, Carries
    <3>8. \A g \in Handler, r \in robots : Issuing(g, r) => Issuing(g, r)'
      BY <1>1, <3>2
    <3>9. IdentityInv'
      BY <1>1, <3>1, <3>6, <3>7, <3>8 DEF IdentityInv
    <3> QED
      BY <3>5, <3>9
  <2> QED
    BY <2>1, <2>2
<1>5. ASSUME NEW k \in RobotCert, IssueRobotCert(h, k)
      PROVE  RobotInv' /\ IdentityInv'
  <2>1. CASE bot \notin robots
    BY <1>5, <2>1, IdentityEnds DEF IssueRobotCert, IssuedStay
  <2>2. CASE bot \in robots
    <3>1. /\ handler[h].at = "issue_robot" /\ Carries(h, "download_robot", bot, k)
          /\ certs[k] = "none" /\ certs' = [certs EXCEPT ![k] = "issuing"]
          /\ owner' = [owner EXCEPT ![k] = bot]
          /\ UNCHANGED <<robots, trash, held, restarts>>
      BY <1>5, <2>2, IssueCarries DEF IssueRobotCert, Issue
    <3>2. Issuing(h, bot)
      BY <3>1 DEF Issuing
    <3>3. owner[k] = NoRobot /\ \A j \in RobotCert : owner[j] # bot
      BY <1>1, <3>1, <3>2 DEF RobotInv, OwnersExist, OneIssuer
    <3>4. \A g \in Handler, r \in Robot :
              Issuing(g, r)' <=> Issuing(g, r) /\ g # h
      BY <3>1 DEF Carries, Issuing
    <3>5. \A g \in Handler : Issuing(g, bot) => g = h
      BY <1>1, <3>1, <3>2 DEF RobotInv, OneIssuer
    <3>6. OwnersExist' /\ OneOwned'
      BY <1>1, <2>2, <3>1, <3>3 DEF RobotInv, OwnersExist, OneOwned
    <3>7. OneIssuer'
      BY <1>1, <3>1, <3>3, <3>4, <3>5 DEF RobotInv, OneIssuer
    <3>8. \A j \in RobotCert : j # k =>
              (Delivered(j)' => Delivered(j)) /\ (Accounted(j) => Accounted(j)')
      BY <1>1, <3>1 DEF Delivered, Accounted, Carries
    <3>9. Accounted(k)'
      BY <1>1, <2>2, <3>1 DEF Accounted
    <3>10. ASSUME NEW r \in robots, NEW g \in Handler, Issuing(g, r)
           PROVE  (\E j \in RobotCert : owner'[j] = r) \/ Issuing(g, r)'
      BY <1>1, <3>1, <3>4, <3>10 DEF Issuing
    <3>11. \A j \in RobotCert : owner[j] # NoRobot => owner'[j] = owner[j]
      BY <1>1, <3>1, <3>3
    <3>12. IdentityInv'
      BY <1>1, <3>1, <3>8, <3>9, <3>10, <3>11 DEF IdentityInv
    <3> QED
      BY <3>6, <3>7, <3>12 DEF RobotInv
  <2> QED
    BY <2>1, <2>2
<1>6. CASE DownloadRobotCert(h)
  <2>1. /\ handler[h].at = "download_robot" /\ Carries(h, "reply_robot", bot, crt)
        /\ certs' = [certs EXCEPT ![crt] = "issued"]
        /\ UNCHANGED <<owner, robots, trash, held, restarts>>
    BY <1>6, GotoCarries DEF DownloadRobotCert, Download
  <2>2. OwnersExist' /\ OneOwned'
    BY <1>1, <2>1 DEF RobotInv, OwnersExist, OneOwned
  <2>3. \A g \in Handler, r \in Robot : Issuing(g, r)' <=> Issuing(g, r)
    BY <2>1 DEF Carries, Issuing
  <2>4. \A j \in RobotCert :
            (Delivered(j)' => Delivered(j)) /\ (Accounted(j) => Accounted(j)')
    BY <2>1 DEF Delivered, Accounted, Carries
  <2>5. OneIssuer'
    BY <2>1, <2>3 DEF RobotInv, OneIssuer
  <2>6. IdentityInv'
    BY <1>1, <2>1, <2>3, <2>4 DEF IdentityInv
  <2> QED
    BY <2>2, <2>5, <2>6 DEF RobotInv
<1>7. CASE ReplyRobot(h)
  <2>1. /\ handler[h].at = "reply_robot" /\ Carries(h, "idle", NoRobot, NoCert)
        /\ held' = held \cup {crt}
        /\ UNCHANGED <<certs, owner, robots, trash, restarts>>
    BY <1>7, ReturnCarries DEF ReplyRobot, tables
  <2>2. OwnersExist' /\ OneOwned'
    BY <2>1 DEF RobotInv, OwnersExist, OneOwned
  <2>3. \A g \in Handler, r \in Robot : Issuing(g, r)' <=> Issuing(g, r)
    BY <2>1 DEF Carries, Issuing
  <2>4. \A j \in RobotCert :
            (Delivered(j)' => Delivered(j)) /\ (Accounted(j) => Accounted(j)')
    BY <2>1 DEF Delivered, Accounted, Carries
  <2>5. OneIssuer'
    BY <2>1, <2>3 DEF RobotInv, OneIssuer
  <2>6. IdentityInv'
    BY <1>1, <2>1, <2>3, <2>4 DEF IdentityInv
  <2> QED
    BY <2>2, <2>5, <2>6 DEF RobotInv
<1>8. ASSUME NEW r \in Robot, DeleteRobotRow(h, r)
      PROVE  RobotInv' /\ IdentityInv'
  <2>1. /\ handler[h].at = "idle" /\ r \in robots /\ robots' = robots \ {r}
        /\ owner' = [k \in RobotCert |-> IF owner[k] = r THEN NoRobot ELSE owner[k]]
        /\ UNCHANGED <<certs, trash, held>>
    BY <1>8 DEF DeleteRobotRow
  <2>2. OwnersExist' /\ OneOwned'
    BY <1>1, <2>1 DEF RobotInv, OwnersExist, OneOwned
  <2>3. CASE ProcessEnds
    <3>1. OneIssuer'
      BY <2>3, EndIdles DEF OneIssuer, Issuing
    <3>2. IdentityInv'
      BY <1>1, <2>3 DEF IdentityInv, ProcessEnds
    <3> QED
      BY <2>2, <3>1, <3>2 DEF RobotInv
  <2>4. ASSUME NEW k \in CertsOf(r), Carries(h, "trash_robot", NoRobot, k), UNCHANGED restarts
        PROVE  OneIssuer' /\ IdentityInv'
    <3>1. k \in RobotCert /\ owner[k] = r
      BY DEF CertsOf
    <3>2. \A g \in Handler : ~Issuing(g, r)
      BY <1>1, <2>1, <3>1 DEF RobotInv, OneIssuer
    <3>3. \A g \in Handler, q \in Robot : Issuing(g, q)' <=> Issuing(g, q)
      BY <2>1, <2>4 DEF Carries, Issuing
    <3>4. OneIssuer'
      BY <1>1, <2>1, <3>2, <3>3 DEF RobotInv, OneIssuer
    <3>5. \A j \in RobotCert : owner[j] = r => j = k
      BY <1>1, <3>1 DEF RobotInv, OneOwned
    <3>6. Accounted(k)'
      BY <2>4 DEF Accounted, Carries
    <3>7. \A j \in RobotCert : j # k =>
              (Delivered(j)' => Delivered(j)) /\ (Accounted(j) => Accounted(j)')
      BY <1>1, <2>1, <2>4, <3>5 DEF Delivered, Accounted, Carries
    <3>8. \A q \in robots' : q # r /\ \A j \in RobotCert : owner[j] = q => owner'[j] = q
      BY <1>1, <2>1
    <3>9. IdentityInv'
      BY <1>1, <2>1, <2>4, <3>3, <3>6, <3>7, <3>8 DEF IdentityInv
    <3> QED
      BY <3>4, <3>9
  <2> QED
    BY <1>8, <2>2, <2>3, <2>4, DeleteCarries DEF RobotInv
<1>9. CASE TrashRobotCert(h)
  <2>1. /\ handler[h].at = "trash_robot" /\ Carries(h, "idle", NoRobot, NoCert)
        /\ trash' = trash \cup {crt}
        /\ UNCHANGED <<certs, owner, robots, held, restarts>>
    BY <1>9, ReturnCarries DEF TrashRobotCert
  <2>2. OwnersExist' /\ OneOwned'
    BY <2>1 DEF RobotInv, OwnersExist, OneOwned
  <2>3. \A g \in Handler, r \in Robot : Issuing(g, r)' <=> Issuing(g, r)
    BY <2>1 DEF Carries, Issuing
  <2>4. \A j \in RobotCert :
            (Delivered(j)' => Delivered(j)) /\ (Accounted(j) => Accounted(j)')
    BY <2>1 DEF Delivered, Accounted, Carries
  <2>5. OneIssuer'
    BY <2>1, <2>3 DEF RobotInv, OneIssuer
  <2>6. IdentityInv'
    BY <1>1, <2>1, <2>3, <2>4 DEF IdentityInv
  <2> QED
    BY <2>2, <2>5, <2>6 DEF RobotInv
<1> QED
  BY <1>2, <1>3, <1>4, <1>5, <1>6, <1>7, <1>8, <1>9 DEF Robots

-----------------------------------------------------------------------------
Inv == CredInv /\ OnceInv /\ RobotInv /\ IdentityInv

LEMMA InitInv == Init => Inv
<1> SUFFICES ASSUME Init PROVE Inv
  OBVIOUS
<1>1. \A h \in Handler : handler[h].at = "idle"
  BY DEF Init, Idle
<1>2. \A c \in Cred : CreatedFirst(c) /\ DoneBeforeStatus(c) /\ OneHolder(c)
  <2>1. \A c \in Cred, h \in Handler : \A steps \in SUBSET LocalSteps : ~Stands(h, c, steps)
    BY <1>1 DEF Stands, LocalSteps, CreateSteps, DownloadSteps, HoldSteps, RevokeSteps
  <2>2. {CreateSteps, DownloadSteps \cup HoldSteps, RevokeSteps, HoldSteps,
         {"set_issued", "reply_archive"}, {"trash_prov", "set_revoked"},
         {"set_revoked"}, {"delete_client", "set_issued"}} \subseteq SUBSET LocalSteps
    BY DEF LocalSteps, CreateSteps, DownloadSteps, HoldSteps, RevokeSteps
  <2>3. ASSUME NEW c \in Cred
        PROVE  status[c] = "none" /\ archives[c] = 0 /\ keys = {}
    BY DEF Init
  <2> QED
    BY <2>1, <2>2, <2>3 DEF CreatedFirst, DoneBeforeStatus, OneHolder
<1>3. RobotInv
  BY <1>1 DEF Init, RobotInv, OwnersExist, OneIssuer, OneOwned, Issuing
<1>4. IdentityInv
  BY <1>1 DEF Init, IdentityInv, Delivered
<1> QED
  BY <1>2, <1>3, <1>4, InitTyped DEF Inv, CredInv, OnceInv

LEMMA NextInv == Inv /\ [Next]_vars => Inv'
<1> SUFFICES ASSUME Inv, [Next]_vars PROVE Inv'
  OBVIOUS
<1>1. Typed /\ Typed'
  BY NextTyped DEF Inv, CredInv
<1>2. CASE Restart
  <2>1. CredInv' /\ OnceInv'
    <3>1. \A h \in Handler : handler'[h].at \notin LocalSteps
      BY <1>2, EndIdles
         DEF Restart, LocalSteps, CreateSteps, DownloadSteps, HoldSteps, RevokeSteps
    <3> QED
      BY <1>1, <1>2, <3>1, CredFrame DEF Restart, tables, Inv
  <2>2. RobotInv' /\ IdentityInv'
    BY <1>1, <1>2, IdentityEnds DEF Restart, tables, IssuedStay, Inv
  <2> QED
    BY <2>1, <2>2 DEF Inv
<1>3. CASE UNCHANGED vars
  <2>1. CredInv' /\ OnceInv'
    BY <1>1, <1>3, CredFrame DEF vars, tables, Inv
  <2>2. RobotInv' /\ IdentityInv'
    BY <1>3, IdentityFrame DEF vars, tables, IssuedStay, SameIdentity, Inv
  <2> QED
    BY <2>1, <2>2 DEF Inv
<1>4. ASSUME NEW h \in Handler, Credentials(h) PROVE Inv'
  BY <1>1, <1>4, CredentialsKeep, CredentialsKeepRobots DEF Inv
<1>5. ASSUME NEW h \in Handler, Robots(h) PROVE Inv'
  BY <1>1, <1>5, RobotsKeepCredentials, RobotsKeep DEF Inv
<1> QED
  BY <1>2, <1>3, <1>4, <1>5 DEF Next

(* With a key store in which a missing key cannot be deleted, no number of *)
(* concurrent or interrupted downloads sends the private keys of a         *)
(* credential twice.                                                       *)
THEOREM KeysSentOnce == ASSUME StrictDelete PROVE Spec => []DownloadedOnce
<1>1. Inv => DownloadedOnce
  BY DEF Inv, OnceInv, OneHolder, DownloadedOnce
<1> QED
  BY <1>1, InitInv, NextInv, PTL DEF Spec

(* With such a key store, a revoked credential stays revoked and an issued *)
(* one is not issued anew, also by a download that began before: the one   *)
(* request that holds its keys is the one that sets its status.            *)
THEOREM RevokedForEver == ASSUME StrictDelete PROVE Spec => RevocationIsFinal
<1> DEFINE Final(c) == /\ status[c] = "revoked" => status'[c] = "revoked"
                       /\ status[c] = "issued" => status'[c] \in {"issued", "revoked"}
<1>1. ASSUME Inv, [Next]_vars, NEW c \in Cred PROVE Final(c)
  <2>1. /\ CreatedFirst(c) /\ OneHolder(c)
        /\ status \in [Cred -> {"none", "issuing", "issued", "revoked"}]
    BY <1>1 DEF Inv, CredInv, OnceInv, Typed, TypeOK
  <2>2. ASSUME NEW h \in Handler, InsertCredentials(h) \/ SetIssued(h) \/ SetRevoked(h)
        PROVE  Final(c)
    BY <2>1, <2>2
       DEF InsertCredentials, SetIssued, SetRevoked, CreatedFirst, OneHolder, Stands, At,
           CreateSteps, RevokeSteps
  <2>3. CASE status' = status
    BY <2>3
  <2>4. ASSUME NEW h \in Handler, Credentials(h)
        PROVE  \/ InsertCredentials(h) \/ SetIssued(h) \/ SetRevoked(h)
               \/ status' = status
    BY <2>4
       DEF Credentials, IssueProvCert, FindForDownload, FindForRevoke, IssueClientCert, PutKeyPair,
           DownloadCertificate, GetKeyPairs, DeleteProvKey, DeleteClientKey, DeleteKeyPair,
           ReplyArchive, TrashCertificates, tables
  <2>5. ASSUME NEW h \in Handler, Robots(h) PROVE status' = status
    BY <2>5
       DEF Robots, FindCredentials, CheckRobot, CreateRobot, IssueRobotCert, DownloadRobotCert,
           ReplyRobot, DeleteRobotRow, TrashRobotCert, tables
  <2> QED
    BY <1>1, <2>2, <2>3, <2>4, <2>5 DEF Next, Restart, vars, tables
<1>2. Inv /\ [Next]_vars =>
          [\A c \in Cred : /\ status[c] = "revoked" => status'[c] = "revoked"
                           /\ status[c] = "issued" => status'[c] \in {"issued", "revoked"}]_vars
  BY <1>1
<1> HIDE DEF Final
<1> QED
  BY <1>2, InitInv, NextInv, PTL DEF Spec, RevocationIsFinal

(* Whatever interrupts a download or a revocation, the status says only    *)
(* what was done: no private key is left of an issued credential, and both *)
(* certificates of a revoked one are in the trash.                         *)
THEOREM StatusStaysEarned == Spec => []StatusIsEarned
<1>1. Inv => StatusIsEarned
  <2> SUFFICES ASSUME Inv, NEW c \in Cred
               PROVE  /\ status[c] = "revoked" => {Prov(c), Client(c)} \subseteq trash
                      /\ status[c] \in {"issued", "revoked"} =>
                             {Prov(c), Client(c)} \cap keys = {}
    BY DEF StatusIsEarned
  <2>1. DoneBeforeStatus(c)
    BY DEF Inv, CredInv
  <2> QED
    BY <2>1 DEF DoneBeforeStatus
<1> QED
  BY <1>1, InitInv, NextInv, PTL DEF Spec

(* Whatever requests of a robot overlap with its deletion, it never has    *)
(* two certificates.                                                       *)
THEOREM AtMostOneCertificate == Spec => []OneCertificate
<1>1. Inv => OneCertificate
  <2> SUFFICES ASSUME Inv, NEW r \in robots PROVE Cardinality(CertsOf(r)) <= 1
    BY DEF OneCertificate
  <2>1. r \in Robot /\ r # NoRobot
    BY ProvisioningAssumption DEF Inv, CredInv, Typed, TypeOK
  <2>2. \A j, k \in CertsOf(r) : j = k
    BY <2>1 DEF CertsOf, Inv, RobotInv, OneOwned
  <2>3. CASE CertsOf(r) = {}
    BY <2>3, FS_EmptySet
  <2>4. ASSUME NEW k \in CertsOf(r) PROVE Cardinality(CertsOf(r)) <= 1
    <3>1. CertsOf(r) = {k}
      BY <2>2, <2>4
    <3> QED
      BY <3>1, FS_Singleton
  <2> QED
    BY <2>3, <2>4
<1> QED
  BY <1>1, InitInv, NextInv, PTL DEF Spec

(* While the process lives, no certificate that was handed out and no      *)
(* robot is lost sight of.                                                 *)
THEOREM IdentitiesStayKnown == Spec => []IdentitiesAreKnown
<1>1. Inv => IdentitiesAreKnown
  <2> SUFFICES ASSUME Inv, restarts = 0 PROVE IdentitiesAreKnown
    BY DEF IdentitiesAreKnown
  <2>1. held \subseteq RobotCert
    BY DEF Inv, CredInv, Typed, TypeOK
  <2>2. \A k \in held : Accounted(k)
    BY <2>1 DEF Inv, IdentityInv, Delivered
  <2>3. \A r \in robots : CertsOf(r) # {} \/ \E h \in Handler : Issuing(h, r)
    BY DEF Inv, IdentityInv, CertsOf
  <2> QED
    BY <2>2, <2>3 DEF IdentitiesAreKnown, Accounted, Issuing, At
<1> QED
  BY <1>1, InitInv, NextInv, PTL DEF Spec

=============================================================================

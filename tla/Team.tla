-------------------------------- MODULE Team --------------------------------
(***************************************************************************)
(* Teams and the accounts of their admins.  A team lives in four places:   *)
(* its rows in the database, its keys in the key store, the relations in   *)
(* Ory that make users its admins, and, when it is deleted, the trash.     *)
(* Creating and deleting one is a database transaction with calls to the   *)
(* other three inside, which a rollback does not take back.  A transaction *)
(* that takes too long is rolled back too, under a handler that goes on.   *)
(*                                                                         *)
(* A step is one of these calls.  What a call throws ends the process in   *)
(* deleteTeam; createTeam and deleteAccount catch it and answer 400.       *)
(***************************************************************************)
EXTENDS Naturals, FiniteSets

CONSTANTS Team, User, NoTeam, NoUser,
          KeyStore,     \* the key store of the deployment: "files" or "aws"
          WithRobot,    \* bound: the teams that get a robot
          Handler,      \* requests that can be in progress at once
          KeyCount,     \* TUF keys of a team (8 in the code)
          MaxFailures   \* bound: calls that fail and ends of the process

ASSUME TeamAssumption == /\ NoTeam \notin Team /\ NoUser \notin User
                         /\ KeyStore \in {"files", "aws"}
                         /\ KeyCount \in Nat \ {0} /\ MaxFailures \in Nat

TufKey == Team \X (1..KeyCount)

VARIABLES
    rows,        \* teams
    fleet,       \* teams with a robot that has its certificate
    ecus,        \* teams whose robot has its ECU
    registration,\* POST /ecus of the robot of a team, in progress
    tufKeys,     \* key store: the keys of the two repositories
    ecuKeys,     \* key store: the teams with the key of an ECU
    admins,      \* Ory: the admins of a team
    identities,  \* Ory: users
    trash,       \* trash
    handler,     \* requests in progress
    condemned,   \* history: teams whose deletion has begun
    crowded,     \* history: users with another request while their account was being deleted
    disturbed,   \* history: teams whose registration was cut off, or overtook a deletion
    failures     \* failures so far

stores == <<rows, fleet, ecus, tufKeys, ecuKeys, admins, identities, trash>>
robot == <<registration, disturbed>>
vars == <<stores, robot, handler, condemned, crowded, failures>>

Trash == {"directory", "certificate"} \X Team

InDeletion == {"ecu_key", "trash_directory", "trash_certificate", "tuf_key", "ungrant", "commit"}
InCreation == {"put", "grant", "insert"}
Step == {"idle", "delete", "remove", "next"} \cup InCreation \cup InDeletion

Request == [kind: {"none", "create", "team", "account"}, at: Step, user: User \cup {NoUser},
            team: Team \cup {NoTeam}, key: 1..KeyCount, todo: SUBSET Team,
            found: SUBSET {"ecu", "certificate"}, expired: BOOLEAN]
Idle == [kind |-> "none", at |-> "idle", user |-> NoUser, team |-> NoTeam, key |-> 1,
         todo |-> {}, found |-> {}, expired |-> FALSE]

At(h, step) == handler[h].at = step
Goto(h, step) == handler' = [handler EXCEPT ![h].at = step]
Return(h) == handler' = [handler EXCEPT ![h] = Idle]

Init ==
    /\ rows = {} /\ fleet = {} /\ ecus = {} /\ tufKeys = {} /\ ecuKeys = {} /\ trash = {}
    /\ admins = [t \in Team |-> {}]
    /\ identities = User
    /\ handler = [h \in Handler |-> Idle]
    /\ registration = [t \in Team |-> "none"]
    /\ condemned = {} /\ crowded = {} /\ disturbed = {}
    /\ failures = 0

-----------------------------------------------------------------------------
(* mustBeAuthenticated: the session of a user who exists.                  *)
Begin(h, u, request) ==
    /\ At(h, "idle")
    /\ u \in identities
    /\ handler' = [handler EXCEPT ![h] = [request EXCEPT !.user = u]]
    /\ crowded' = crowded \cup {v \in {u} : \E g \in Handler :
                      handler[g].user = u /\ "account" \in {request.kind, handler[g].kind}}

EndProcess ==
    /\ handler' = [h \in Handler |-> Idle]
    /\ registration' = [t \in Team |-> "none"]
    /\ disturbed' = disturbed \cup {t \in Team : registration[t] = "stored"}

(* What the handler does with an exception.  Its transaction, if it has    *)
(* one, is rolled back: nothing of it was visible.                         *)
Throw(h) ==
    IF handler[h].kind = "team" THEN EndProcess
    ELSE Return(h) /\ UNCHANGED robot

(* The transaction of a handler has taken too long.  The handler does not  *)
(* notice before it uses the transaction again.                            *)
Expire(h) ==
    /\ handler[h].at \in InCreation \cup InDeletion
    /\ handler' = [handler EXCEPT ![h].expired = TRUE]
    /\ UNCHANGED robot

(* A call fails, a transaction is closed, or the process ends: for one,    *)
(* because a robot registers and the keys of the director are gone.        *)
Fail ==
    /\ failures < MaxFailures
    /\ failures' = failures + 1
    /\ \/ \E h \in Handler : ~At(h, "idle") /\ (Throw(h) \/ Expire(h))
       \/ EndProcess
    /\ UNCHANGED <<stores, condemned, crowded>>

(* Mutant of CanDelete: AWS minds a missing key as well.                   *)
CanDeleteStrict(present) == present

(* A missing file cannot be deleted, a missing secret can.                 *)
CanDelete(present) == KeyStore = "files" => present

-----------------------------------------------------------------------------
(* createTeam, for a fresh id.  The row is visible at the end.             *)
Fresh(t) == /\ t \notin rows \cup condemned
            /\ admins[t] = {} /\ tufKeys \cap ({t} \X (1..KeyCount)) = {}
            /\ \A h \in Handler : handler[h].team # t

CreateTeam(h, u, t) ==
    /\ Fresh(t)
    /\ Begin(h, u, [Idle EXCEPT !.kind = "create", !.at = "put", !.team = t])
    /\ UNCHANGED <<stores, robot, condemned, failures>>

(* Mutant of PutTufKey: one key is left out.                               *)
PutTufKeyButOne(h) ==
    /\ At(h, "put")
    /\ tufKeys' = tufKeys \cup {<<handler[h].team, handler[h].key>>}
    /\ IF handler[h].key < KeyCount - 1
       THEN handler' = [handler EXCEPT ![h].key = @ + 1]
       ELSE Goto(h, "grant")
    /\ UNCHANGED <<rows, fleet, ecus, ecuKeys, admins, identities, trash,
                   robot, condemned, crowded, failures>>

PutTufKey(h) ==
    /\ At(h, "put")
    /\ tufKeys' = tufKeys \cup {<<handler[h].team, handler[h].key>>}
    /\ IF handler[h].key < KeyCount
       THEN handler' = [handler EXCEPT ![h].key = @ + 1]
       ELSE Goto(h, "grant")
    /\ UNCHANGED <<rows, fleet, ecus, ecuKeys, admins, identities, trash,
                   robot, condemned, crowded, failures>>

(* The records of the keys, in the transaction; then Ory: the relation     *)
(* that makes the user an admin, and the one that makes admins members, in *)
(* one patch.                                                              *)
Grant(h) ==
    /\ At(h, "grant")
    /\ IF handler[h].expired
       THEN Throw(h) /\ UNCHANGED admins
       ELSE /\ admins' = [admins EXCEPT ![handler[h].team] = @ \cup {handler[h].user}]
            /\ Goto(h, "insert") /\ UNCHANGED robot
    /\ UNCHANGED <<rows, fleet, ecus, tufKeys, ecuKeys, identities, trash,
                   condemned, crowded, failures>>

CommitTeam(h) ==
    /\ At(h, "insert")
    /\ IF handler[h].expired
       THEN Throw(h) /\ UNCHANGED rows
       ELSE rows' = rows \cup {handler[h].team} /\ Return(h) /\ UNCHANGED robot
    /\ UNCHANGED <<fleet, ecus, tufKeys, ecuKeys, admins, identities, trash,
                   condemned, crowded, failures>>

-----------------------------------------------------------------------------
(* mustBeInTeam asks Ory for the relation.                                 *)
MustBeInTeam(u, t) == u \in admins[t]

(* deleteTeam: an admin asks, the team is counted, then the helper runs.   *)
(* Without the team the answer is an error and nothing more.               *)
DeleteTeam(h, u, t) ==
    /\ MustBeInTeam(u, t)
    /\ t \in rows
    /\ Begin(h, u, [Idle EXCEPT !.kind = "team", !.at = "delete", !.team = t])
    /\ UNCHANGED <<stores, robot, condemned, failures>>

(* deleteAccount: the teams that have no other admin are deleted, one      *)
(* after the other, then the identity.  A team has members of its own only *)
(* by invitation, which is not built.                                      *)
DeleteAccount(h, u) ==
    /\ Begin(h, u, [Idle EXCEPT !.kind = "account", !.at = "next",
                                !.todo = {t \in Team : admins[t] = {u}}])
    /\ UNCHANGED <<stores, robot, condemned, failures>>

(* Mutant of DeleteIdentity: the deletions of the teams are not awaited.   *)
DeleteIdentityFirst(h) ==
    /\ At(h, "next")
    /\ identities' = identities \ {handler[h].user}
    /\ Return(h)
    /\ UNCHANGED <<rows, fleet, ecus, tufKeys, ecuKeys, admins, trash,
                   robot, condemned, crowded, failures>>

DeleteIdentity(h) ==
    /\ At(h, "next")
    /\ handler[h].todo = {}
    /\ identities' = identities \ {handler[h].user}
    /\ Return(h)
    /\ UNCHANGED <<rows, fleet, ecus, tufKeys, ecuKeys, admins, trash,
                   robot, condemned, crowded, failures>>

-----------------------------------------------------------------------------
(* deleteTeamHelper: first the ECUs and the certificates of the team are   *)
(* selected; no team, an exception.                                        *)
SelectTeam(h, t) ==
    /\ \/ At(h, "delete") /\ t = handler[h].team
       \/ At(h, "next") /\ t \in handler[h].todo
    /\ IF t \in rows
       THEN /\ handler' = [handler EXCEPT ![h].team = t, ![h].at = "remove",
                  ![h].found = {x \in {"ecu", "certificate"} :
                                  IF x = "ecu" THEN t \in ecus ELSE t \in fleet}]
            /\ UNCHANGED robot
       ELSE Throw(h)
    /\ UNCHANGED <<stores, condemned, crowded, failures>>

(* The DELETE locks the row to the end of the transaction, and does not    *)
(* mind that the row has gone since.                                       *)
Locked(t) ==
    /\ t \in rows
    /\ \E h \in Handler : /\ handler[h].team = t /\ handler[h].at \in InDeletion
                          /\ ~handler[h].expired

DeleteRow(h) ==
    /\ At(h, "remove")
    /\ ~Locked(handler[h].team)
    /\ Goto(h, IF "ecu" \in handler[h].found THEN "ecu_key" ELSE "trash_directory")
    /\ condemned' = condemned \cup {handler[h].team}
    /\ UNCHANGED <<stores, robot, crowded, failures>>

DeleteEcuKey(h) ==
    /\ At(h, "ecu_key")
    /\ IF CanDelete(handler[h].team \in ecuKeys)
       THEN /\ ecuKeys' = ecuKeys \ {handler[h].team}
            /\ Goto(h, "trash_directory") /\ UNCHANGED robot
       ELSE Throw(h) /\ UNCHANGED ecuKeys
    /\ UNCHANGED <<rows, fleet, ecus, tufKeys, admins, identities, trash,
                   condemned, crowded, failures>>

(* The trash is written outside the transaction.                           *)
PutInTrash(h) ==
    /\ \/ /\ At(h, "trash_directory")
          /\ trash' = trash \cup {<<"directory", handler[h].team>>}
          /\ Goto(h, IF "certificate" \in handler[h].found
                     THEN "trash_certificate" ELSE "tuf_key")
       \/ /\ At(h, "trash_certificate")
          /\ trash' = trash \cup {<<"certificate", handler[h].team>>}
          /\ Goto(h, "tuf_key")
    /\ UNCHANGED <<rows, fleet, ecus, tufKeys, ecuKeys, admins, identities,
                   robot, condemned, crowded, failures>>

DeleteTufKey(h) ==
    LET k == <<handler[h].team, handler[h].key>>
    IN  /\ At(h, "tuf_key")
        /\ IF CanDelete(k \in tufKeys)
           THEN /\ tufKeys' = tufKeys \ {k}
                /\ IF handler[h].key < KeyCount
                   THEN handler' = [handler EXCEPT ![h].key = @ + 1]
                   ELSE handler' = [handler EXCEPT ![h].key = 1, ![h].at = "ungrant"]
                /\ UNCHANGED robot
           ELSE Throw(h) /\ UNCHANGED tufKeys
        /\ UNCHANGED <<rows, fleet, ecus, ecuKeys, admins, identities, trash,
                       condemned, crowded, failures>>

Ungrant(h) ==
    /\ At(h, "ungrant")
    /\ admins' = [admins EXCEPT ![handler[h].team] = {}]
    /\ Goto(h, "commit")
    /\ UNCHANGED <<rows, fleet, ecus, tufKeys, ecuKeys, identities, trash,
                   robot, condemned, crowded, failures>>

(* A deletion is over.                                                     *)
Done(h) ==
    /\ IF handler[h].kind = "team" THEN Return(h)
       ELSE handler' = [handler EXCEPT ![h].at = "next", ![h].team = NoTeam, ![h].found = {},
                                       ![h].todo = @ \ {handler[h].team}]
    /\ UNCHANGED robot

(* Mutants of CommitDeletion: nobody waits for Ory, or the foreign key of   *)
(* a table does not cascade.                                               *)
CommitDeletionEarly(h) ==
    /\ At(h, "ungrant")
    /\ rows' = rows \ {handler[h].team}
    /\ fleet' = fleet \ {handler[h].team}
    /\ ecus' = ecus \ {handler[h].team}
    /\ Done(h)
    /\ UNCHANGED <<tufKeys, ecuKeys, admins, identities, trash,
                   condemned, crowded, failures>>

CommitDeletionNoCascade(h) ==
    /\ At(h, "commit")
    /\ rows' = rows \ {handler[h].team}
    /\ Done(h)
    /\ UNCHANGED <<fleet, ecus, tufKeys, ecuKeys, admins, identities, trash,
                   condemned, crowded, failures>>

(* The row is gone, and what belongs to it by a foreign key.  An expired   *)
(* transaction is noticed here.                                            *)
CommitDeletion(h) ==
    /\ At(h, "commit")
    /\ IF handler[h].expired
       THEN Throw(h) /\ UNCHANGED <<rows, fleet, ecus>>
       ELSE /\ rows' = rows \ {handler[h].team}
            /\ fleet' = fleet \ {handler[h].team}
            /\ ecus' = ecus \ {handler[h].team}
            /\ Done(h)
    /\ UNCHANGED <<tufKeys, ecuKeys, admins, identities, trash,
                   condemned, crowded, failures>>

-----------------------------------------------------------------------------
(* A robot is provisioned: its row, then its certificate.  The insertion   *)
(* waits for a deletion of its team.                                       *)
AddRobot(t) ==
    /\ t \in WithRobot /\ t \in rows \ fleet
    /\ ~Locked(t)
    /\ fleet' = fleet \cup {t}
    /\ UNCHANGED <<rows, ecus, tufKeys, ecuKeys, admins, identities, trash,
                   robot, handler, condemned, crowded, failures>>

(* POST /ecus of that robot: it reads the keys of the director, for which  *)
(* the last key of the team stands, ...                                    *)
RegisterEcu(t) ==
    /\ t \in fleet \ ecus /\ registration[t] = "none"
    /\ <<t, KeyCount>> \in tufKeys
    /\ registration' = [registration EXCEPT ![t] = "begun"]
    /\ UNCHANGED <<stores, handler, condemned, crowded, disturbed, failures>>

(* ... stores the key of the ECU ...                                       *)
PutEcuKey(t) ==
    /\ registration[t] = "begun"
    /\ ecuKeys' = ecuKeys \cup {t}
    /\ registration' = [registration EXCEPT ![t] = "stored"]
    /\ UNCHANGED <<rows, fleet, ecus, tufKeys, admins, identities, trash,
                   handler, condemned, crowded, disturbed, failures>>

(* ... and inserts its row, which waits for a deletion of the team, and    *)
(* throws when team and robot are gone: nothing catches that.              *)
InsertEcu(t) ==
    /\ registration[t] = "stored"
    /\ ~Locked(t)
    /\ IF t \in fleet
       THEN /\ ecus' = ecus \cup {t}
            /\ registration' = [registration EXCEPT ![t] = "none"]
            /\ disturbed' = disturbed \cup {s \in {t} :
                   \E h \in Handler : At(h, "remove") /\ handler[h].team = t}
            /\ UNCHANGED handler
       ELSE EndProcess /\ UNCHANGED ecus
    /\ UNCHANGED <<rows, fleet, tufKeys, ecuKeys, admins, identities, trash,
                   condemned, crowded, failures>>

Continue(h) ==
    \/ PutTufKey(h) \/ Grant(h) \/ CommitTeam(h)
    \/ DeleteIdentity(h)
    \/ \E t \in Team : SelectTeam(h, t)
    \/ DeleteRow(h) \/ DeleteEcuKey(h) \/ PutInTrash(h) \/ DeleteTufKey(h) \/ Ungrant(h)
    \/ CommitDeletion(h)

Next ==
    \/ \E h \in Handler, u \in User : \/ \E t \in Team : CreateTeam(h, u, t) \/ DeleteTeam(h, u, t)
                                      \/ DeleteAccount(h, u)
    \/ \E h \in Handler : Continue(h)
    \/ \E t \in Team : AddRobot(t) \/ RegisterEcu(t) \/ PutEcuKey(t) \/ InsertEcu(t)
    \/ Fail

(* A handler goes on as long as the process lives.                         *)
Spec == Init /\ [][Next]_vars /\ \A h \in Handler : WF_vars(Continue(h))

-----------------------------------------------------------------------------
TypeOK ==
    /\ ecus \subseteq fleet /\ fleet \subseteq rows /\ rows \subseteq Team
    /\ registration \in [Team -> {"none", "begun", "stored"}]
    /\ tufKeys \subseteq TufKey /\ ecuKeys \subseteq Team
    /\ admins \in [Team -> SUBSET User]
    /\ identities \subseteq User
    /\ trash \subseteq Trash
    /\ handler \in [Handler -> Request]
    /\ condemned \subseteq Team /\ crowded \subseteq User /\ disturbed \subseteq Team
    /\ failures \in 0..MaxFailures

(* When a team is gone, so are the keys of its repositories and its        *)
(* admins, and its directory is in the trash: whatever failed, was         *)
(* repeated or ran at the same time, the row is the last to go.  The key   *)
(* of an ECU is left only by a registration that was cut off, or that      *)
(* ended between the selection of the ECUs and the DELETE.                 *)
DeletedTeamLeavesNothing ==
    \A t \in condemned \ rows :
        /\ tufKeys \cap ({t} \X (1..KeyCount)) = {}
        /\ admins[t] = {}
        /\ <<"directory", t>> \in trash
        /\ t \in ecuKeys => t \in disturbed \/ registration[t] = "stored"

(* docs/platform/teams.md: the deletion of a team deletes all its signing  *)
(* keys.                                                                   *)
DeletedTeamLeavesNoKey ==
    \A t \in condemned \ rows :
        registration[t] = "none" => t \notin ecuKeys

(* A team that users see, and that nobody has begun to delete, has all its *)
(* keys, an admin and nothing in the trash; an ECU of it has its key.      *)
TeamsAreWhole ==
    \A t \in rows \ condemned : /\ {t} \X (1..KeyCount) \subseteq tufKeys
                                /\ t \in ecus => t \in ecuKeys
                                /\ admins[t] # {}
                                /\ \A x \in trash : x[2] # t

(* Whoever Ory names as an admin has an account, unless the user made      *)
(* another request while the account was being deleted: an account goes    *)
(* only after every team it would leave without an admin.                  *)
AdminsExist == \A t \in Team : admins[t] \subseteq identities \cup crowded

(* With the key store of AWS, a deletion that failed halfway can be        *)
(* repeated: once the failures are over, and neither another deletion nor  *)
(* the registration of another robot can end the process, the team is      *)
(* deleted.                                                                *)
NobodyElse(t) ==
    /\ Cardinality({h \in Handler : handler[h].kind = "team"}) <= 1
    /\ \A s \in Team \ {t} : registration[s] = "none"

DeletionCanBeRepeated ==
    \A t \in Team :
        (/\ KeyStore = "aws" /\ failures = MaxFailures
         /\ t \in rows /\ \E h \in Handler : At(h, "delete") /\ handler[h].team = t
         /\ []NobodyElse(t)) ~> t \notin rows
=============================================================================

---------------------------- MODULE DirectorRepo ----------------------------
(***************************************************************************)
(* What a robot asks the director repository for: registering its ECUs,    *)
(* sending manifests and other reports, reading metadata; while an admin   *)
(* may delete the robot and its owner provision it again.  Requests of the *)
(* robot from before its deletion may still be in progress by then.        *)
(*                                                                         *)
(* A step is one query or one call to the key store, with the code up to   *)
(* the next one.  A handler that throws outside a try ends the process.    *)
(***************************************************************************)
EXTENDS Naturals, Sequences, FiniteSets

CONSTANTS Robot, Ecu, NoRobot,
          Payloads,     \* [Robot -> the sets of ECUs it may register]
          Reports,      \* [Robot -> the manifests it may send]
          Handler,      \* requests that can be in progress at once
          MaxCounter,   \* bound: the report counter of a robot
          MaxSaved,     \* bound: saved manifests of a robot
          MaxRestarts   \* bound: ends of the process

(* A manifest: the ECUs it has reports of, their report counter, and       *)
(* whether it is sound: its schema and signatures are those that are       *)
(* checked, it has a report of its primary, and none of an attack.         *)
Manifest == [ecus: SUBSET Ecu, counter: 1..MaxCounter, sound: BOOLEAN]

ASSUME DirectorAssumption ==
    /\ NoRobot \notin Robot
    /\ Payloads \in [Robot -> SUBSET SUBSET Ecu]
    /\ Reports \in [Robot -> SUBSET Manifest]
    /\ {MaxCounter, MaxSaved, MaxRestarts} \subseteq Nat

VARIABLES
    provider,   \* the key store: "files" or "aws"
    robots,     \* robots
    registered, \* robots.ecus_registered
    ecus,       \* ecus.robot_id
    keys,       \* key store: the ECUs it has a key for
    metadata,   \* director tuf_metadata: how often a robot was given version 1
    manifests,  \* robot_manifests, oldest row first
    handler,    \* requests in progress
    raced,      \* history: ECUs whose registration met a deletion that lists them
    restarts    \* ends of the process so far

tables == <<robots, registered, ecus, metadata, manifests>>
vars == <<provider, tables, keys, handler, raced, restarts>>

(* A saved manifest, and whether another one of the robot with its counter *)
(* was in progress at the same time (history).                             *)
SavedManifest == [manifest: Manifest, valid: BOOLEAN, twin: BOOLEAN]

NoManifest == [ecus |-> {}, counter |-> 0, sound |-> FALSE]
Idle == [at |-> "idle", kind |-> "none", robot |-> NoRobot, todo |-> {}, new |-> {},
         manifest |-> NoManifest, valid |-> FALSE, twin |-> FALSE, raced |-> FALSE]

At(h, kind, step) == handler[h].kind = kind /\ handler[h].at = step
Goto(h, step) == handler' = [handler EXCEPT ![h].at = step]
Return(h) == handler' = [handler EXCEPT ![h] = Idle]

EcusOf(r) == {e \in Ecu : ecus[e] = r}

Init ==
    /\ provider \in {"files", "aws"}
    /\ robots = Robot
    /\ registered = {}
    /\ ecus = [e \in Ecu |-> NoRobot]
    /\ keys = {}
    /\ metadata = [r \in Robot |-> 0]
    /\ manifests = [r \in Robot |-> <<>>]
    /\ handler = [h \in Handler |-> Idle]
    /\ raced = {}
    /\ restarts = 0

-----------------------------------------------------------------------------
ProcessEnds ==
    /\ restarts < MaxRestarts
    /\ restarts' = restarts + 1
    /\ handler' = [h \in Handler |-> Idle]

Restart == ProcessEnds /\ UNCHANGED <<provider, tables, keys, raced>>

(* The key store.  Files are overwritten, secrets can be created once;     *)
(* a missing file cannot be deleted, a missing secret can.                 *)
CanPut(e) == provider = "aws" => e \notin keys
CanDelete(e) == provider = "files" => e \in keys

(* mustBeRobot finds the robot or answers 400; others are the requests in  *)
(* progress, with what this one adds to their history.                     *)
MustBeRobot(h, r, request, others) ==
    /\ handler[h].kind = "none"
    /\ r \in robots
    /\ handler' = [others EXCEPT ![h] = [request EXCEPT !.robot = r, !.at = "meta"]]

(* updateRobotMeta updates it, which throws if it was deleted since.       *)
UpdateRobotMeta(h) ==
    /\ handler[h].at = "meta"
    /\ IF handler[h].robot \in robots
       THEN Goto(h, "start") /\ UNCHANGED restarts
       ELSE ProcessEnds
    /\ UNCHANGED <<provider, tables, keys, raced>>

-----------------------------------------------------------------------------
(* POST /ecus.                                                             *)
StartRegistration(h, r) ==
    /\ \E p \in Payloads[r] :
          LET met == \E g \in Handler : handler[g].kind = "delete" /\ handler[g].todo \cap p # {}
          IN  MustBeRobot(h, r, [Idle EXCEPT !.kind = "ecus", !.todo = p, !.new = p, !.raced = met],
                          handler)
    /\ UNCHANGED <<provider, tables, keys, raced, restarts>>

(* A robot that has registered is answered 400, but the handler goes on.   *)
(* A robot that is gone is null, and reading it throws.                    *)
FindRobot(h) ==
    /\ At(h, "ecus", "start")
    /\ IF handler[h].robot \in robots
       THEN Goto(h, "put_keys") /\ UNCHANGED restarts
       ELSE ProcessEnds
    /\ UNCHANGED <<provider, tables, keys, raced>>

PutEcuKey(h, e) ==
    /\ At(h, "ecus", "put_keys")
    /\ e \in handler[h].todo
    /\ IF CanPut(e)
       THEN /\ keys' = keys \cup {e}
            /\ handler' = [handler EXCEPT ![h].todo = @ \ {e}]
            /\ UNCHANGED restarts
       ELSE ProcessEnds /\ UNCHANGED keys
    /\ UNCHANGED <<provider, tables, raced>>

(* Mutant of CanRegister: the robot is not updated in the transaction.     *)
CanRegisterUnchecked(r, new) == \A e \in new : ecus[e] = NoRobot

(* The rows of the transaction: ECU serials are unique, the robot exists.  *)
CanRegister(r, new) == r \in robots /\ \A e \in new : ecus[e] = NoRobot

(* Mutant of CommitRegistration: the calls that store keys are not awaited.*)
CommitRegistrationFirst(h) ==
    LET r == handler[h].robot
        new == handler[h].new
    IN  /\ At(h, "ecus", "put_keys")
        /\ CanRegister(r, new)
        /\ ecus' = [e \in Ecu |-> IF e \in new THEN r ELSE ecus[e]]
        /\ registered' = registered \cup {r}
        /\ metadata' = [metadata EXCEPT ![r] = @ + 1]
        /\ raced' = IF handler[h].raced THEN raced \cup new ELSE raced \ new
        /\ Return(h)
        /\ UNCHANGED <<provider, robots, manifests, keys, restarts>>

(* The transaction: the ECUs, the flag, the first version of the three     *)
(* roles.  A second answer is an end() without a body, which does nothing. *)
CommitRegistration(h) ==
    LET r == handler[h].robot
        new == handler[h].new
    IN  /\ At(h, "ecus", "put_keys")
        /\ handler[h].todo = {}
        /\ IF CanRegister(r, new)
           THEN /\ ecus' = [e \in Ecu |-> IF e \in new THEN r ELSE ecus[e]]
                /\ registered' = registered \cup {r}
                /\ metadata' = [metadata EXCEPT ![r] = @ + 1]
                /\ raced' = IF handler[h].raced THEN raced \cup new ELSE raced \ new
                /\ Return(h) /\ UNCHANGED restarts
           ELSE ProcessEnds /\ UNCHANGED <<ecus, registered, metadata, raced>>
        /\ UNCHANGED <<provider, robots, manifests, keys>>

-----------------------------------------------------------------------------
(* PUT /manifest.  What a robot counts is its own affair: it may send a    *)
(* counter again, or the network may deliver it again, at any time.        *)
SendManifest(h, r, m) ==
    LET twins == {g \in Handler : /\ handler[g].kind = "manifest"
                                  /\ handler[g].robot = r
                                  /\ handler[g].manifest.counter = m.counter}
    IN  /\ MustBeRobot(h, r,
               [Idle EXCEPT !.kind = "manifest", !.manifest = m, !.twin = twins # {}],
               [g \in Handler |-> IF g \in twins THEN [handler[g] EXCEPT !.twin = TRUE]
                                                 ELSE handler[g]])
        /\ UNCHANGED <<provider, tables, keys, raced, restarts>>

(* Mutant of CountersAreNew: rejected manifests do not use up a counter.   *)
CountersAreNewAmongValid(m, saved) ==
    \A i \in DOMAIN saved : /\ m.ecus \subseteq saved[i].manifest.ecus
                            /\ saved[i].valid => saved[i].manifest.counter # m.counter

(* validateReportCounter: no saved manifest, valid or not, has the counter *)
(* of an ECU; a saved one without a report of the ECU throws.              *)
CountersAreNew(m, saved) ==
    \A i \in DOMAIN saved : /\ m.ecus \subseteq saved[i].manifest.ecus
                            /\ saved[i].manifest.counter # m.counter

(* The checks that depend on what robotManifestChecks reads in its query:  *)
(* the robot, its ECUs, its manifests.                                     *)
ReadForChecks(h) ==
    LET r == handler[h].robot
        m == handler[h].manifest
    IN  /\ At(h, "manifest", "start")
        /\ handler' = [handler EXCEPT ![h].at = "check",
                           ![h].valid = /\ r \in robots
                                        /\ m.ecus = EcusOf(r)
                                        /\ CountersAreNew(m, manifests[r])]
        /\ UNCHANGED <<provider, tables, keys, raced, restarts>>

(* Then the keys are read, the checks run, and the robot has its answer.   *)
CheckManifest(h) ==
    LET m == handler[h].manifest
    IN  /\ At(h, "manifest", "check")
        /\ handler' = [handler EXCEPT ![h].at = "save",
                           ![h].valid = /\ handler[h].valid
                                        /\ m.ecus \subseteq keys
                                        /\ m.sound]
        /\ UNCHANGED <<provider, tables, keys, raced, restarts>>

(* finally: whatever the verdict, the manifest is saved.                   *)
SaveManifest(h) ==
    LET q == handler[h]
    IN  /\ At(h, "manifest", "save")
        /\ IF q.robot \in robots
           THEN /\ Len(manifests[q.robot]) < MaxSaved
                /\ manifests' = [manifests EXCEPT ![q.robot] =
                       Append(@, [manifest |-> q.manifest, valid |-> q.valid, twin |-> q.twin])]
                /\ Return(h) /\ UNCHANGED restarts
           ELSE ProcessEnds /\ UNCHANGED manifests
        /\ UNCHANGED <<provider, robots, registered, ecus, metadata, keys, raced>>

-----------------------------------------------------------------------------
(* The reports of modules/robot: a row with a foreign key to the robot.    *)
StartReport(h, r) ==
    /\ MustBeRobot(h, r, [Idle EXCEPT !.kind = "report"], handler)
    /\ UNCHANGED <<provider, tables, keys, raced, restarts>>

SaveReport(h) ==
    /\ At(h, "report", "start")
    /\ IF handler[h].robot \in robots THEN Return(h) /\ UNCHANGED restarts ELSE ProcessEnds
    /\ UNCHANGED <<provider, tables, keys, raced>>

-----------------------------------------------------------------------------
(* deleteRobot: the robot is selected with its ECUs, then deleted; its     *)
(* rows go with it.  A robot that another deletion took in between is not  *)
(* missed by prisma.robot.delete, which found it.                          *)
StartDeletion(h, r) ==
    /\ handler[h].kind = "none"
    /\ r \in robots
    /\ handler' = [g \in Handler |->
           IF g = h
           THEN [Idle EXCEPT !.kind = "delete", !.robot = r, !.at = "delete_row",
                             !.todo = EcusOf(r)]
           ELSE [handler[g] EXCEPT !.raced = @ \/ (/\ handler[g].kind = "ecus"
                                                   /\ handler[g].new \cap EcusOf(r) # {})]]
    /\ UNCHANGED <<provider, tables, keys, raced, restarts>>

DeleteRow(h) ==
    LET r == handler[h].robot
    IN  /\ At(h, "delete", "delete_row")
        /\ robots' = robots \ {r}
        /\ registered' = registered \ {r}
        /\ ecus' = [e \in Ecu |-> IF ecus[e] = r THEN NoRobot ELSE ecus[e]]
        /\ metadata' = [metadata EXCEPT ![r] = 0]
        /\ manifests' = [manifests EXCEPT ![r] = <<>>]
        /\ Goto(h, "delete_keys")
        /\ UNCHANGED <<provider, keys, raced, restarts>>

(* Then the keys of the ECUs that were selected, one call each.            *)
DeleteEcuKey(h, e) ==
    /\ At(h, "delete", "delete_keys")
    /\ e \in handler[h].todo
    /\ IF CanDelete(e)
       THEN /\ keys' = keys \ {e}
            /\ handler' = [handler EXCEPT ![h].todo = @ \ {e}]
            /\ UNCHANGED restarts
       ELSE ProcessEnds /\ UNCHANGED keys
    /\ UNCHANGED <<provider, tables, raced>>

EndDeletion(h) ==
    /\ At(h, "delete", "delete_keys")
    /\ handler[h].todo = {}
    /\ Return(h)
    /\ UNCHANGED <<provider, tables, keys, raced, restarts>>

(* POST /devices: the row of a deleted robot is created again, whatever    *)
(* handlers of its previous life are in progress.                          *)
ProvisionAgain(r) ==
    /\ r \notin robots
    /\ robots' = robots \cup {r}
    /\ UNCHANGED <<provider, registered, ecus, metadata, manifests, keys, handler, raced, restarts>>

-----------------------------------------------------------------------------
Request(h) ==
    \/ UpdateRobotMeta(h)
    \/ \E r \in Robot : StartRegistration(h, r) \/ StartReport(h, r) \/ StartDeletion(h, r)
    \/ \E r \in Robot : \E m \in Reports[r] : SendManifest(h, r, m)
    \/ \E e \in Ecu : PutEcuKey(h, e) \/ DeleteEcuKey(h, e)
    \/ FindRobot(h) \/ CommitRegistration(h)
    \/ ReadForChecks(h) \/ CheckManifest(h) \/ SaveManifest(h)
    \/ SaveReport(h) \/ DeleteRow(h) \/ EndDeletion(h)

Next ==
    \/ Restart
    \/ \E r \in Robot : ProvisionAgain(r)
    \/ \E h \in Handler : Request(h)

Spec == Init /\ [][Next]_vars

-----------------------------------------------------------------------------
TypeOK ==
    /\ provider \in {"files", "aws"}
    /\ registered \subseteq robots /\ robots \subseteq Robot
    /\ ecus \in [Ecu -> Robot \cup {NoRobot}]
    /\ keys \subseteq Ecu
    /\ metadata \in [Robot -> Nat]
    /\ \A r \in Robot : manifests[r] \in Seq(SavedManifest)
    /\ raced \subseteq Ecu
    /\ restarts \in 0..MaxRestarts

(* A counter is accepted again only from a manifest that was in progress   *)
(* together with another of that counter, so that neither could be in the  *)
(* table the other was checked against: not after a rejected one, a        *)
(* restart, or the deletion and return of the robot.                       *)
CounterAcceptedOnce ==
    \A r \in Robot : \A i, j \in DOMAIN manifests[r] :
        /\ i < j /\ manifests[r][j].valid
        /\ manifests[r][i].manifest.counter = manifests[r][j].manifest.counter
        => manifests[r][j].twin

(* Without its key no manifest about an ECU is accepted any more.  An ECU  *)
(* of a robot has its key in the store, whatever repeated registrations,   *)
(* deletions and restarts did to it, unless its registration was ever in   *)
(* progress together with a deletion that lists it: only the late end of   *)
(* the loop over the keys can take the key of a registered ECU.            *)
EcusHaveKeys == \A e \in Ecu : ecus[e] # NoRobot /\ e \notin raced => e \in keys

(* "Each report counter in the ecu report has never been sent before", as  *)
(* the checks of PUT /manifest are documented: no manifest is accepted     *)
(* with the counter of one that is in the table.                           *)
CountersNeverRepeat ==
    \A r \in Robot : \A i, j \in DOMAIN manifests[r] :
        i < j /\ manifests[r][j].valid =>
            manifests[r][i].manifest.counter # manifests[r][j].manifest.counter

(* A robot registers its ECUs once, as the comment of POST /ecus says: it  *)
(* is given version 1 of its metadata once, and never served it again      *)
(* after later ones.                                                       *)
RegistersOnce == \A r \in Robot : metadata[r] <= 1
=============================================================================

---------------------------- MODULE Team_proofs ----------------------------
(***************************************************************************)
(* Safety of Team for any number of teams, users, requests at once, keys   *)
(* and failures, and either key store.                                     *)
(***************************************************************************)
EXTENDS Team, TLAPS

TeamSteps == {"delete", "remove"} \cup InCreation \cup InDeletion
Busy == {"remove"} \cup InCreation \cup InDeletion

Doing(h, t, steps) == handler[h].team = t /\ handler[h].at \in steps

(* What a request remembers, by its kind and step.                         *)
Remembers(m) ==
    /\ m.at = "idle" => m = Idle
    /\ m.at # "idle" => m.user \in User
    /\ m.at \in TeamSteps => m.team \in Team
    /\ m.at \notin InCreation \cup {"tuf_key"} => m.key = 1
    /\ m.at \notin InCreation \cup InDeletion => m.expired = FALSE
    /\ m.kind = "create" <=> m.at \in InCreation
    /\ m.kind = "team" => m.at \in {"delete", "remove"} \cup InDeletion
    /\ m.kind = "account" => m.at \in {"next", "remove"} \cup InDeletion
    /\ m.kind = "none" => m.at = "idle"

HandlersTyped == /\ handler \in [Handler -> Request]
                 /\ \A h \in Handler : Remembers(handler[h])

Typed == TypeOK /\ HandlersTyped

(* One request creates a team, key by key, and nobody else knows of it.    *)
CreatedSoFar(h, t) ==
    /\ t \notin rows /\ t \notin condemned
    /\ \A g \in Handler : Doing(g, t, InCreation) => g = h
    /\ Doing(h, t, {"put"}) => \A i \in 1..KeyCount : i < handler[h].key => <<t, i>> \in tufKeys
    /\ Doing(h, t, {"put", "grant"}) => admins[t] = {}
    /\ Doing(h, t, {"grant", "insert"}) => \A i \in 1..KeyCount : <<t, i>> \in tufKeys
    /\ Doing(h, t, {"insert"}) => admins[t] # {}

Creation(t) == \A h \in Handler : Doing(h, t, InCreation) => CreatedSoFar(h, t)

(* What a deletion has done so far stays done, whoever else deletes the    *)
(* team and whether or not the transaction has expired.                    *)
DeletedSoFar(h, t) ==
    /\ t \in condemned
    /\ ~Doing(h, t, {"ecu_key", "trash_directory"}) => <<"directory", t>> \in trash
    /\ Doing(h, t, {"tuf_key"}) =>
          \A i \in 1..KeyCount : i < handler[h].key => <<t, i>> \notin tufKeys
    /\ Doing(h, t, {"ungrant", "commit"}) => \A i \in 1..KeyCount : <<t, i>> \notin tufKeys
    /\ Doing(h, t, {"commit"}) => admins[t] = {}

(* The excuse of the key of an ECU for being there without the ECU.        *)
Excused(t) == registration[t] = "stored" \/ t \in disturbed

(* As long as the lock holds, no ECU is added to those that were found.    *)
EcusFound(h, t) ==
    t \in rows =>
        /\ Doing(h, t, {"remove"}) /\ t \in ecus => "ecu" \in handler[h].found \/ Excused(t)
        /\ Doing(h, t, InDeletion \ {"ecu_key"}) /\ handler[h].expired = FALSE /\ t \in ecuKeys
               => Excused(t)

Deletion(t) ==
    \A h \in Handler :
        /\ Doing(h, t, {"remove"}) => t \in rows \/ t \in condemned
        /\ Doing(h, t, InDeletion) => DeletedSoFar(h, t)
        /\ EcusFound(h, t)

Whole(t) ==
    /\ t \in rows /\ t \notin condemned =>
           /\ \A i \in 1..KeyCount : <<t, i>> \in tufKeys
           /\ t \in ecus => t \in ecuKeys
           /\ admins[t] # {}
    /\ registration[t] = "stored" /\ t \notin condemned => t \in ecuKeys
    /\ t \in ecuKeys => t \in ecus \/ Excused(t)
    /\ \A x \in {"directory", "certificate"} : <<x, t>> \in trash => t \in condemned

Gone(t) ==
    t \in condemned /\ t \notin rows =>
        /\ \A i \in 1..KeyCount : <<t, i>> \notin tufKeys
        /\ admins[t] = {}
        /\ <<"directory", t>> \in trash

Sound(t) == Creation(t) /\ Deletion(t) /\ Whole(t) /\ Gone(t)
TeamInv == \A t \in Team : Sound(t)

(* Users and the teams they would leave without an admin.                  *)
UsersExist ==
    \A h \in Handler : handler[h].user \in User =>
        /\ handler[h].user \in identities \cup crowded
        /\ handler[h].user \notin crowded /\ handler[h].kind = "account" =>
               \A g \in Handler : handler[g].user = handler[h].user => g = h

OneAdmin == \A t \in Team : \A u, v \in admins[t] : u = v

TeamsToDelete ==
    \A h \in Handler : handler[h].kind = "account" /\ handler[h].user \notin crowded =>
        \A t \in Team : handler[h].user \in admins[t] => t \in handler[h].todo

UserInv == UsersExist /\ OneAdmin /\ TeamsToDelete /\ AdminsExist

-----------------------------------------------------------------------------
LEMMA IdleTyped == Idle \in Request /\ Remembers(Idle)
  BY TeamAssumption
     DEF Idle, Request, Step, Remembers, TeamSteps, InCreation, InDeletion

(* One step of one handler.                                                *)
LEMMA MoveTyped ==
    ASSUME HandlersTyped, NEW h \in Handler, NEW m \in Request, Remembers(m),
           handler' = [handler EXCEPT ![h] = m]
    PROVE  /\ HandlersTyped'
           /\ handler'[h] = m
           /\ \A g \in Handler \ {h} : handler'[g] = handler[g]
  BY DEF HandlersTyped

LEMMA IdleDoes == Idle.user = NoUser /\ Idle.at = "idle" /\ Idle.kind = "none"
  BY DEF Idle

(* What becomes of the registrations when the process ends, or does not.   *)
RobotTyped == /\ registration \in [Team -> {"none", "begun", "stored"}]
              /\ disturbed \subseteq Team

RobotsQuiet ==
    \A t \in Team : /\ t \in disturbed => t \in disturbed'
                    /\ registration'[t] = "stored" => registration[t] = "stored"
                    /\ Excused(t) => Excused(t)'

LEMMA RobotsUnchanged == ASSUME RobotTyped, UNCHANGED robot PROVE RobotTyped' /\ RobotsQuiet
  BY DEF RobotTyped, RobotsQuiet, Excused, robot

LEMMA ProcessEnds ==
    ASSUME HandlersTyped, RobotTyped, EndProcess
    PROVE  /\ HandlersTyped' /\ RobotTyped' /\ RobotsQuiet
           /\ \A g \in Handler : handler'[g] = Idle
  <1>1. HandlersTyped' /\ \A g \in Handler : handler'[g] = Idle
    BY IdleTyped DEF EndProcess, HandlersTyped
  <1>2. RobotTyped' /\ RobotsQuiet
    BY DEF EndProcess, RobotTyped, RobotsQuiet, Excused
  <1> QED BY <1>1, <1>2

LEMMA ThrowMoves ==
    ASSUME HandlersTyped, RobotTyped, NEW h \in Handler, Throw(h)
    PROVE  /\ HandlersTyped' /\ RobotTyped' /\ RobotsQuiet
           /\ handler'[h] = Idle
           /\ \A g \in Handler : handler'[g] = Idle \/ handler'[g] = handler[g]
  <1>1. CASE EndProcess
    BY <1>1, ProcessEnds
  <1>2. CASE Return(h) /\ UNCHANGED robot
    BY <1>2, RobotsUnchanged, IdleTyped, MoveTyped DEF Return
  <1> QED BY <1>1, <1>2 DEF Throw

LEMMA ExpireMoves ==
    ASSUME HandlersTyped, RobotTyped, NEW h \in Handler, Expire(h)
    PROVE  /\ HandlersTyped' /\ RobotTyped' /\ RobotsQuiet
           /\ handler'[h] = [handler[h] EXCEPT !.expired = TRUE]
           /\ \A g \in Handler \ {h} : handler'[g] = handler[g]
  <1> DEFINE m == [handler[h] EXCEPT !.expired = TRUE]
  <1>0. handler[h] \in Request /\ Remembers(handler[h])
    BY DEF HandlersTyped
  <1>1. m \in Request
    BY <1>0 DEF Request
  <1>2. handler' = [handler EXCEPT ![h] = m] /\ UNCHANGED robot
    BY <1>0 DEF Expire, HandlersTyped, Request
  <1>3. handler[h].at \in InCreation \cup InDeletion
    BY DEF Expire
  <1>4. /\ m.at = handler[h].at /\ m.kind = handler[h].kind /\ m.key = handler[h].key
        /\ m.user = handler[h].user /\ m.team = handler[h].team
    BY <1>0 DEF Request
  <1>5. m.at # "idle"
    BY <1>3, <1>4 DEF InCreation, InDeletion
  <1>6. Remembers(m)
    BY <1>0, <1>3, <1>4, <1>5 DEF Remembers
  <1> QED BY <1>1, <1>2, <1>6, MoveTyped, RobotsUnchanged

(* A new request.                                                          *)
LEMMA BeginMoves ==
    ASSUME HandlersTyped, NEW h \in Handler, NEW u \in User, NEW request \in Request,
           Remembers([request EXCEPT !.user = u]), Begin(h, u, request)
    PROVE  /\ HandlersTyped'
           /\ handler[h] = Idle
           /\ handler'[h] = [request EXCEPT !.user = u]
           /\ \A g \in Handler \ {h} : handler'[g] = handler[g]
  <1> DEFINE m == [request EXCEPT !.user = u]
  <1>1. m \in Request
    BY DEF Request
  <1>2. handler' = [handler EXCEPT ![h] = m]
    BY DEF Begin
  <1>3. handler[h] = Idle
    BY DEF Begin, At, HandlersTyped, Remembers
  <1> QED BY <1>1, <1>2, <1>3, MoveTyped

-----------------------------------------------------------------------------
(* Type correctness, with what a request remembers, by its step.           *)
LEMMA InitTyped == Init => Typed
  BY IdleTyped, TeamAssumption DEF Init, Typed, TypeOK, HandlersTyped

(* The handler of a step of Continue, after it.                            *)
Moves(h) ==
    \/ /\ \E m \in Request : Remembers(m) /\ handler' = [handler EXCEPT ![h] = m]
       /\ UNCHANGED robot
    \/ Throw(h)

LEMMA MovesTyped ==
    ASSUME HandlersTyped, RobotTyped, NEW h \in Handler, Moves(h)
    PROVE  HandlersTyped' /\ RobotTyped'
  BY MoveTyped, ThrowMoves, RobotsUnchanged DEF Moves

LEMMA ContinueMoves ==
    ASSUME Typed, NEW h \in Handler, Continue(h)
    PROVE  Moves(h)
  <1> USE DEF Moves, At, Goto, Typed, HandlersTyped
  <1> DEFINE r == handler[h]
  <1>0. r \in Request /\ Remembers(r)
    OBVIOUS
  <1>i. Return(h) /\ UNCHANGED robot => Moves(h)
    BY IdleTyped DEF Return
  <1>b. r.expired \in BOOLEAN
    BY <1>0 DEF Request
  <1>1. CASE PutTufKey(h)
    <2> DEFINE m == IF r.key < KeyCount THEN [r EXCEPT !.key = @ + 1] ELSE [r EXCEPT !.at = "grant"]
    <2>1. handler' = [handler EXCEPT ![h] = m] /\ UNCHANGED robot
      BY <1>1 DEF PutTufKey
    <2>2. m \in Request /\ Remembers(m)
      BY <1>0, <1>1, TeamAssumption
         DEF PutTufKey, Request, Step, Remembers, TeamSteps, InCreation, InDeletion
    <2> QED BY <2>1, <2>2
  <1>2. CASE Grant(h)
    <2> DEFINE m == [r EXCEPT !.at = "insert"]
    <2>1. Throw(h) \/ (handler' = [handler EXCEPT ![h] = m] /\ UNCHANGED robot)
      BY <1>2 DEF Grant
    <2>2. m \in Request /\ Remembers(m)
      BY <1>0, <1>2 DEF Grant, Request, Step, Remembers, TeamSteps, InCreation, InDeletion
    <2> QED BY <2>1, <2>2
  <1>3. CASE CommitTeam(h)
    BY <1>3, <1>i DEF CommitTeam
  <1>5. CASE DeleteIdentity(h)
    BY <1>5, <1>i DEF DeleteIdentity
  <1>4. ASSUME NEW t \in Team, SelectTeam(h, t)
        PROVE  Moves(h)
    <2> DEFINE f == {x \in {"ecu", "certificate"} : IF x = "ecu" THEN t \in ecus ELSE t \in fleet}
               m == [r EXCEPT !.team = t, !.at = "remove", !.found = f]
    <2>1. Throw(h) \/ (handler' = [handler EXCEPT ![h] = m] /\ UNCHANGED robot)
      BY <1>4 DEF SelectTeam
    <2>2. f \subseteq {"ecu", "certificate"}
      OBVIOUS
    <2> HIDE DEF f
    <2>3. m \in Request
      BY <1>0, <2>2 DEF Request, Step
    <2>4. r.at \in {"delete", "next"}
      BY <1>4 DEF SelectTeam
    <2>5. Remembers(m)
      BY <1>0, <2>4 DEF Request, Remembers, TeamSteps, InCreation, InDeletion
    <2> QED BY <2>1, <2>3, <2>5
  <1>6. CASE DeleteRow(h)
    <2> DEFINE m == [r EXCEPT !.at = IF "ecu" \in r.found THEN "ecu_key" ELSE "trash_directory"]
    <2>1. handler' = [handler EXCEPT ![h] = m] /\ UNCHANGED robot
      BY <1>6 DEF DeleteRow
    <2>2. m \in Request /\ Remembers(m)
      BY <1>0, <1>6 DEF DeleteRow, Request, Step, Remembers, TeamSteps, InCreation, InDeletion
    <2> QED BY <2>1, <2>2
  <1>7. CASE DeleteEcuKey(h)
    <2> DEFINE m == [r EXCEPT !.at = "trash_directory"]
    <2>1. Throw(h) \/ (handler' = [handler EXCEPT ![h] = m] /\ UNCHANGED robot)
      BY <1>7 DEF DeleteEcuKey
    <2>2. m \in Request /\ Remembers(m)
      BY <1>0, <1>7 DEF DeleteEcuKey, Request, Step, Remembers, TeamSteps, InCreation, InDeletion
    <2> QED BY <2>1, <2>2
  <1>8. CASE PutInTrash(h)
    <2> DEFINE m(s) == [r EXCEPT !.at = s]
    <2>1. /\ \E s \in {"trash_certificate", "tuf_key"} : handler' = [handler EXCEPT ![h] = m(s)]
          /\ UNCHANGED robot
      BY <1>8 DEF PutInTrash
    <2>2. \A s \in {"trash_certificate", "tuf_key"} : m(s) \in Request /\ Remembers(m(s))
      BY <1>0, <1>8 DEF PutInTrash, Request, Step, Remembers, TeamSteps, InCreation, InDeletion
    <2> QED BY <2>1, <2>2
  <1>9. CASE DeleteTufKey(h)
    <2> DEFINE m == IF r.key < KeyCount THEN [r EXCEPT !.key = @ + 1]
                                        ELSE [r EXCEPT !.key = 1, !.at = "ungrant"]
    <2>1. Throw(h) \/ (handler' = [handler EXCEPT ![h] = m] /\ UNCHANGED robot)
      BY <1>9 DEF DeleteTufKey
    <2>2. r.at = "tuf_key" /\ r.key \in 1..KeyCount
      BY <1>0, <1>9 DEF DeleteTufKey, Request
    <2>3. CASE r.key < KeyCount
      <3>1. r.key + 1 \in 1..KeyCount
        BY <2>2, <2>3, TeamAssumption
      <3>2. m = [r EXCEPT !.key = r.key + 1]
        BY <2>3
      <3>3. m \in Request /\ Remembers(m)
        BY <1>0, <2>2, <3>1, <3>2
           DEF Request, Step, Remembers, TeamSteps, InCreation, InDeletion
      <3> QED BY <2>1, <3>3
    <2>4. CASE ~(r.key < KeyCount)
      <3>1. m = [r EXCEPT !.key = 1, !.at = "ungrant"]
        BY <2>4
      <3> DEFINE last == [r EXCEPT !.key = 1, !.at = "ungrant"]
      <3>2. 1 \in 1..KeyCount
        BY TeamAssumption
      <3>3. last \in Request /\ last.at = "ungrant" /\ last.key = 1
        BY <1>0, <3>2 DEF Request, Step, InDeletion
      <3>4. Remembers(last)
        BY <1>0, <2>2, <3>3 DEF Request, Remembers, TeamSteps, InCreation, InDeletion
      <3> QED BY <2>1, <3>1, <3>3, <3>4
    <2> QED BY <2>3, <2>4
  <1>10. CASE Ungrant(h)
    <2> DEFINE m == [r EXCEPT !.at = "commit"]
    <2>1. handler' = [handler EXCEPT ![h] = m] /\ UNCHANGED robot
      BY <1>10 DEF Ungrant
    <2>2. m \in Request /\ Remembers(m)
      BY <1>0, <1>10 DEF Ungrant, Request, Step, Remembers, TeamSteps, InCreation, InDeletion
    <2> QED BY <2>1, <2>2
  <1>11. CASE CommitDeletion(h)
    <2> DEFINE m == [r EXCEPT !.at = "next", !.team = NoTeam, !.found = {},
                              !.todo = r.todo \ {r.team}]
    <2>0. r.at = "commit"
      BY <1>11 DEF CommitDeletion
    <2>1. CASE r.expired
      BY <1>11, <2>1 DEF CommitDeletion
    <2>2. CASE r.expired = FALSE /\ r.kind = "team"
      BY <1>11, <1>i, <2>2 DEF CommitDeletion, Done
    <2>3. CASE r.expired = FALSE /\ r.kind # "team"
      <3>1. handler' = [handler EXCEPT ![h] = m] /\ UNCHANGED robot
        BY <1>11, <2>3 DEF CommitDeletion, Done
      <3>2. m \in Request /\ Remembers(m)
        BY <1>0, <2>0, <2>3
           DEF Request, Step, Remembers, TeamSteps, InCreation, InDeletion
      <3> QED BY <3>1, <3>2
    <2> QED BY <1>b, <2>1, <2>2, <2>3
  <1> QED BY <1>1, <1>2, <1>3, <1>4, <1>5, <1>6, <1>7, <1>8, <1>9, <1>10, <1>11 DEF Continue

(* The three requests.                                                     *)
LEMMA CreateTeamMoves ==
    ASSUME Typed, NEW h \in Handler, NEW u \in User, NEW t \in Team, CreateTeam(h, u, t)
    PROVE  /\ HandlersTyped' /\ handler[h] = Idle
           /\ handler'[h].kind = "create" /\ handler'[h].at = "put"
           /\ handler'[h].team = t /\ handler'[h].key = 1
           /\ handler'[h].user = u
           /\ \A g \in Handler \ {h} : handler'[g] = handler[g]
  <1> DEFINE q == [Idle EXCEPT !.kind = "create", !.at = "put", !.team = t]
             m == [q EXCEPT !.user = u]
  <1>1. q \in Request /\ Remembers(m)
    BY IdleTyped DEF Idle, Request, Step, Remembers, TeamSteps, InCreation, InDeletion
  <1>2. Begin(h, u, q) /\ HandlersTyped
    BY DEF CreateTeam, Typed
  <1>3. /\ HandlersTyped' /\ handler[h] = Idle /\ handler'[h] = m
        /\ \A g \in Handler \ {h} : handler'[g] = handler[g]
    BY <1>1, <1>2, BeginMoves
  <1> QED BY <1>3 DEF Idle

LEMMA DeleteTeamMoves ==
    ASSUME Typed, NEW h \in Handler, NEW u \in User, NEW t \in Team, DeleteTeam(h, u, t)
    PROVE  /\ HandlersTyped' /\ handler[h] = Idle
           /\ handler'[h].kind = "team" /\ handler'[h].at = "delete"
           /\ handler'[h].user = u
           /\ \A g \in Handler \ {h} : handler'[g] = handler[g]
  <1> DEFINE q == [Idle EXCEPT !.kind = "team", !.at = "delete", !.team = t]
             m == [q EXCEPT !.user = u]
  <1>1. q \in Request /\ Remembers(m)
    BY IdleTyped DEF Idle, Request, Step, Remembers, TeamSteps, InCreation, InDeletion
  <1>2. Begin(h, u, q) /\ HandlersTyped
    BY DEF DeleteTeam, Typed
  <1>3. /\ HandlersTyped' /\ handler[h] = Idle /\ handler'[h] = m
        /\ \A g \in Handler \ {h} : handler'[g] = handler[g]
    BY <1>1, <1>2, BeginMoves
  <1> QED BY <1>3 DEF Idle

LEMMA DeleteAccountMoves ==
    ASSUME Typed, NEW h \in Handler, NEW u \in User, DeleteAccount(h, u)
    PROVE  /\ HandlersTyped' /\ handler[h] = Idle
           /\ handler'[h].at = "next" /\ handler'[h].todo = {t \in Team : admins[t] = {u}}
           /\ handler'[h].user = u /\ handler'[h].kind = "account"
           /\ \A g \in Handler \ {h} : handler'[g] = handler[g]
  <1> DEFINE q == [Idle EXCEPT !.kind = "account", !.at = "next",
                                !.todo = {t \in Team : admins[t] = {u}}]
             m == [q EXCEPT !.user = u]
  <1>1. q \in Request /\ Remembers(m)
    BY IdleTyped DEF Idle, Request, Step, Remembers, TeamSteps, InCreation, InDeletion
  <1>2. Begin(h, u, q) /\ HandlersTyped
    BY DEF DeleteAccount, Typed
  <1>3. /\ HandlersTyped' /\ handler[h] = Idle /\ handler'[h] = m
        /\ \A g \in Handler \ {h} : handler'[g] = handler[g]
    BY <1>1, <1>2, BeginMoves
  <1> QED BY <1>3 DEF Idle

(* What a registration does to its own state.                              *)
Registers(t) == RegisterEcu(t) \/ PutEcuKey(t) \/ InsertEcu(t)

LEMMA RegistersMoves ==
    ASSUME Typed, NEW t \in Team, Registers(t)
    PROVE  /\ HandlersTyped' /\ RobotTyped'
           /\ \A g \in Handler : handler'[g] = Idle \/ handler'[g] = handler[g]
  <1>1. RobotTyped /\ HandlersTyped
    BY DEF Typed, TypeOK, RobotTyped
  <1>2. CASE EndProcess
    BY <1>1, <1>2, ProcessEnds
  <1>3. CASE ~EndProcess
    BY <1>1, <1>3
       DEF Registers, RegisterEcu, PutEcuKey, InsertEcu, RobotTyped, HandlersTyped
  <1> QED BY <1>2, <1>3

LEMMA StepTyped ==
    ASSUME Typed, [Next]_vars
    PROVE  Typed'
  <1> USE DEF Typed
  <1>0. RobotTyped
    BY DEF TypeOK, RobotTyped
  <1>1. ASSUME NEW h \in Handler, NEW u \in User,
               (\E t \in Team : CreateTeam(h, u, t) \/ DeleteTeam(h, u, t)) \/ DeleteAccount(h, u)
        PROVE  Typed'
    <2>1. HandlersTyped'
      BY <1>1, CreateTeamMoves, DeleteTeamMoves, DeleteAccountMoves
    <2>2. TypeOK'
      BY <1>1, <2>1
         DEF HandlersTyped, TypeOK, CreateTeam, DeleteTeam, DeleteAccount, Begin, stores, robot
    <2> QED BY <2>1, <2>2
  <1>2. ASSUME NEW h \in Handler, Continue(h)
        PROVE  Typed'
    <2>1. HandlersTyped' /\ RobotTyped'
      BY <1>0, <1>2, ContinueMoves, MovesTyped
    <2>r. handler[h] \in Request /\ Remembers(handler[h])
      BY DEF HandlersTyped
    <2>u. /\ (At(h, "put") \/ At(h, "insert") \/ At(h, "trash_directory")
                \/ At(h, "trash_certificate")) => handler[h].team \in Team
          /\ At(h, "remove") => handler[h].team \in Team
          /\ handler[h].at # "idle" => handler[h].user \in User
          /\ handler[h].key \in 1..KeyCount
      BY <2>r DEF Request, Remembers, At, TeamSteps, InCreation, InDeletion
    <2>2. TypeOK'
      <3> USE <2>1, <2>u DEF TypeOK, stores, HandlersTyped, RobotTyped
      <3>1. CASE PutTufKey(h) \/ Grant(h) \/ CommitTeam(h)
        BY <3>1 DEF PutTufKey, Grant, CommitTeam, TufKey, At
      <3>2. CASE DeleteIdentity(h)
        BY <3>2 DEF DeleteIdentity, At
      <3>3. ASSUME NEW t \in Team, SelectTeam(h, t)
            PROVE  TypeOK'
        BY <3>3 DEF SelectTeam
      <3>4. CASE DeleteRow(h) \/ DeleteEcuKey(h) \/ DeleteTufKey(h)
        BY <3>4 DEF DeleteRow, DeleteEcuKey, DeleteTufKey
      <3>5. CASE Ungrant(h) \/ CommitDeletion(h)
        BY <3>5 DEF Ungrant, CommitDeletion
      <3>6. CASE PutInTrash(h)
        BY <3>6 DEF PutInTrash, Trash
      <3> QED BY <1>2, <3>1, <3>2, <3>3, <3>4, <3>5, <3>6 DEF Continue
    <2> QED BY <2>1, <2>2
  <1>3. ASSUME NEW t \in Team, AddRobot(t)
        PROVE  Typed'
    BY <1>3 DEF AddRobot, TypeOK, HandlersTyped, robot
  <1>4. ASSUME NEW t \in Team, Registers(t)
        PROVE  Typed'
    <2>1. HandlersTyped' /\ RobotTyped'
      BY <1>4, RegistersMoves
    <2>2. TypeOK'
      <3> USE <2>1 DEF TypeOK, HandlersTyped, RobotTyped
      <3>1. CASE RegisterEcu(t)
        BY <3>1 DEF RegisterEcu, stores
      <3>2. CASE PutEcuKey(t)
        BY <3>2 DEF PutEcuKey
      <3>3. CASE InsertEcu(t)
        BY <3>3 DEF InsertEcu, EndProcess
      <3> QED BY <1>4, <3>1, <3>2, <3>3 DEF Registers
    <2> QED BY <2>1, <2>2
  <1>5. CASE Fail
    <2>1. HandlersTyped' /\ RobotTyped'
      BY <1>0, <1>5, ThrowMoves, ExpireMoves, ProcessEnds DEF Fail
    <2>2. failures' \in 0..MaxFailures
      BY <1>5, TeamAssumption DEF Fail, TypeOK
    <2> QED BY <1>5, <2>1, <2>2 DEF Fail, TypeOK, HandlersTyped, RobotTyped, stores
  <1>6. CASE UNCHANGED vars
    BY <1>6 DEF vars, stores, robot, TypeOK, HandlersTyped
  <1> QED BY <1>1, <1>2, <1>3, <1>4, <1>5, <1>6 DEF Next, Registers

-----------------------------------------------------------------------------
(* The teams.                                                              *)
LEMMA InitTeams == Init => TeamInv
  BY IdleDoes
     DEF Init, TeamInv, Sound, Creation, Deletion, EcusFound, Excused, Whole, Gone, Doing,
         InCreation, InDeletion

(* The database, the keys, the relations and the trash stay as they are,   *)
(* and no request is further than it was.                                  *)
Kept == UNCHANGED <<rows, ecus, tufKeys, ecuKeys, admins, trash, condemned>>

Stays(g) ==
    \/ handler'[g].at \notin Busy
    \/ /\ handler'[g].team = handler[g].team /\ handler'[g].at = handler[g].at
       /\ handler'[g].key = handler[g].key /\ handler'[g].found = handler[g].found
       /\ handler'[g].expired = TRUE \/ handler'[g].expired = handler[g].expired

LEMMA QuietStep ==
    ASSUME TeamInv, Kept, RobotsQuiet, \A g \in Handler : Stays(g)
    PROVE  TeamInv'
  <1> SUFFICES ASSUME NEW t \in Team
               PROVE  Sound(t)'
    BY DEF TeamInv
  <1>0. Creation(t) /\ Deletion(t) /\ Whole(t) /\ Gone(t)
    BY DEF TeamInv, Sound
  <1>1. ASSUME NEW g \in Handler, Doing(g, t, Busy)'
        PROVE  /\ handler'[g].team = handler[g].team /\ handler'[g].at = handler[g].at
               /\ handler'[g].key = handler[g].key /\ handler'[g].found = handler[g].found
               /\ handler'[g].expired = TRUE \/ handler'[g].expired = handler[g].expired
    BY <1>1 DEF Stays, Doing
  <1>2. Creation(t)'
    BY <1>0, <1>1 DEF Creation, CreatedSoFar, Doing, InCreation, Busy, Kept
  <1>3. ASSUME NEW g \in Handler
        PROVE  /\ Doing(g, t, {"remove"})' => (t \in rows \/ t \in condemned)'
               /\ Doing(g, t, InDeletion)' => DeletedSoFar(g, t)'
    BY <1>0, <1>1, <1>3 DEF Deletion, DeletedSoFar, Doing, InDeletion, Busy, Kept
  <1>4. ASSUME NEW g \in Handler
        PROVE  EcusFound(g, t)'
    <2>1. EcusFound(g, t) /\ (Excused(t) => Excused(t)')
      BY <1>0 DEF Deletion, RobotsQuiet
    <2>2. UNCHANGED <<rows, ecus, ecuKeys>>
      BY DEF Kept
    <2> QED BY <1>1, <2>1, <2>2 DEF EcusFound, Doing, InDeletion, Busy
  <1>5. Whole(t)' /\ Gone(t)'
    <2>1. (Excused(t) => Excused(t)') /\ (registration'[t] = "stored" => registration[t] = "stored")
      BY DEF RobotsQuiet
    <2> QED BY <1>0, <2>1 DEF Whole, Gone, Kept
  <1> QED BY <1>2, <1>3, <1>4, <1>5 DEF Sound, Deletion

LEMMA ThrowTeams ==
    ASSUME Typed, TeamInv, NEW h \in Handler, Throw(h), Kept
    PROVE  TeamInv'
  <1>1. HandlersTyped /\ RobotTyped
    BY DEF Typed, TypeOK, RobotTyped
  <1>2. RobotsQuiet /\ \A g \in Handler : handler'[g] = Idle \/ handler'[g] = handler[g]
    BY <1>1, ThrowMoves
  <1>3. \A g \in Handler : Stays(g)
    BY <1>2, IdleDoes DEF Stays, Busy, InCreation, InDeletion
  <1> QED BY <1>2, <1>3, QuietStep

(* A step of one request leaves the other teams alone.                     *)
SameTeam(t) ==
    /\ t \in rows' <=> t \in rows
    /\ t \in ecus' <=> t \in ecus
    /\ t \in condemned' <=> t \in condemned
    /\ t \in ecuKeys' <=> t \in ecuKeys
    /\ \A i \in 1..KeyCount : <<t, i>> \in tufKeys' <=> <<t, i>> \in tufKeys
    /\ admins'[t] = admins[t]
    /\ \A x \in {"directory", "certificate"} : <<x, t>> \in trash' <=> <<x, t>> \in trash
    /\ registration'[t] = registration[t]
    /\ t \in disturbed' <=> t \in disturbed

LEMMA OtherTeams ==
    ASSUME NEW t \in Team, NEW h \in Handler, Sound(t), SameTeam(t),
           \A g \in Handler \ {h} : handler'[g] = handler[g],
           \/ handler'[h].team # t
           \/ handler'[h].at \notin Busy
    PROVE  Sound(t)'
  <1>0. Creation(t) /\ Deletion(t) /\ Whole(t) /\ Gone(t)
    BY DEF Sound
  <1>1. Creation(t)'
    BY <1>0 DEF SameTeam, Creation, CreatedSoFar, Doing, Busy, InCreation
  <1>2. ASSUME NEW g \in Handler
        PROVE  /\ Doing(g, t, {"remove"})' => (t \in rows \/ t \in condemned)'
               /\ Doing(g, t, InDeletion)' => DeletedSoFar(g, t)'
    BY <1>0 DEF SameTeam, Deletion, DeletedSoFar, Doing, Busy
  <1>3. ASSUME NEW g \in Handler
        PROVE  EcusFound(g, t)'
    BY <1>0 DEF SameTeam, Deletion, EcusFound, Excused, Doing, Busy
  <1>4. Whole(t)'
    BY <1>0 DEF SameTeam, Whole, Excused
  <1>5. Gone(t)'
    BY <1>0 DEF SameTeam, Gone
  <1> QED BY <1>1, <1>2, <1>3, <1>4, <1>5 DEF Sound, Deletion

(* The request that creates a team is the only one that does, and nobody   *)
(* deletes the team.                                                       *)
LEMMA OneCreates ==
    ASSUME Typed, TeamInv, NEW h \in Handler, handler[h].at \in InCreation
    PROVE  /\ handler[h].team \in Team /\ handler[h].user \in User /\ handler[h].key \in 1..KeyCount
           /\ CreatedSoFar(h, handler[h].team)
           /\ \A g \in Handler \ {h} : ~Doing(g, handler[h].team, InCreation)
           /\ \A g \in Handler : ~Doing(g, handler[h].team, {"remove"} \cup InDeletion)
  <1>1. handler[h] \in Request /\ Remembers(handler[h])
    BY DEF Typed, HandlersTyped
  <1>2. /\ handler[h].team \in Team /\ handler[h].user \in User
        /\ handler[h].key \in 1..KeyCount
    BY <1>1 DEF Request, Remembers, TeamSteps, InCreation
  <1> DEFINE c == handler[h].team
  <1>3. Creation(c) /\ Deletion(c)
    BY <1>2 DEF TeamInv, Sound
  <1>4. CreatedSoFar(h, c)
    BY <1>3 DEF Creation, Doing
  <1>5. \A g \in Handler : ~Doing(g, c, {"remove"} \cup InDeletion)
    BY <1>3, <1>4 DEF Deletion, DeletedSoFar, CreatedSoFar, Doing
  <1> QED BY <1>2, <1>4, <1>5 DEF CreatedSoFar

(* A request that deletes a team: nobody creates it.                       *)
LEMMA Deletes ==
    ASSUME Typed, TeamInv, NEW h \in Handler, handler[h].at \in {"remove"} \cup InDeletion
    PROVE  /\ handler[h].team \in Team /\ handler[h].key \in 1..KeyCount
           /\ handler[h].expired \in BOOLEAN
           /\ handler[h].team \in rows \/ handler[h].team \in condemned
           /\ handler[h].at \in InDeletion => DeletedSoFar(h, handler[h].team)
           /\ EcusFound(h, handler[h].team)
           /\ \A g \in Handler : ~Doing(g, handler[h].team, InCreation)
  <1>1. handler[h] \in Request /\ Remembers(handler[h])
    BY DEF Typed, HandlersTyped
  <1>2. handler[h].team \in Team /\ handler[h].key \in 1..KeyCount /\ handler[h].expired \in BOOLEAN
    BY <1>1 DEF Request, Remembers, TeamSteps
  <1> DEFINE d == handler[h].team
  <1>3. Creation(d) /\ Deletion(d)
    BY <1>2 DEF TeamInv, Sound
  <1>4. /\ d \in rows \/ d \in condemned
        /\ handler[h].at \in InDeletion => DeletedSoFar(h, d)
        /\ EcusFound(h, d)
    BY <1>3 DEF Deletion, DeletedSoFar, Doing
  <1>5. \A g \in Handler : ~Doing(g, d, InCreation)
    BY <1>3, <1>4 DEF Creation, CreatedSoFar
  <1> QED BY <1>2, <1>4, <1>5

(* A step of a creation before its end.                                    *)
LEMMA CreationStep ==
    ASSUME Typed, TeamInv, NEW h \in Handler, NEW c \in Team,
           handler[h].at \in InCreation, handler[h].team = c,
           \A g \in Handler \ {h} : handler'[g] = handler[g],
           handler'[h].team = c, handler'[h].at \in InCreation,
           UNCHANGED <<rows, fleet, ecus, ecuKeys, trash, condemned, robot>>,
           \A t \in Team \ {c} : /\ admins'[t] = admins[t]
                                 /\ \A i \in 1..KeyCount :
                                        <<t, i>> \in tufKeys' <=> <<t, i>> \in tufKeys,
           CreatedSoFar(h, c)'
    PROVE  TeamInv'
  <1>1. /\ c \notin rows /\ c \notin condemned
        /\ \A g \in Handler : ~Doing(g, c, {"remove"} \cup InDeletion)
    BY OneCreates DEF CreatedSoFar
  <1>2. \A t \in Team : Sound(t)
    BY DEF TeamInv
  <1>3. ASSUME NEW t \in Team, t # c
        PROVE  Sound(t)'
    <2>1. SameTeam(t)
      BY <1>3 DEF SameTeam, robot
    <2> QED BY <1>2, <1>3, <2>1, OtherTeams
  <1>4. Creation(c)'
    <2>1. \A g \in Handler : Doing(g, c, InCreation)' => g = h
      BY DEF CreatedSoFar
    <2> QED BY <2>1 DEF Creation
  <1>5. \A g \in Handler : ~Doing(g, c, {"remove"} \cup InDeletion)'
    BY <1>1 DEF Doing, InCreation, InDeletion
  <1>6. Deletion(c)'
    BY <1>1, <1>5 DEF Deletion, EcusFound, Doing
  <1>7. Whole(c)' /\ Gone(c)'
    BY <1>1, <1>2 DEF Sound, Whole, Gone, Excused, robot
  <1> QED BY <1>3, <1>4, <1>6, <1>7 DEF TeamInv, Sound

LEMMA PutTufKeyTeams ==
    ASSUME Typed, TeamInv, NEW h \in Handler, PutTufKey(h)
    PROVE  TeamInv'
  <1>0. handler[h].at = "put" /\ handler[h].at \in InCreation
    BY DEF PutTufKey, At, InCreation
  <1>c. PICK c \in Team : c = handler[h].team
    BY <1>0, OneCreates
  <1>1. /\ handler[h].key \in 1..KeyCount /\ CreatedSoFar(h, c)
        /\ \A g \in Handler \ {h} : ~Doing(g, c, InCreation)
    BY <1>0, <1>c, OneCreates
  <1>2. /\ \A g \in Handler \ {h} : handler'[g] = handler[g]
        /\ handler'[h].team = c
        /\ \/ handler'[h].at = "put" /\ handler'[h].key = handler[h].key + 1
           \/ handler'[h].at = "grant" /\ handler[h].key = KeyCount
    <2>1. handler[h] \in Request /\ handler \in [Handler -> Request]
      BY DEF Typed, HandlersTyped
    <2>2. CASE handler[h].key < KeyCount
      <3>1. handler' = [handler EXCEPT ![h].key = @ + 1]
        BY <2>2 DEF PutTufKey
      <3> QED BY <1>0, <1>c, <2>1, <3>1 DEF Request
    <2>3. CASE ~(handler[h].key < KeyCount)
      <3>1. handler' = [handler EXCEPT ![h].at = "grant"]
        BY <2>3 DEF PutTufKey, Goto
      <3>2. handler[h].key = KeyCount
        BY <1>1, <2>3, TeamAssumption
      <3> QED BY <1>0, <1>c, <2>1, <3>1, <3>2 DEF Request
    <2> QED BY <2>2, <2>3
  <1>3. tufKeys' = tufKeys \cup {<<c, handler[h].key>>}
    BY <1>c DEF PutTufKey
  <1>4. UNCHANGED <<rows, fleet, ecus, ecuKeys, admins, trash, condemned, robot>>
    BY DEF PutTufKey
  <1>5. CreatedSoFar(h, c)'
    BY <1>0, <1>c, <1>1, <1>2, <1>3, <1>4, TeamAssumption DEF CreatedSoFar, Doing, InCreation
  <1> QED BY <1>0, <1>c, <1>2, <1>3, <1>4, <1>5, CreationStep DEF InCreation

LEMMA GrantTeams ==
    ASSUME Typed, TeamInv, NEW h \in Handler, Grant(h)
    PROVE  TeamInv'
  <1>t. CASE handler[h].expired
    BY <1>t, ThrowTeams DEF Grant, Kept
  <1>g. CASE ~handler[h].expired
    <2>0. handler[h].at = "grant" /\ handler[h].at \in InCreation
      BY DEF Grant, At, InCreation
    <2>c. PICK c \in Team : c = handler[h].team
      BY <2>0, OneCreates
    <2>1. /\ CreatedSoFar(h, c)
          /\ \A g \in Handler \ {h} : ~Doing(g, c, InCreation)
      BY <2>0, <2>c, OneCreates
    <2>2. /\ \A g \in Handler \ {h} : handler'[g] = handler[g]
          /\ handler'[h].team = c /\ handler'[h].at = "insert"
      BY <1>g, <2>c DEF Grant, Goto, Typed, HandlersTyped, Request
    <2>3. /\ admins'[c] # {} /\ \A t \in Team \ {c} : admins'[t] = admins[t]
      BY <1>g, <2>c DEF Grant, Typed, TypeOK
    <2>4. UNCHANGED <<rows, fleet, ecus, tufKeys, ecuKeys, trash, condemned, robot>>
      BY <1>g DEF Grant
    <2>5. CreatedSoFar(h, c)'
      BY <2>0, <2>c, <2>1, <2>2, <2>3, <2>4 DEF CreatedSoFar, Doing, InCreation
    <2> QED BY <2>0, <2>c, <2>2, <2>3, <2>4, <2>5, CreationStep DEF InCreation
  <1> QED BY <1>t, <1>g

LEMMA CommitTeamTeams ==
    ASSUME Typed, TeamInv, NEW h \in Handler, CommitTeam(h)
    PROVE  TeamInv'
  <1>t. CASE handler[h].expired
    BY <1>t, ThrowTeams DEF CommitTeam, Kept
  <1>g. CASE ~handler[h].expired
    <2>0. handler[h].at = "insert" /\ handler[h].at \in InCreation
      BY DEF CommitTeam, At, InCreation
    <2>c. PICK c \in Team : c = handler[h].team
      BY <2>0, OneCreates
    <2>1. /\ c \notin rows /\ c \notin condemned /\ admins[c] # {}
          /\ \A i \in 1..KeyCount : <<c, i>> \in tufKeys
          /\ \A g \in Handler \ {h} : ~Doing(g, c, InCreation)
          /\ \A g \in Handler : ~Doing(g, c, {"remove"} \cup InDeletion)
      BY <2>0, <2>c, OneCreates DEF CreatedSoFar, Doing
    <2>2. /\ \A g \in Handler \ {h} : handler'[g] = handler[g]
          /\ handler'[h].at = "idle" /\ handler'[h].at \notin Busy
          /\ rows' = rows \cup {c}
          /\ UNCHANGED <<fleet, ecus, tufKeys, ecuKeys, admins, trash, condemned, robot>>
      BY <1>g, <2>c, IdleDoes
         DEF CommitTeam, Return, Typed, HandlersTyped, Busy, InCreation, InDeletion
    <2>3. \A t \in Team : Sound(t)
      BY DEF TeamInv
    <2>4. ASSUME NEW t \in Team, t # c
          PROVE  Sound(t)'
      <3>1. SameTeam(t)
        BY <2>2, <2>4 DEF SameTeam, robot
      <3> QED BY <2>2, <2>3, <3>1, OtherTeams
    <2>5. \A g \in Handler : ~Doing(g, c, InCreation)' /\ ~Doing(g, c, {"remove"} \cup InDeletion)'
      BY <2>1, <2>2 DEF Doing, Busy
    <2>6. Creation(c)' /\ Deletion(c)'
      BY <2>2, <2>5 DEF Creation, Deletion, EcusFound, Doing
    <2>7. Whole(c)' /\ Gone(c)'
      <3>1. c \notin ecus
        BY <2>1 DEF Typed, TypeOK
      <3> QED BY <2>1, <2>2, <2>3, <3>1 DEF Sound, Whole, Gone, Excused, robot
    <2> QED BY <2>4, <2>6, <2>7 DEF TeamInv, Sound
  <1> QED BY <1>t, <1>g

(* A team that nobody else creates is created.                             *)
LEMMA CreateTeamTeams ==
    ASSUME Typed, TeamInv, NEW h \in Handler, NEW u \in User, NEW c \in Team,
           CreateTeam(h, u, c)
    PROVE  TeamInv'
  <1>1. /\ handler[h] = Idle
        /\ handler'[h].team = c /\ handler'[h].at = "put" /\ handler'[h].key = 1
        /\ \A g \in Handler \ {h} : handler'[g] = handler[g]
    BY CreateTeamMoves
  <1>2. /\ c \notin rows /\ c \notin condemned /\ admins[c] = {}
        /\ \A g \in Handler : handler[g].team # c
        /\ UNCHANGED <<stores, robot, condemned>>
    BY DEF CreateTeam, Fresh
  <1>3. \A t \in Team : Sound(t)
    BY DEF TeamInv
  <1>4. ASSUME NEW t \in Team, t # c
        PROVE  Sound(t)'
    <2>1. SameTeam(t)
      BY <1>2 DEF SameTeam, stores, robot
    <2> QED BY <1>1, <1>3, <1>4, <2>1, OtherTeams
  <1>5. Creation(c)'
    <2>1. ASSUME NEW g \in Handler, Doing(g, c, InCreation)'
          PROVE  g = h
      BY <1>1, <1>2, <2>1 DEF Doing
    <2>2. CreatedSoFar(h, c)'
      BY <1>1, <1>2, <2>1, TeamAssumption DEF CreatedSoFar, Doing, stores
    <2> QED BY <2>1, <2>2 DEF Creation
  <1>6. \A g \in Handler : ~Doing(g, c, {"remove"} \cup InDeletion)'
    BY <1>1, <1>2 DEF Doing, InDeletion
  <1>7. Deletion(c)'
    BY <1>6 DEF Deletion, EcusFound, Doing
  <1>8. UNCHANGED <<rows, ecus, tufKeys, ecuKeys, admins, trash, condemned,
                    registration, disturbed>>
    BY <1>2 DEF stores, robot
  <1>9. Whole(c)' /\ Gone(c)'
    BY <1>2, <1>3, <1>8 DEF Sound, Whole, Gone, Excused
  <1> QED BY <1>4, <1>5, <1>7, <1>9 DEF TeamInv, Sound

(* A step of a deletion before its end.                                    *)
LEMMA DeletionStep ==
    ASSUME Typed, TeamInv, NEW h \in Handler, NEW d \in Team,
           handler[h].at \in InDeletion, handler[h].team = d,
           \A g \in Handler \ {h} : handler'[g] = handler[g],
           handler'[h].team = d, handler'[h].at \in InDeletion,
           UNCHANGED <<rows, ecus, condemned, robot>>,
           tufKeys' \subseteq tufKeys, ecuKeys' \subseteq ecuKeys, trash \subseteq trash',
           admins'[d] = admins[d] \/ admins'[d] = {},
           \A t \in Team \ {d} :
               /\ admins'[t] = admins[t]
               /\ t \in ecuKeys' <=> t \in ecuKeys
               /\ \A i \in 1..KeyCount : <<t, i>> \in tufKeys' <=> <<t, i>> \in tufKeys
               /\ \A x \in {"directory", "certificate"} :
                      <<x, t>> \in trash' <=> <<x, t>> \in trash,
           DeletedSoFar(h, d)', EcusFound(h, d)'
    PROVE  TeamInv'
  <1>1. /\ d \in condemned
        /\ \A g \in Handler : ~Doing(g, d, InCreation)
    BY Deletes DEF DeletedSoFar
  <1>2. \A t \in Team : Sound(t)
    BY DEF TeamInv
  <1>3. ASSUME NEW t \in Team, t # d
        PROVE  Sound(t)'
    <2>1. SameTeam(t)
      BY <1>3 DEF SameTeam, robot
    <2> QED BY <1>2, <1>3, <2>1, OtherTeams
  <1>4. Creation(d)'
    BY <1>1 DEF Creation, Doing, InCreation, InDeletion
  <1>5. ASSUME NEW g \in Handler, g # h
        PROVE  /\ Doing(g, d, {"remove"})' => (d \in rows \/ d \in condemned)'
               /\ Doing(g, d, InDeletion)' => DeletedSoFar(g, d)'
               /\ EcusFound(g, d)'
    <2>1. /\ Doing(g, d, InDeletion) => DeletedSoFar(g, d)
          /\ EcusFound(g, d)
      BY <1>2 DEF Sound, Deletion
    <2>2. handler'[g] = handler[g]
      BY <1>5
    <2>3. Doing(g, d, InDeletion)' => DeletedSoFar(g, d)'
      BY <2>1, <2>2 DEF DeletedSoFar, Doing
    <2>4. EcusFound(g, d)'
      BY <2>1, <2>2 DEF EcusFound, Excused, Doing, robot
    <2> QED BY <1>1, <2>3, <2>4
  <1>6. Deletion(d)'
    <2>1. ~Doing(h, d, {"remove"})'
      BY DEF Doing, InDeletion
    <2> QED BY <1>5, <2>1 DEF Deletion
  <1>7. Whole(d)' /\ Gone(d)'
    BY <1>1, <1>2 DEF Sound, Whole, Gone, Excused, robot
  <1> QED BY <1>3, <1>4, <1>6, <1>7 DEF TeamInv, Sound

LEMMA DeleteEcuKeyTeams ==
    ASSUME Typed, TeamInv, NEW h \in Handler, DeleteEcuKey(h)
    PROVE  TeamInv'
  <1>0. handler[h].at = "ecu_key" /\ handler[h].at \in InDeletion
    BY DEF DeleteEcuKey, At, InDeletion
  <1>d. PICK d \in Team : d = handler[h].team
    BY <1>0, Deletes
  <1>t. CASE ~CanDelete(handler[h].team \in ecuKeys)
    BY <1>t, ThrowTeams DEF DeleteEcuKey, Kept
  <1>g. CASE CanDelete(handler[h].team \in ecuKeys)
    <2>1. /\ \A g \in Handler \ {h} : handler'[g] = handler[g]
          /\ handler'[h].team = d /\ handler'[h].at = "trash_directory"
      BY <1>g, <1>d DEF DeleteEcuKey, Goto, Typed, HandlersTyped, Request
    <2>2. /\ ecuKeys' = ecuKeys \ {d}
          /\ UNCHANGED <<rows, ecus, tufKeys, admins, trash, condemned, robot>>
      BY <1>g, <1>d DEF DeleteEcuKey
    <2>3. DeletedSoFar(h, d)
      BY <1>0, <1>d, Deletes
    <2>4. DeletedSoFar(h, d)' /\ EcusFound(h, d)'
      BY <2>1, <2>2, <2>3 DEF DeletedSoFar, EcusFound, Doing
    <2> QED BY <1>0, <1>d, <2>1, <2>2, <2>4, DeletionStep DEF InDeletion
  <1> QED BY <1>t, <1>g

(* The clause on the keys of ECUs goes from one step to the next.          *)
LEMMA EcusStillFound ==
    ASSUME NEW h \in Handler, NEW d \in Team, EcusFound(h, d), handler[h].team = d,
           handler[h].at \in InDeletion \ {"ecu_key"}, handler'[h].at \in InDeletion,
           handler'[h].expired = handler[h].expired,
           UNCHANGED <<rows, ecuKeys, robot>>
    PROVE  EcusFound(h, d)'
  <1>1. ~Doing(h, d, {"remove"})'
    BY DEF Doing, InDeletion
  <1>2. UNCHANGED <<registration, disturbed>>
    BY DEF robot
  <1> QED BY <1>1, <1>2 DEF EcusFound, Doing, Excused

LEMMA PutInTrashTeams ==
    ASSUME Typed, TeamInv, NEW h \in Handler, PutInTrash(h)
    PROVE  TeamInv'
  <1>0. handler[h].at \in {"trash_directory", "trash_certificate"} /\ handler[h].at \in InDeletion
    BY DEF PutInTrash, At, InDeletion
  <1>d. PICK d \in Team : d = handler[h].team
    BY <1>0, Deletes
  <1>r. handler[h] \in Request /\ Remembers(handler[h]) /\ handler \in [Handler -> Request]
    BY DEF Typed, HandlersTyped
  <1>1. /\ \A g \in Handler \ {h} : handler'[g] = handler[g]
        /\ handler'[h].team = d /\ handler'[h].key = 1
        /\ handler'[h].expired = handler[h].expired
        /\ \/ handler'[h].at = "trash_certificate" /\ handler[h].at = "trash_directory"
           \/ handler'[h].at = "tuf_key"
    <2>1. handler[h].key = 1
      BY <1>0, <1>r DEF Remembers, InCreation
    <2>2. \/ Goto(h, "tuf_key")
          \/ Goto(h, "trash_certificate") /\ handler[h].at = "trash_directory"
      BY DEF PutInTrash, At
    <2>3. ASSUME NEW s \in {"tuf_key", "trash_certificate"}, Goto(h, s)
          PROVE  /\ \A g \in Handler \ {h} : handler'[g] = handler[g]
                 /\ handler'[h] = [handler[h] EXCEPT !.at = s]
      BY <1>r, <2>3 DEF Goto
    <2> QED BY <1>d, <1>r, <2>1, <2>2, <2>3 DEF Request
  <1>2. /\ \E x \in {"directory", "certificate"} :
              /\ trash' = trash \cup {<<x, d>>}
              /\ handler[h].at = "trash_directory" => x = "directory"
        /\ UNCHANGED <<rows, ecus, tufKeys, ecuKeys, admins, condemned, robot>>
    BY <1>d DEF PutInTrash, At
  <1>3. DeletedSoFar(h, d) /\ EcusFound(h, d)
    BY <1>0, <1>d, Deletes
  <1>4. DeletedSoFar(h, d)'
    BY <1>0, <1>d, <1>1, <1>2, <1>3 DEF DeletedSoFar, Doing
  <1>5. handler[h].at \in InDeletion \ {"ecu_key"} /\ handler'[h].at \in InDeletion
    BY <1>0, <1>1 DEF InDeletion
  <1>6. EcusFound(h, d)'
    BY <1>d, <1>1, <1>2, <1>3, <1>5, EcusStillFound
  <1> QED BY <1>0, <1>d, <1>1, <1>2, <1>4, <1>5, <1>6, DeletionStep

LEMMA DeleteTufKeyTeams ==
    ASSUME Typed, TeamInv, NEW h \in Handler, DeleteTufKey(h)
    PROVE  TeamInv'
  <1>0. handler[h].at = "tuf_key" /\ handler[h].at \in InDeletion \ {"ecu_key"}
    BY DEF DeleteTufKey, At, InDeletion
  <1>d. PICK d \in Team : d = handler[h].team
    BY <1>0, Deletes
  <1>r. handler[h] \in Request /\ handler \in [Handler -> Request]
    BY DEF Typed, HandlersTyped
  <1> DEFINE k == <<handler[h].team, handler[h].key>>
  <1>t. CASE ~CanDelete(k \in tufKeys)
    BY <1>t, ThrowTeams DEF DeleteTufKey, Kept
  <1>g. CASE CanDelete(k \in tufKeys)
    <2>1. /\ \A g \in Handler \ {h} : handler'[g] = handler[g]
          /\ handler'[h].team = d /\ handler'[h].expired = handler[h].expired
          /\ \/ handler'[h].at = "tuf_key" /\ handler'[h].key = handler[h].key + 1
             \/ handler'[h].at = "ungrant" /\ handler[h].key = KeyCount
      <3>0. handler[h].key \in 1..KeyCount
        BY <1>r DEF Request
      <3>1. CASE handler[h].key < KeyCount
        <4>1. handler' = [handler EXCEPT ![h].key = @ + 1]
          BY <1>g, <3>1 DEF DeleteTufKey
        <4> QED BY <1>0, <1>d, <1>r, <4>1 DEF Request
      <3>2. CASE ~(handler[h].key < KeyCount)
        <4>1. handler' = [handler EXCEPT ![h].key = 1, ![h].at = "ungrant"]
          BY <1>g, <3>2 DEF DeleteTufKey
        <4>2. handler[h].key = KeyCount
          BY <3>0, <3>2, TeamAssumption
        <4> QED BY <1>d, <1>r, <4>1, <4>2 DEF Request
      <3> QED BY <3>1, <3>2
    <2>2. /\ tufKeys' = tufKeys \ {<<d, handler[h].key>>}
          /\ UNCHANGED <<rows, ecus, ecuKeys, admins, trash, condemned, robot>>
      BY <1>g, <1>d DEF DeleteTufKey
    <2>3. DeletedSoFar(h, d) /\ EcusFound(h, d) /\ handler[h].key \in 1..KeyCount
      BY <1>0, <1>d, Deletes
    <2>4. DeletedSoFar(h, d)'
      BY <1>0, <1>d, <2>1, <2>2, <2>3, TeamAssumption DEF DeletedSoFar, Doing
    <2>5. handler'[h].at \in InDeletion
      BY <2>1 DEF InDeletion
    <2>6. EcusFound(h, d)'
      BY <1>0, <1>d, <2>1, <2>2, <2>3, <2>5, EcusStillFound
    <2> QED BY <1>0, <1>d, <2>1, <2>2, <2>4, <2>5, <2>6, DeletionStep
  <1> QED BY <1>t, <1>g

LEMMA UngrantTeams ==
    ASSUME Typed, TeamInv, NEW h \in Handler, Ungrant(h)
    PROVE  TeamInv'
  <1>0. handler[h].at = "ungrant" /\ handler[h].at \in InDeletion \ {"ecu_key"}
    BY DEF Ungrant, At, InDeletion
  <1>d. PICK d \in Team : d = handler[h].team
    BY <1>0, Deletes
  <1>r. handler[h] \in Request /\ handler \in [Handler -> Request]
    BY DEF Typed, HandlersTyped
  <1>1. /\ \A g \in Handler \ {h} : handler'[g] = handler[g]
        /\ handler'[h].team = d /\ handler'[h].at = "commit"
        /\ handler'[h].expired = handler[h].expired
    BY <1>d, <1>r DEF Ungrant, Goto, Request
  <1>2. /\ admins'[d] = {} /\ \A t \in Team \ {d} : admins'[t] = admins[t]
        /\ UNCHANGED <<rows, ecus, tufKeys, ecuKeys, trash, condemned, robot>>
    BY <1>d DEF Ungrant, Typed, TypeOK
  <1>3. DeletedSoFar(h, d) /\ EcusFound(h, d)
    BY <1>0, <1>d, Deletes
  <1>4. DeletedSoFar(h, d)'
    BY <1>0, <1>d, <1>1, <1>2, <1>3 DEF DeletedSoFar, Doing
  <1>5. handler'[h].at \in InDeletion
    BY <1>1 DEF InDeletion
  <1>6. EcusFound(h, d)'
    BY <1>0, <1>d, <1>1, <1>2, <1>3, <1>5, EcusStillFound
  <1> QED BY <1>0, <1>d, <1>1, <1>2, <1>4, <1>5, <1>6, DeletionStep

(* The ECUs of a team are looked up.                                       *)
LEMMA SelectTeamTeams ==
    ASSUME Typed, TeamInv, NEW h \in Handler, NEW d \in Team, SelectTeam(h, d)
    PROVE  TeamInv'
  <1>t. CASE d \notin rows
    BY <1>t, ThrowTeams DEF SelectTeam, Kept, stores
  <1>g. CASE d \in rows
    <2>r. handler[h] \in Request /\ handler \in [Handler -> Request]
      BY DEF Typed, HandlersTyped
    <2>1. /\ \A g \in Handler \ {h} : handler'[g] = handler[g]
          /\ handler'[h].team = d /\ handler'[h].at = "remove"
          /\ d \in ecus => "ecu" \in handler'[h].found
      BY <1>g, <2>r DEF SelectTeam, Request
    <2>2. UNCHANGED <<rows, ecus, tufKeys, ecuKeys, admins, trash, condemned,
                      registration, disturbed>>
      BY <1>g DEF SelectTeam, stores, robot
    <2>3. \A t \in Team : Sound(t)
      BY DEF TeamInv
    <2>4. ASSUME NEW t \in Team, t # d
          PROVE  Sound(t)'
      <3>1. SameTeam(t)
        BY <2>2 DEF SameTeam
      <3> QED BY <2>1, <2>3, <2>4, <3>1, OtherTeams
    <2>5. \A g \in Handler : ~Doing(g, d, InCreation)
      BY <1>g, <2>3 DEF Sound, Creation, CreatedSoFar
    <2>6. Creation(d)'
      BY <2>1, <2>5 DEF Creation, Doing, InCreation
    <2>7. ASSUME NEW g \in Handler
          PROVE  /\ Doing(g, d, {"remove"})' => (d \in rows \/ d \in condemned)'
                 /\ Doing(g, d, InDeletion)' => DeletedSoFar(g, d)'
                 /\ EcusFound(g, d)'
      <3>1. CASE g = h
        BY <1>g, <2>1, <2>2, <3>1 DEF EcusFound, Doing, InDeletion
      <3>2. CASE g # h
        <4>1. handler'[g] = handler[g]
          BY <2>1, <3>2
        <4>2. Deletion(d)
          BY <2>3 DEF Sound
        <4> QED BY <1>g, <2>2, <4>1, <4>2 DEF Deletion, DeletedSoFar, EcusFound, Excused, Doing
      <3> QED BY <3>1, <3>2
    <2>8. Whole(d)' /\ Gone(d)'
      BY <2>2, <2>3 DEF Sound, Whole, Gone, Excused
    <2> QED BY <2>4, <2>6, <2>7, <2>8 DEF TeamInv, Sound, Deletion
  <1> QED BY <1>t, <1>g

(* The row is locked, and the team condemned.                              *)
LEMMA DeleteRowTeams ==
    ASSUME Typed, TeamInv, NEW h \in Handler, DeleteRow(h)
    PROVE  TeamInv'
  <1>0. handler[h].at = "remove"
    BY DEF DeleteRow, At
  <1>d. PICK d \in Team : d = handler[h].team
    BY <1>0, Deletes
  <1>r. handler[h] \in Request /\ handler \in [Handler -> Request]
    BY DEF Typed, HandlersTyped
  <1>1. /\ \A g \in Handler \ {h} : handler'[g] = handler[g]
        /\ handler'[h].team = d
        /\ handler'[h].at = IF "ecu" \in handler[h].found THEN "ecu_key" ELSE "trash_directory"
    BY <1>d, <1>r DEF DeleteRow, Goto, Request
  <1>2. /\ condemned' = condemned \cup {d}
        /\ UNCHANGED <<rows, ecus, tufKeys, ecuKeys, admins, trash, registration, disturbed>>
    BY <1>d DEF DeleteRow, stores, robot
  <1>3. \A t \in Team : Sound(t)
    BY DEF TeamInv
  <1>4. ASSUME NEW t \in Team, t # d
        PROVE  Sound(t)'
    <2>1. SameTeam(t)
      BY <1>2, <1>4 DEF SameTeam
    <2> QED BY <1>1, <1>3, <1>4, <2>1, OtherTeams
  <1>5. /\ d \in rows \/ d \in condemned
        /\ EcusFound(h, d)
        /\ \A g \in Handler : ~Doing(g, d, InCreation)
    BY <1>0, <1>d, Deletes
  <1>6. Creation(d)'
    BY <1>1, <1>5 DEF Creation, Doing, InCreation
  <1>7. ASSUME NEW g \in Handler
        PROVE  /\ Doing(g, d, {"remove"})' => (d \in rows \/ d \in condemned)'
               /\ Doing(g, d, InDeletion)' => DeletedSoFar(g, d)'
               /\ EcusFound(g, d)'
    <2>1. CASE g = h
      <3>1. DeletedSoFar(h, d)'
        BY <1>1, <1>2 DEF DeletedSoFar, Doing
      <3>2. ASSUME d \in rows, "ecu" \notin handler[h].found, d \in ecuKeys
            PROVE  Excused(d)
        BY <1>0, <1>d, <1>3, <1>5, <3>2 DEF Sound, Whole, EcusFound, Doing
      <3>3. Excused(d)' <=> Excused(d)
        BY <1>2 DEF Excused
      <3>4. EcusFound(h, d)'
        BY <1>1, <1>2, <3>2, <3>3 DEF EcusFound, Doing
      <3> QED BY <1>2, <2>1, <3>1, <3>4
    <2>2. CASE g # h
      <3>1. handler'[g] = handler[g]
        BY <1>1, <2>2
      <3>2. Deletion(d)
        BY <1>3 DEF Sound
      <3> QED BY <1>2, <3>1, <3>2 DEF Deletion, DeletedSoFar, EcusFound, Excused, Doing
    <2> QED BY <2>1, <2>2
  <1>8. Whole(d)' /\ Gone(d)'
    BY <1>2, <1>3, <1>5 DEF Sound, Whole, Gone, Excused
  <1> QED BY <1>4, <1>6, <1>7, <1>8 DEF TeamInv, Sound, Deletion

(* The row goes.                                                           *)
LEMMA CommitDeletionTeams ==
    ASSUME Typed, TeamInv, NEW h \in Handler, CommitDeletion(h)
    PROVE  TeamInv'
  <1>t. CASE handler[h].expired
    BY <1>t, ThrowTeams DEF CommitDeletion, Kept
  <1>g. CASE handler[h].expired = FALSE
    <2>0. handler[h].at = "commit" /\ handler[h].at \in InDeletion \ {"ecu_key"}
      BY DEF CommitDeletion, At, InDeletion
    <2>d. PICK d \in Team : d = handler[h].team
      BY <2>0, Deletes
    <2>r. handler[h] \in Request /\ handler \in [Handler -> Request]
      BY DEF Typed, HandlersTyped
    <2>1. /\ \A g \in Handler \ {h} : handler'[g] = handler[g]
          /\ handler'[h].at \in {"idle", "next"} /\ handler'[h].at \notin Busy
      BY <1>g, <2>r, IdleDoes
         DEF CommitDeletion, Done, Return, Request, Busy, InCreation, InDeletion
    <2>2. /\ rows' = rows \ {d} /\ ecus' = ecus \ {d}
          /\ UNCHANGED <<tufKeys, ecuKeys, admins, trash, condemned, registration, disturbed>>
      BY <1>g, <2>d DEF CommitDeletion, Done, robot
    <2>3. \A t \in Team : Sound(t)
      BY DEF TeamInv
    <2>4. ASSUME NEW t \in Team, t # d
          PROVE  Sound(t)'
      <3>1. SameTeam(t)
        BY <2>2, <2>4 DEF SameTeam
      <3> QED BY <2>1, <2>3, <3>1, OtherTeams
    <2>5. /\ DeletedSoFar(h, d) /\ EcusFound(h, d)
          /\ \A g \in Handler : ~Doing(g, d, InCreation)
      BY <2>0, <2>d, Deletes
    <2>6. Creation(d)'
      BY <2>1, <2>5 DEF Creation, Doing, Busy
    <2>7. ASSUME NEW g \in Handler
          PROVE  /\ Doing(g, d, {"remove"})' => (d \in rows \/ d \in condemned)'
                 /\ Doing(g, d, InDeletion)' => DeletedSoFar(g, d)'
                 /\ EcusFound(g, d)'
      <3>0. d \in condemned' /\ EcusFound(g, d)'
        BY <2>2, <2>5 DEF DeletedSoFar, EcusFound
      <3>1. CASE g = h
        BY <2>1, <3>0, <3>1 DEF Doing, Busy
      <3>2. CASE g # h
        <4>1. handler'[g] = handler[g]
          BY <2>1, <3>2
        <4>2. Deletion(d)
          BY <2>3 DEF Sound
        <4> QED BY <2>2, <3>0, <4>1, <4>2 DEF Deletion, DeletedSoFar, Doing
      <3> QED BY <3>1, <3>2
    <2>8. d \in ecuKeys => Excused(d)
      <3>1. CASE d \in rows
        BY <1>g, <2>0, <2>d, <2>5, <3>1 DEF EcusFound, Doing
      <3>2. CASE d \notin rows
        BY <2>3, <3>2 DEF Sound, Whole, Typed, TypeOK
      <3> QED BY <3>1, <3>2
    <2>9. Whole(d)' /\ Gone(d)'
      BY <2>0, <2>d, <2>2, <2>3, <2>5, <2>8 DEF Sound, Whole, Gone, Excused, DeletedSoFar, Doing
    <2> QED BY <2>4, <2>6, <2>7, <2>9 DEF TeamInv, Sound, Deletion
  <1>b. handler[h].expired \in BOOLEAN
    BY DEF Typed, HandlersTyped, Request
  <1> QED BY <1>t, <1>g, <1>b

(* The registration of an ECU.                                             *)
LEMMA PutEcuKeyTeams ==
    ASSUME Typed, TeamInv, NEW d \in Team, PutEcuKey(d)
    PROVE  TeamInv'
  <1>1. /\ ecuKeys' = ecuKeys \cup {d} /\ registration'[d] = "stored"
        /\ \A t \in Team \ {d} : registration'[t] = registration[t]
        /\ UNCHANGED <<rows, ecus, tufKeys, admins, trash, condemned, disturbed, handler>>
    BY DEF PutEcuKey, Typed, TypeOK
  <1> SUFFICES ASSUME NEW t \in Team
               PROVE  Sound(t)'
    BY DEF TeamInv
  <1>2. Creation(t) /\ Deletion(t) /\ Whole(t) /\ Gone(t)
    BY DEF TeamInv, Sound
  <1>3. Creation(t)' /\ Gone(t)'
    BY <1>1, <1>2 DEF Creation, CreatedSoFar, Gone, Doing
  <1>4. (Excused(t) => Excused(t)') /\ (t = d => Excused(t)')
    BY <1>1 DEF Excused
  <1>5. Deletion(t)'
    BY <1>1, <1>2, <1>4 DEF Deletion, DeletedSoFar, EcusFound, Doing
  <1>6. Whole(t)'
    BY <1>1, <1>2, <1>4 DEF Whole
  <1> QED BY <1>3, <1>5, <1>6 DEF Sound

LEMMA InsertEcuTeams ==
    ASSUME Typed, TeamInv, NEW d \in Team, InsertEcu(d)
    PROVE  TeamInv'
  <1>t. CASE d \notin fleet
    <2>1. HandlersTyped /\ RobotTyped /\ EndProcess
      BY <1>t DEF InsertEcu, Typed, TypeOK, RobotTyped
    <2>2. RobotsQuiet /\ \A g \in Handler : handler'[g] = Idle
      BY <2>1, ProcessEnds
    <2>3. \A g \in Handler : Stays(g)
      BY <2>2, IdleDoes DEF Stays, Busy, InCreation, InDeletion
    <2>4. Kept
      BY <1>t DEF InsertEcu, Kept
    <2> QED BY <2>2, <2>3, <2>4, QuietStep
  <1>g. CASE d \in fleet
    <2>1. /\ registration[d] = "stored" /\ ~Locked(d) /\ d \in rows
          /\ ecus' = ecus \cup {d}
          /\ registration'[d] = "none"
          /\ \A t \in Team \ {d} : /\ registration'[t] = registration[t]
                                   /\ t \in disturbed' <=> t \in disturbed
          /\ disturbed \subseteq disturbed'
          /\ (\E g \in Handler : Doing(g, d, {"remove"})) => d \in disturbed'
          /\ UNCHANGED <<rows, tufKeys, ecuKeys, admins, trash, condemned, handler>>
      BY <1>g DEF InsertEcu, Typed, TypeOK, Doing, At
    <2> SUFFICES ASSUME NEW t \in Team
                 PROVE  Sound(t)'
      BY DEF TeamInv
    <2>2. Creation(t) /\ Deletion(t) /\ Whole(t) /\ Gone(t)
      BY DEF TeamInv, Sound
    <2>3. Creation(t)' /\ Gone(t)'
      BY <2>1, <2>2 DEF Creation, CreatedSoFar, Gone, Doing
    <2>4. ASSUME NEW g \in Handler
          PROVE  /\ Doing(g, t, {"remove"})' => (t \in rows \/ t \in condemned)'
                 /\ Doing(g, t, InDeletion)' => DeletedSoFar(g, t)'
      BY <2>1, <2>2 DEF Deletion, DeletedSoFar, Doing
    <2>5. ASSUME NEW g \in Handler
          PROVE  EcusFound(g, t)'
      <3>1. CASE t # d
        BY <2>1, <2>2, <3>1 DEF Deletion, EcusFound, Excused, Doing
      <3>2. CASE t = d
        <4>1. Doing(g, d, InDeletion) => handler[g].expired # FALSE
          BY <2>1 DEF Locked, Doing
        <4>2. Doing(g, d, {"remove"}) => Excused(d)'
          BY <2>1 DEF Excused
        <4> QED BY <2>1, <3>2, <4>1, <4>2 DEF EcusFound, Doing
      <3> QED BY <3>1, <3>2
    <2>6. Whole(t)'
      BY <2>1, <2>2 DEF Whole, Excused
    <2> QED BY <2>3, <2>4, <2>5, <2>6 DEF Sound, Deletion
  <1> QED BY <1>t, <1>g

LEMMA RobotTeams ==
    ASSUME Typed, TeamInv, NEW t \in Team, AddRobot(t) \/ Registers(t)
    PROVE  TeamInv'
  <1>1. CASE AddRobot(t)
    <2>1. Kept /\ RobotsQuiet /\ \A g \in Handler : Stays(g)
      BY <1>1 DEF AddRobot, Kept, RobotsQuiet, Excused, Stays, robot
    <2> QED BY <2>1, QuietStep
  <1>2. CASE RegisterEcu(t)
    <2>1. Kept /\ RobotsQuiet /\ \A g \in Handler : Stays(g)
      BY <1>2 DEF RegisterEcu, Kept, RobotsQuiet, Excused, Stays, stores, Typed, TypeOK
    <2> QED BY <2>1, QuietStep
  <1> QED BY <1>1, <1>2, PutEcuKeyTeams, InsertEcuTeams DEF Registers

LEMMA StepTeams ==
    ASSUME Typed, TeamInv, [Next]_vars
    PROVE  TeamInv'
  <1>0. HandlersTyped /\ RobotTyped
    BY DEF Typed, TypeOK, RobotTyped
  <1>1. ASSUME NEW h \in Handler, NEW u \in User, NEW t \in Team, CreateTeam(h, u, t)
        PROVE  TeamInv'
    BY <1>1, CreateTeamTeams
  <1>2. ASSUME NEW h \in Handler, NEW u \in User,
               (\E t \in Team : DeleteTeam(h, u, t)) \/ DeleteAccount(h, u)
        PROVE  TeamInv'
    <2>1. /\ handler'[h].at \in {"delete", "next"}
          /\ \A g \in Handler \ {h} : handler'[g] = handler[g]
      BY <1>2, DeleteTeamMoves, DeleteAccountMoves
    <2>2. \A g \in Handler : Stays(g)
      BY <2>1 DEF Stays, Busy, InCreation, InDeletion
    <2>3. Kept /\ UNCHANGED robot
      BY <1>2 DEF DeleteTeam, DeleteAccount, Kept, stores
    <2> QED BY <1>0, <2>2, <2>3, RobotsUnchanged, QuietStep
  <1>3. ASSUME NEW h \in Handler, DeleteIdentity(h)
        PROVE  TeamInv'
    <2>1. /\ handler'[h].at = "idle"
          /\ \A g \in Handler \ {h} : handler'[g] = handler[g]
      BY <1>0, <1>3 DEF DeleteIdentity, Return, Idle, HandlersTyped
    <2>2. \A g \in Handler : Stays(g)
      BY <2>1 DEF Stays, Busy, InCreation, InDeletion
    <2>3. Kept /\ UNCHANGED robot
      BY <1>3 DEF DeleteIdentity, Kept
    <2> QED BY <1>0, <2>2, <2>3, RobotsUnchanged, QuietStep
  <1>4. ASSUME NEW h \in Handler, Continue(h)
        PROVE  TeamInv'
    BY <1>3, <1>4, PutTufKeyTeams, GrantTeams, CommitTeamTeams, SelectTeamTeams, DeleteRowTeams,
       DeleteEcuKeyTeams, PutInTrashTeams, DeleteTufKeyTeams, UngrantTeams, CommitDeletionTeams
       DEF Continue
  <1>5. ASSUME NEW t \in Team, AddRobot(t) \/ Registers(t)
        PROVE  TeamInv'
    BY <1>5, RobotTeams
  <1>6. CASE Fail
    <2>1. Kept
      BY <1>6 DEF Fail, Kept, stores
    <2>2. ASSUME NEW h \in Handler, Throw(h)
          PROVE  TeamInv'
      BY <2>1, <2>2, ThrowTeams
    <2>3. ASSUME NEW h \in Handler, Expire(h)
          PROVE  TeamInv'
      <3>1. /\ RobotsQuiet /\ handler'[h] = [handler[h] EXCEPT !.expired = TRUE]
            /\ \A g \in Handler \ {h} : handler'[g] = handler[g]
        BY <1>0, <2>3, ExpireMoves
      <3>2. handler[h] \in Request
        BY <1>0 DEF HandlersTyped
      <3>3. \A g \in Handler : Stays(g)
        BY <3>1, <3>2 DEF Stays, Request
      <3> QED BY <2>1, <3>1, <3>3, QuietStep
    <2>4. CASE EndProcess
      <3>1. RobotsQuiet /\ \A g \in Handler : handler'[g] = Idle
        BY <1>0, <2>4, ProcessEnds
      <3>2. \A g \in Handler : Stays(g)
        BY <3>1, IdleDoes DEF Stays, Busy, InCreation, InDeletion
      <3> QED BY <2>1, <3>1, <3>2, QuietStep
    <2> QED BY <1>6, <2>2, <2>3, <2>4 DEF Fail
  <1>7. CASE UNCHANGED vars
    <2>1. Kept /\ UNCHANGED robot /\ \A g \in Handler : Stays(g)
      BY <1>7 DEF vars, stores, Kept, Stays
    <2> QED BY <1>0, <2>1, RobotsUnchanged, QuietStep
  <1> QED BY <1>1, <1>2, <1>4, <1>5, <1>6, <1>7 DEF Next, Registers

-----------------------------------------------------------------------------
(* The users.                                                              *)
LEMMA InitUsers == Init => UserInv
  BY IdleDoes, TeamAssumption
     DEF Init, UserInv, UsersExist, OneAdmin, TeamsToDelete, AdminsExist

(* A step after which fewer requests are in progress, and that adds no     *)
(* admin and takes away no user.                                           *)
LEMMA QuietUsers ==
    ASSUME UserInv, identities \subseteq identities', crowded \subseteq crowded',
           \A t \in Team : admins'[t] \subseteq admins[t],
           \A g \in Handler : \/ /\ handler'[g].user = handler[g].user
                                 /\ handler'[g].kind = handler[g].kind
                                 /\ \A t \in handler[g].todo \ handler'[g].todo : admins'[t] = {}
                              \/ handler'[g].user = NoUser /\ handler'[g].kind # "account"
    PROVE  UserInv'
  <1>1. UsersExist'
    BY TeamAssumption DEF UserInv, UsersExist
  <1>2. OneAdmin'
    BY DEF UserInv, OneAdmin
  <1>3. TeamsToDelete'
    BY DEF UserInv, TeamsToDelete
  <1>4. AdminsExist'
    BY DEF UserInv, AdminsExist
  <1> QED BY <1>1, <1>2, <1>3, <1>4 DEF UserInv

(* A user makes a request.                                                 *)
LEMMA BeginUsers ==
    ASSUME HandlersTyped, UserInv, NEW h \in Handler, NEW u \in identities, u \in User,
           handler[h] = Idle, handler'[h].user = u,
           \A g \in Handler \ {h} : handler'[g] = handler[g],
           handler'[h].kind = "account" =>
               \A t \in Team : u \in admins[t] => t \in handler'[h].todo,
           crowded' = crowded \cup {v \in {u} : \E g \in Handler :
                         handler[g].user = u /\ "account" \in {handler'[h].kind, handler[g].kind}},
           UNCHANGED <<identities, admins>>
    PROVE  UserInv'
  <1>1. UsersExist'
    BY DEF UserInv, UsersExist
  <1>2. OneAdmin'
    BY DEF UserInv, OneAdmin
  <1>3. TeamsToDelete'
    BY DEF UserInv, TeamsToDelete
  <1>4. AdminsExist'
    BY DEF UserInv, AdminsExist
  <1> QED BY <1>1, <1>2, <1>3, <1>4 DEF UserInv

LEMMA ThrowUsers ==
    ASSUME Typed, UserInv, NEW h \in Handler, Throw(h),
           UNCHANGED <<identities, crowded, admins>>
    PROVE  UserInv'
  <1>1. \A g \in Handler : handler'[g] = Idle \/ handler'[g] = handler[g]
    BY ThrowMoves DEF Typed, TypeOK, RobotTyped
  <1> QED BY <1>1, IdleDoes, QuietUsers

(* The user becomes the first admin.                                       *)
LEMMA GrantUsers ==
    ASSUME Typed, TeamInv, UserInv, NEW h \in Handler, Grant(h)
    PROVE  UserInv'
  <1>t. CASE handler[h].expired
    BY <1>t, ThrowUsers DEF Grant
  <1>g. CASE ~handler[h].expired
    <2>0. handler[h].at = "grant" /\ handler[h].at \in InCreation
      BY DEF Grant, At, InCreation
    <2>c. PICK c \in Team : c = handler[h].team
      BY <2>0, OneCreates
    <2>u. PICK u \in User : u = handler[h].user
      BY <2>0, OneCreates
    <2>r. handler[h] \in Request /\ Remembers(handler[h]) /\ handler \in [Handler -> Request]
      BY DEF Typed, HandlersTyped
    <2>1. admins[c] = {}
      BY <2>0, <2>c, OneCreates DEF CreatedSoFar, Doing
    <2>2. /\ admins'[c] = {u}
          /\ \A t \in Team \ {c} : admins'[t] = admins[t]
          /\ UNCHANGED <<identities, crowded>>
      BY <1>g, <2>c, <2>u, <2>1 DEF Grant, Typed, TypeOK
    <2>3. /\ \A g \in Handler : /\ handler'[g].user = handler[g].user
                                /\ handler'[g].kind = handler[g].kind
                                /\ handler'[g].todo = handler[g].todo
          /\ handler[h].kind = "create"
      BY <1>g, <2>0, <2>r DEF Grant, Goto, Request, Remembers
    <2>4. /\ u \in identities \cup crowded
          /\ \A g \in Handler : handler[g].kind = "account" /\ handler[g].user = u => u \in crowded
      BY <2>u, <2>3 DEF UserInv, UsersExist
    <2>5. UsersExist'
      BY <2>2, <2>3 DEF UserInv, UsersExist
    <2>6. OneAdmin'
      BY <2>2 DEF UserInv, OneAdmin
    <2>7. TeamsToDelete'
      BY <2>2, <2>3, <2>4 DEF UserInv, TeamsToDelete
    <2>8. AdminsExist'
      BY <2>2, <2>4 DEF UserInv, AdminsExist
    <2> QED BY <2>5, <2>6, <2>7, <2>8 DEF UserInv
  <1> QED BY <1>t, <1>g

(* The user goes, an admin of no team unless another request is in progress.*)
LEMMA DeleteIdentityUsers ==
    ASSUME Typed, UserInv, NEW h \in Handler, DeleteIdentity(h)
    PROVE  UserInv'
  <1>r. handler[h] \in Request /\ Remembers(handler[h])
    BY DEF Typed, HandlersTyped
  <1>u. PICK u \in User : u = handler[h].user
    BY <1>r DEF DeleteIdentity, At, Remembers
  <1>1. /\ handler[h].kind = "account" /\ handler[h].todo = {}
        /\ identities' = identities \ {u}
        /\ UNCHANGED <<admins, crowded>>
    BY <1>r, <1>u DEF DeleteIdentity, At, Remembers, Request, InCreation, InDeletion
  <1>2. /\ handler'[h] = Idle
        /\ \A g \in Handler \ {h} : handler'[g] = handler[g]
    BY DEF DeleteIdentity, Return, Typed, HandlersTyped
  <1>3. u \notin crowded => \A g \in Handler \ {h} : handler[g].user # u
    BY <1>u, <1>1 DEF UserInv, UsersExist
  <1>4. u \notin crowded => \A t \in Team : u \notin admins[t]
    BY <1>u, <1>1 DEF UserInv, TeamsToDelete
  <1>5. UsersExist'
    BY <1>1, <1>2, <1>3, IdleDoes, TeamAssumption DEF UserInv, UsersExist
  <1>6. OneAdmin'
    BY <1>1 DEF UserInv, OneAdmin
  <1>7. TeamsToDelete'
    BY <1>1, <1>2, IdleDoes DEF UserInv, TeamsToDelete
  <1>8. AdminsExist'
    BY <1>1, <1>4 DEF UserInv, AdminsExist
  <1> QED BY <1>5, <1>6, <1>7, <1>8 DEF UserInv

(* The steps that neither grant nor take away a user.                      *)
LEMMA ContinueUsers ==
    ASSUME Typed, TeamInv, UserInv, NEW h \in Handler, Continue(h)
    PROVE  UserInv'
  <1>r. /\ handler[h] \in Request /\ Remembers(handler[h])
        /\ handler \in [Handler -> Request] /\ handler[h].expired \in BOOLEAN
    BY DEF Typed, HandlersTyped, Request
  <1>i. ASSUME Return(h), UNCHANGED <<identities, crowded, admins>>
        PROVE  UserInv'
    BY <1>i, <1>r, IdleDoes, QuietUsers DEF Return
  <1>t. ASSUME Throw(h), UNCHANGED <<identities, crowded, admins>>
        PROVE  UserInv'
    BY <1>t, ThrowUsers
  <1>q. ASSUME \A g \in Handler : /\ handler'[g].user = handler[g].user
                                  /\ handler'[g].kind = handler[g].kind
                                  /\ handler'[g].todo = handler[g].todo,
               UNCHANGED <<identities, crowded>>,
               \A t \in Team : admins'[t] \subseteq admins[t]
        PROVE  UserInv'
    BY <1>q, QuietUsers
  <1>g. ASSUME NEW s \in Step, Goto(h, s), UNCHANGED <<identities, crowded>>,
               \A t \in Team : admins'[t] \subseteq admins[t]
        PROVE  UserInv'
    <2>1. \A g \in Handler : /\ handler'[g].user = handler[g].user
                            /\ handler'[g].kind = handler[g].kind
                            /\ handler'[g].todo = handler[g].todo
      BY <1>g, <1>r DEF Goto, Request
    <2> QED BY <1>g, <1>q, <2>1
  <1>1. CASE PutTufKey(h)
    BY <1>1, <1>q, <1>r DEF PutTufKey, Goto, Request
  <1>2. CASE Grant(h)
    BY <1>2, GrantUsers
  <1>3. CASE CommitTeam(h)
    BY <1>3, <1>i, <1>t DEF CommitTeam
  <1>4. ASSUME NEW t \in Team, SelectTeam(h, t)
        PROVE  UserInv'
    BY <1>4, <1>t, <1>q, <1>r DEF SelectTeam, Request, stores
  <1>5. CASE DeleteIdentity(h)
    BY <1>5, DeleteIdentityUsers
  <1>6. CASE DeleteRow(h)
    BY <1>6, <1>q, <1>r DEF DeleteRow, Goto, Request, stores
  <1>7. CASE DeleteEcuKey(h)
    BY <1>7, <1>t, <1>q, <1>r DEF DeleteEcuKey, Goto, Request
  <1>8. CASE PutInTrash(h)
    <2>1. \E s \in Step : Goto(h, s)
      BY <1>8 DEF PutInTrash, Step, InDeletion
    <2>2. UNCHANGED <<identities, crowded, admins>>
      BY <1>8 DEF PutInTrash
    <2> QED BY <1>g, <2>1, <2>2
  <1>9. CASE DeleteTufKey(h)
    BY <1>9, <1>t, <1>q, <1>r DEF DeleteTufKey, Request
  <1>10. CASE Ungrant(h)
    <2>1. \A t \in Team : admins'[t] \subseteq admins[t]
      BY <1>10 DEF Ungrant, Typed, TypeOK
    <2>2. Goto(h, "commit") /\ "commit" \in Step /\ UNCHANGED <<identities, crowded>>
      BY <1>10 DEF Ungrant, Step, InDeletion
    <2> QED BY <1>g, <2>1, <2>2
  <1>11. CASE CommitDeletion(h)
    <2>0. handler[h].at = "commit" /\ handler[h].at \in InDeletion
      BY <1>11 DEF CommitDeletion, At, InDeletion
    <2>d. PICK d \in Team : d = handler[h].team
      BY <2>0, Deletes
    <2>1. admins[d] = {}
      BY <2>0, <2>d, Deletes DEF DeletedSoFar, Doing
    <2>t. CASE handler[h].expired
      BY <1>11, <1>t, <2>t DEF CommitDeletion
    <2>2. CASE handler[h].expired = FALSE /\ handler[h].kind = "team"
      BY <1>11, <1>i, <2>2 DEF CommitDeletion, Done
    <2>3. CASE handler[h].expired = FALSE /\ handler[h].kind # "team"
      <3>1. /\ handler'[h].user = handler[h].user /\ handler'[h].kind = handler[h].kind
            /\ handler'[h].todo = handler[h].todo \ {d}
            /\ \A g \in Handler \ {h} : handler'[g] = handler[g]
            /\ UNCHANGED <<identities, crowded, admins>>
        BY <1>11, <1>r, <2>d, <2>3 DEF CommitDeletion, Done, Request
      <3> QED BY <2>1, <3>1, QuietUsers
    <2> QED BY <1>r, <2>t, <2>2, <2>3
  <1> QED BY <1>1, <1>2, <1>3, <1>4, <1>5, <1>6, <1>7, <1>8, <1>9, <1>10, <1>11 DEF Continue

LEMMA StepUsers ==
    ASSUME Typed, TeamInv, UserInv, [Next]_vars
    PROVE  UserInv'
  <1>0. HandlersTyped
    BY DEF Typed
  <1>1. ASSUME NEW h \in Handler, NEW u \in User, NEW t \in Team,
               CreateTeam(h, u, t) \/ DeleteTeam(h, u, t)
        PROVE  UserInv'
    <2>1. /\ handler[h] = Idle /\ handler'[h].user = u /\ handler'[h].kind \in {"create", "team"}
          /\ \A g \in Handler \ {h} : handler'[g] = handler[g]
      BY <1>1, CreateTeamMoves, DeleteTeamMoves
    <2>0. \/ handler'[h].kind = "create" /\ CreateTeam(h, u, t)
          \/ handler'[h].kind = "team" /\ DeleteTeam(h, u, t)
      BY <1>1, CreateTeamMoves, DeleteTeamMoves
    <2>2. /\ u \in identities
          /\ crowded' = crowded \cup {v \in {u} : \E g \in Handler :
                handler[g].user = u /\ "account" \in {handler'[h].kind, handler[g].kind}}
          /\ UNCHANGED <<identities, admins>>
      BY <1>1, <2>0 DEF CreateTeam, DeleteTeam, Begin, stores
    <2> QED BY <1>0, <2>1, <2>2, BeginUsers
  <1>2. ASSUME NEW h \in Handler, NEW u \in User, DeleteAccount(h, u)
        PROVE  UserInv'
    <2>0. handler'[h].kind = "account"
      BY <1>2, DeleteAccountMoves
    <2>1. /\ handler[h] = Idle /\ handler'[h].user = u
          /\ handler'[h].todo = {t \in Team : admins[t] = {u}}
          /\ \A g \in Handler \ {h} : handler'[g] = handler[g]
      BY <1>2, DeleteAccountMoves
    <2>2. /\ u \in identities
          /\ crowded' = crowded \cup {v \in {u} : \E g \in Handler :
                handler[g].user = u /\ "account" \in {handler'[h].kind, handler[g].kind}}
          /\ UNCHANGED <<identities, admins>>
      BY <1>2, <2>0 DEF DeleteAccount, Begin, stores
    <2>3. ASSUME NEW t \in Team, u \in admins[t]
          PROVE  admins[t] = {u}
      BY <2>3 DEF UserInv, OneAdmin
    <2> QED BY <1>0, <2>1, <2>2, <2>3, BeginUsers
  <1>3. ASSUME NEW h \in Handler, Continue(h)
        PROVE  UserInv'
    BY <1>3, ContinueUsers
  <1>4. ASSUME NEW t \in Team, AddRobot(t) \/ Registers(t)
        PROVE  UserInv'
    <2>1. \A g \in Handler : handler'[g] = Idle \/ handler'[g] = handler[g]
      BY <1>4, RegistersMoves DEF AddRobot
    <2>2. UNCHANGED <<identities, crowded, admins>>
      BY <1>4 DEF AddRobot, Registers, RegisterEcu, PutEcuKey, InsertEcu, stores
    <2> QED BY <2>1, <2>2, IdleDoes, QuietUsers
  <1>5. CASE Fail
    <2>1. UNCHANGED <<identities, crowded, admins>>
      BY <1>5 DEF Fail, stores
    <2>2. ASSUME NEW h \in Handler, Throw(h)
          PROVE  UserInv'
      BY <2>1, <2>2, ThrowUsers
    <2>3. ASSUME NEW h \in Handler, Expire(h)
          PROVE  UserInv'
      <3>1. \A g \in Handler : /\ handler'[g].user = handler[g].user
                              /\ handler'[g].kind = handler[g].kind
                              /\ handler'[g].todo = handler[g].todo
        BY <1>0, <2>3 DEF Expire, HandlersTyped, Request
      <3> QED BY <2>1, <3>1, QuietUsers
    <2>4. CASE EndProcess
      BY <2>1, <2>4, IdleDoes, QuietUsers DEF EndProcess
    <2> QED BY <1>5, <2>2, <2>3, <2>4 DEF Fail
  <1>6. CASE UNCHANGED vars
    BY <1>6, QuietUsers DEF vars, stores
  <1> QED BY <1>1, <1>2, <1>3, <1>4, <1>5, <1>6 DEF Next, Registers

-----------------------------------------------------------------------------
Inv == Typed /\ TeamInv /\ UserInv

LEMMA Invariance == Spec => []Inv
  <1>1. Init => Inv
    BY InitTyped, InitTeams, InitUsers DEF Inv
  <1>2. Inv /\ [Next]_vars => Inv'
    BY StepTyped, StepTeams, StepUsers DEF Inv
  <1>3. Spec => Init /\ [][Next]_vars
    BY PTL DEF Spec
  <1> QED BY <1>1, <1>2, <1>3, PTL

(* The rows, keys, relations and requests are what they should be, and a   *)
(* robot is never left without its team (team/controller.ts).              *)
THEOREM TypeCorrect == Spec => []TypeOK
  <1>1. Inv => TypeOK
    BY DEF Inv, Typed
  <1> QED BY <1>1, Invariance, PTL

(* A deleted team leaves no key of its repositories and no admin behind,   *)
(* whatever failed, was repeated or ran at the same time: deleteTeamHelper *)
(* ends with its row.  The key of an ECU is left only by a registration    *)
(* that was cut off, or overtook the deletion.                             *)
THEOREM NothingLeft == Spec => []DeletedTeamLeavesNothing
  <1>1. ASSUME Inv, NEW t \in Team, t \in condemned, t \notin rows
        PROVE  /\ tufKeys \cap ({t} \X (1..KeyCount)) = {}
               /\ admins[t] = {} /\ <<"directory", t>> \in trash
               /\ t \in ecuKeys => t \in disturbed \/ registration[t] = "stored"
    <2>1. Gone(t) /\ Whole(t)
      BY <1>1 DEF Inv, TeamInv, Sound
    <2>2. \A k \in {t} \X (1..KeyCount) : k \notin tufKeys
      BY <1>1, <2>1 DEF Gone
    <2>3. t \notin ecus
      BY <1>1 DEF Inv, Typed, TypeOK
    <2> QED BY <1>1, <2>1, <2>2, <2>3 DEF Gone, Whole, Excused
  <1>2. Inv => DeletedTeamLeavesNothing
    BY <1>1 DEF DeletedTeamLeavesNothing, Inv, Typed, TypeOK
  <1> QED BY <1>2, Invariance, PTL

(* A team that nobody has begun to delete has all its keys and an admin,   *)
(* and nothing of it is in the trash: createTeam commits last.             *)
THEOREM TeamsStayWhole == Spec => []TeamsAreWhole
  <1>1. ASSUME Inv, NEW t \in Team, t \in rows, t \notin condemned
        PROVE  /\ {t} \X (1..KeyCount) \subseteq tufKeys
               /\ t \in ecus => t \in ecuKeys
               /\ admins[t] # {}
               /\ \A x \in trash : x[2] # t
    <2>1. Whole(t)
      BY <1>1 DEF Inv, TeamInv, Sound
    <2>2. \A k \in {t} \X (1..KeyCount) : k \in tufKeys
      BY <1>1, <2>1 DEF Whole
    <2>3. ASSUME NEW x \in trash, x[2] = t
          PROVE  FALSE
      <3>1. PICK f \in {"directory", "certificate"} : x = <<f, t>>
        BY <1>1, <2>3 DEF Inv, Typed, TypeOK, Trash
      <3> QED BY <1>1, <2>1, <2>3, <3>1 DEF Whole
    <2> QED BY <1>1, <2>1, <2>2, <2>3 DEF Whole
  <1>2. Inv => TeamsAreWhole
    BY <1>1 DEF TeamsAreWhole, Inv, Typed, TypeOK
  <1> QED BY <1>2, Invariance, PTL

(* An admin has an account, unless the user made another request while     *)
(* deleteAccount was at work.                                              *)
THEOREM AdminsStay == Spec => []AdminsExist
  <1>1. Inv => AdminsExist
    BY DEF Inv, UserInv
  <1> QED BY <1>1, Invariance, PTL
=============================================================================

--------------------------- MODULE Rollout_proofs ---------------------------
(***************************************************************************)
(* Safety of Rollout for any fleet, any number of rollouts, runs of the    *)
(* worker and restarts, with events handled in any order, and robots that  *)
(* are deleted and provisioned again.                                      *)
(*                                                                         *)
(* None of the properties is inductive: a run writes what it concluded     *)
(* from rows it read some steps ago.  The inductive invariant says what    *)
(* every run remembers at every point of its program (Remembers) and what  *)
(* the rows and the events say an ECU went through (Evidence); it is kept  *)
(* because the steps of the others only ever add to what it is about       *)
(* (Kept).                                                                 *)
(***************************************************************************)
EXTENDS Rollout, SequenceTheorems, WellFoundedInduction, TLAPS

(* A rollout whose images, robots and rows are fixed from now on.          *)
Launched(ro) == ro \in RolloutId /\ status[ro] \in {"launched", "completed"}

(* What a verdict on a robot claims about the life of its ECUs.            *)
Claim(ro, r, verdict) ==
    /\ verdict = "completed" =>
           \A e \in EcusOf(r) : row[ro][e] # "none" => ro \in device[e].done
    /\ verdict = "failed" => \E e \in EcusOf(r) : ro \in device[e].failed

(* An update a run of the worker is about to write.                        *)
Sound(u) ==
    /\ Launched(u.ro)
    /\ u.robot = {} => u.new = "completed"
    /\ \A r \in Robot : u.robot = {r} =>
           /\ u.new \in RobotStatus \ {"none"}
           /\ bot[u.ro][r] # "none"
           /\ Claim(u.ro, r, u.new)

(* What a run of the worker remembers was true when it read it, and stays  *)
(* true while it waits.                                                    *)
Remembers(m) ==
    /\ m.at \in {"rollouts", "robots", "schedule"} => \A ro \in m.queue : Launched(ro)
    /\ m.at \in {"robots", "schedule"} =>
           /\ Launched(m.ro)
           /\ \A r \in m.batch \cup m.cur : bot[m.ro][r] # "none"
           /\ \A r \in Robot : \A e \in m.affected[r] :
                  OwnerOf[e] = r /\ image[m.ro][HwidOf[e]] # NoImage
    /\ m.at # "schedule" => m.cur = {}
    /\ m.at = "statuses" => \A u \in m.todo : Sound(u)

WorkersRemember == \A w \in Worker : Remembers(worker[w])

(* What the database and the events say of an installation, the ECU has    *)
(* lived through.                                                          *)
Lived(ro, e, what) ==
    /\ what = "installation_completed" => ro \in device[e].done
    /\ what = "installation_failed" => ro \in device[e].failed

Evidence ==
    /\ \A ro \in RolloutId, e \in Ecu : Lived(ro, e, row[ro][e])
    /\ \A i \in 1..Len(events) : Lived(events[i].rollout, events[i].ecu, events[i].status)

DirectorInv ==
    /\ PublishedIsLaunched
    /\ \A r \in Robot : director[r].rollout = 0 => \A e \in Ecu : director[r].targets[e] = NoImage

(* An ECU only ever tries images of launched rollouts.                     *)
TriesLaunched ==
    \A e \in Ecu :
        /\ device[e].busy # 0 => Launched(device[e].busy)
        /\ \A ro \in device[e].done \cup device[e].failed : Launched(ro)

InstalledInv == InstalledWasTried /\ TriesLaunched

Inv ==
    /\ TypeOK /\ WorkersRemember /\ DirectorInv
    /\ VerdictIsReal /\ Evidence /\ InstalledInv

-----------------------------------------------------------------------------
(* Numbers and sequences.                                                  *)

(* A set of numbers has a least one.                                       *)
LEMMA MinExists ==
    ASSUME NEW S, S \subseteq Nat, S # {}
    PROVE  \E x \in S : \A y \in S : x <= y
  <1>1. IsWellFoundedOn(OpToRel(<, Nat), Nat)
    BY NatLessThanWellFounded
  <1>2. PICK x \in S : \A y \in S : <<y, x>> \notin OpToRel(<, Nat)
    BY <1>1, WFMin
  <1>3. ASSUME NEW y \in S
        PROVE  x <= y
    <2>1. x \in Nat /\ y \in Nat
      OBVIOUS
    <2>2. ~(y < x)
      BY <1>2, <2>1 DEF OpToRel
    <2> QED BY <2>1, <2>2
  <1> QED BY <1>3

(* The oldest rollout of a queue is one of it.                             *)
LEMMA FirstIn ==
    ASSUME NEW queue, queue \subseteq RolloutId, queue # {}
    PROVE  First(queue) \in queue
  <1>0. queue \subseteq Nat
    BY BoundsAssumption DEF RolloutId
  <1>1. \E x \in queue : \A y \in queue : x <= y
    BY <1>0, MinExists
  <1> QED BY <1>1 DEF First

(* A sequence without its i-th element.                                    *)
LEMMA RemoveAtProperties ==
    ASSUME NEW S, NEW s \in Seq(S), NEW i \in 1..Len(s)
    PROVE  /\ RemoveAt(s, i) \in Seq(S)
           /\ Len(RemoveAt(s, i)) = Len(s) - 1
           /\ \A k \in 1..(Len(s) - 1) : RemoveAt(s, i)[k] = IF k < i THEN s[k] ELSE s[k+1]
  <1> DEFINE a == SubSeq(s, 1, i - 1)
             b == SubSeq(s, i + 1, Len(s))
  <1>1. a \in Seq(S) /\ Len(a) = i - 1 /\ \A k \in 1..(i - 1) : a[k] = s[k]
    OBVIOUS
  <1>2. b \in Seq(S) /\ Len(b) = Len(s) - i /\ \A k \in 1..(Len(s) - i) : b[k] = s[k + i]
    <2>1. i \in Nat /\ Len(s) \in Nat /\ 1 <= i /\ i <= Len(s)
      OBVIOUS
    <2>2. b \in Seq(S)
      BY <2>1, SubSeqProperties
    <2>3. Len(b) = Len(s) - i
      BY <2>1, SubSeqProperties
    <2>4. \A k \in 1..(Len(s) - i) : b[k] = s[k + i]
      BY <2>1, SubSeqProperties
    <2> QED BY <2>2, <2>3, <2>4
  <1>3. RemoveAt(s, i) = a \o b
    BY DEF RemoveAt
  <1> HIDE DEF a, b
  <1>4. a \o b \in Seq(S) /\ Len(a \o b) = Len(s) - 1
    <2>1. Len(s) \in Nat /\ i \in Nat /\ 1 <= i /\ i <= Len(s)
      OBVIOUS
    <2>2. a \o b \in Seq(S) /\ Len(a \o b) = Len(a) + Len(b)
      BY <1>1, <1>2, ConcatProperties
    <2> QED BY <1>1, <1>2, <2>1, <2>2
  <1>5. ASSUME NEW k \in 1..(Len(s) - 1)
        PROVE  (a \o b)[k] = IF k < i THEN s[k] ELSE s[k+1]
    <2>1. CASE k < i
      BY <1>1, <1>2, <2>1
    <2>2. CASE ~(k < i)
      <3>1. (a \o b)[k] = b[k - (i - 1)]
        BY <1>1, <1>2, <2>2
      <3>2. k - (i - 1) \in 1..(Len(s) - i)
        BY <2>2
      <3> QED BY <1>2, <2>2, <3>1, <3>2
    <2> QED BY <2>1, <2>2
  <1> QED BY <1>3, <1>4, <1>5

-----------------------------------------------------------------------------
(* Types.                                                                  *)
LEMMA RestingTyped == Resting \in Memory /\ Resting.at = "idle"
  BY BoundsAssumption DEF Resting, Memory, RolloutId

LEMMA InitTyped == Init => TypeOK
  <1> SUFFICES ASSUME Init PROVE TypeOK
    OBVIOUS
  <1>1. worker \in [Worker -> Memory]
    BY RestingTyped DEF Init
  <1>2. device \in [Ecu -> Device]
    BY BoundsAssumption DEF Init, Device, MaybeImage, RolloutId
  <1>3. events \in Seq(Event)
    BY DEF Init
  <1>4. director \in [Robot -> [rollout: 0..MaxRollouts, targets: [Ecu -> MaybeImage]]]
    BY BoundsAssumption DEF Init, NoMetadata, NoTargets, MaybeImage
  <1>5. /\ status \in [RolloutId -> RolloutStatus]
        /\ image \in [RolloutId -> [Hwid -> MaybeImage]]
        /\ bot \in [RolloutId -> [Robot -> RobotStatus]]
        /\ row \in [RolloutId -> [Ecu -> EcuStatus]]
    BY DEF Init, RolloutStatus, RobotStatus, EcuStatus, MaybeImage
  <1>6. /\ robots \in SUBSET Robot
        /\ registered \in SUBSET Robot
        /\ installed \in [Ecu -> MaybeImage]
        /\ lost \in [RolloutId -> SUBSET Robot]
    BY DEF Init, MaybeImage, NoTargets
  <1>7. crashes \in 0..MaxCrashes
    BY BoundsAssumption DEF Init
  <1> QED BY <1>1, <1>2, <1>3, <1>4, <1>5, <1>6, <1>7 DEF TypeOK

LEMMA VerdictTyped ==
    ASSUME TypeOK, NEW ro \in RolloutId, NEW r \in Robot
    PROVE  RobotVerdict(ro, r) \in RobotStatus
  BY DEF RobotVerdict, TypeOK, RobotStatus

LEMMA UpdatesTyped ==
    ASSUME TypeOK, NEW ro \in RolloutId
    PROVE  /\ RolloutUpdate(ro) \in [ro: RolloutId, robot: SUBSET Robot,
                                     new: RobotStatus \cup RolloutStatus]
           /\ RobotUpdates(ro) \subseteq [ro: RolloutId, robot: SUBSET Robot,
                                          new: RobotStatus \cup RolloutStatus]
  BY VerdictTyped DEF RolloutUpdate, RobotUpdates, RolloutStatus

LEMMA RunTyped ==
    ASSUME TypeOK, WorkersRemember, NEW w \in Worker, Run(w)
    PROVE  TypeOK'
  <1> USE DEF TypeOK, db
  <1>w. worker[w] \in Memory /\ Remembers(worker[w])
    BY DEF WorkersRemember
  <1>m. ASSUME NEW mem \in Memory, InMemory(w, mem)
        PROVE  worker' \in [Worker -> Memory]
    BY <1>m DEF InMemory
  <1>r. ASSUME NEW mem \in Memory
        PROVE  Resume(mem) \in Memory
    BY <1>r DEF Resume, Memory
  <1>b. ASSUME NEW ro \in RolloutId, NEW r \in Robot, NEW new \in RobotStatus, SetBot(ro, r, new)
        PROVE  bot' \in [RolloutId -> [Robot -> RobotStatus]]
    BY <1>b DEF SetBot
  <1>1. CASE ListUnprocessed(w)
    <2> DEFINE mem == [Resting EXCEPT !.at = "rollouts",
                           !.queue = {ro \in RolloutId : status[ro] = "launched" /\ HasPending(ro)}]
    <2>1. mem \in Memory
      BY RestingTyped DEF Memory
    <2> QED BY <1>1, <1>m, <2>1 DEF ListUnprocessed
  <1>2. CASE ReadRolloutRobots(w)
    <2> DEFINE ro == First(worker[w].queue)
               mem == [worker[w] EXCEPT !.ro = ro, !.queue = @ \ {ro},
                             !.batch = {r \in Robot : bot[ro][r] = "pending"},
                             !.affected = [r \in Robot |-> Affected(ro, r)]]
    <2>1. ro \in RolloutId
      BY <1>2, <1>w, FirstIn DEF ReadRolloutRobots, Memory
    <2>2. [r \in Robot |-> Affected(ro, r)] \in [Robot -> SUBSET Ecu]
      BY DEF Affected, EcusOf
    <2>3. mem \in Memory
      <3>1. /\ First(worker[w].queue) \in 0..MaxRollouts
            /\ {r \in Robot : bot[ro][r] = "pending"} \subseteq Robot
        BY <2>1, BoundsAssumption DEF RolloutId
      <3> HIDE DEF ro
      <3>2. ro \in 0..MaxRollouts
        BY <3>1 DEF ro
      <3> QED BY <1>w, <2>2, <3>2 DEF Memory
    <2> QED BY <1>2, <1>m, <1>r, <2>3 DEF ReadRolloutRobots
  <1>3. ASSUME NEW r \in Robot, SkipRobot(w, r)
        PROVE  TypeOK'
    <2>1. [worker[w] EXCEPT !.batch = @ \ {r}] \in Memory
      BY <1>w DEF Memory
    <2>2. bot' \in [RolloutId -> [Robot -> RobotStatus]]
      BY <1>3, <1>w, <1>b DEF SkipRobot, Remembers, Launched, RobotStatus
    <2> QED BY <1>3, <1>m, <1>r, <2>1, <2>2 DEF SkipRobot
  <1>4. ASSUME NEW r \in Robot, PublishTargets(w, r)
        PROVE  TypeOK'
    <2>1. [worker[w] EXCEPT !.at = "schedule", !.batch = @ \ {r}, !.cur = {r}] \in Memory
      BY <1>w DEF Memory
    <2>2. director' \in [Robot -> [rollout: 0..MaxRollouts, targets: [Ecu -> MaybeImage]]]
      BY <1>4, <1>w DEF PublishTargets, TargetsFor, Memory
    <2> QED BY <1>4, <1>m, <2>1, <2>2 DEF PublishTargets
  <1>5. CASE AbortRun(w)
    BY <1>5, <1>m, RestingTyped DEF AbortRun
  <1>6. CASE ScheduleRobot(w)
    <2>1. [worker[w] EXCEPT !.cur = {}] \in Memory
      BY <1>w DEF Memory
    <2>2. worker[w].ro \in RolloutId /\ worker[w].cur \subseteq Robot
      BY <1>6, <1>w DEF ScheduleRobot, Remembers, Launched, Memory
    <2>3. bot' \in [RolloutId -> [Robot -> RobotStatus]]
      BY <1>6, <1>b, <2>2 DEF ScheduleRobot, RobotStatus
    <2> QED BY <1>6, <1>m, <1>r, <2>1, <2>3 DEF ScheduleRobot
  <1>7. CASE ListOngoing(w)
    <2> DEFINE ongoing == {ro \in RolloutId : status[ro] = "launched"}
               todo == {RolloutUpdate(ro) : ro \in {p \in ongoing : AllDone(p)}}
                         \cup UNION {RobotUpdates(ro) : ro \in {p \in ongoing : ~AllDone(p)}}
    <2>1. todo \subseteq [ro: RolloutId, robot: SUBSET Robot,
                          new: RobotStatus \cup RolloutStatus]
      BY UpdatesTyped
    <2>2. InMemory(w, IF todo = {} THEN Resting
                      ELSE [Resting EXCEPT !.at = "statuses", !.todo = todo])
      BY <1>7 DEF ListOngoing
    <2> HIDE DEF todo
    <2>3. [Resting EXCEPT !.at = "statuses", !.todo = todo] \in Memory
      BY <2>1, RestingTyped DEF Memory
    <2>4. worker' \in [Worker -> Memory]
      BY <2>2, <2>3, <1>m, RestingTyped
    <2> QED BY <1>7, <2>4 DEF ListOngoing
  <1>8. CASE CompleteRollout(w)
    <2>1. PICK u \in worker[w].todo :
              /\ u.robot = {} /\ WriteStatus(w, u)
              /\ status' = [status EXCEPT ![u.ro] = u.new] /\ UNCHANGED bot
      BY <1>8 DEF CompleteRollout
    <2>2. Sound(u) /\ u.ro \in RolloutId
      BY <1>w, <2>1 DEF WriteStatus, Remembers, Memory
    <2>3. [worker[w] EXCEPT !.todo = @ \ {u}] \in Memory
      BY <1>w DEF Memory
    <2>4. worker' \in [Worker -> Memory]
      BY <1>m, <2>1, <2>3, RestingTyped DEF WriteStatus
    <2>5. status' \in [RolloutId -> RolloutStatus]
      BY <2>1, <2>2 DEF Sound, RolloutStatus
    <2> QED BY <2>1, <2>4, <2>5 DEF WriteStatus
  <1>9. CASE UpdateRobot(w)
    <2>1. PICK u \in worker[w].todo, r \in Robot :
              /\ u.robot = {r} /\ WriteStatus(w, u) /\ SetBot(u.ro, r, u.new) /\ UNCHANGED status
      BY <1>9 DEF UpdateRobot
    <2>2. Sound(u) /\ u.ro \in RolloutId
      BY <1>w, <2>1 DEF WriteStatus, Remembers, Memory
    <2>3. [worker[w] EXCEPT !.todo = @ \ {u}] \in Memory
      BY <1>w DEF Memory
    <2>4. worker' \in [Worker -> Memory]
      BY <1>m, <2>1, <2>3, RestingTyped DEF WriteStatus
    <2>5. bot' \in [RolloutId -> [Robot -> RobotStatus]]
      BY <1>b, <2>1, <2>2 DEF Sound
    <2> QED BY <2>1, <2>4, <2>5 DEF WriteStatus
  <1> QED BY <1>1, <1>2, <1>3, <1>4, <1>5, <1>6, <1>7, <1>8, <1>9 DEF Run

LEMMA RestartTyped == ASSUME TypeOK, Restart PROVE TypeOK'
  <1>1. worker' \in [Worker -> Memory] /\ events' \in Seq(Event)
    BY RestingTyped DEF Restart
  <1> QED BY <1>1, BoundsAssumption DEF Restart, TypeOK, db

(* What an ECU has lived through when it has finished with an image.       *)
LEMMA Finished ==
    ASSUME TypeOK, NEW e \in Ecu, NEW what \in Reported, FinishUpdate(e, what)
    PROVE  LET ro == device[e].busy
               well == what = "installation_completed"
           IN  /\ device'[e] = [runs |-> IF well THEN device[e].gets ELSE device[e].runs,
                                busy |-> 0, gets |-> NoImage, tried |-> device[e].tried,
                                done |-> device[e].done \cup (IF well THEN {ro} ELSE {}),
                                failed |-> device[e].failed \cup
                                   (IF what = "installation_failed" THEN {ro} ELSE {})]
               /\ device' = [device EXCEPT ![e] = device'[e]]
  <1> DEFINE ro == device[e].busy
             well == what = "installation_completed"
             runs == IF well THEN device[e].gets ELSE device[e].runs
             done == device[e].done \cup (IF well THEN {ro} ELSE {})
             failed == device[e].failed \cup (IF what = "installation_failed" THEN {ro} ELSE {})
  <1>1. device[e] \in Device /\ device \in [Ecu -> Device]
    BY DEF TypeOK
  <1>2. device' = [device EXCEPT ![e].busy = 0, ![e].gets = NoImage, ![e].runs = runs,
                                 ![e].done = done, ![e].failed = failed]
    BY <1>1 DEF FinishUpdate, Device
  <1> HIDE DEF runs, done, failed
  <1>3. device'[e] = [runs |-> runs, busy |-> 0, gets |-> NoImage, tried |-> device[e].tried,
                      done |-> done, failed |-> failed]
    BY <1>1, <1>2 DEF Device
  <1>4. device' = [device EXCEPT ![e] = device'[e]]
    BY <1>1, <1>2
  <1> QED BY <1>3, <1>4 DEF runs, done, failed

LEMMA FinishedHistory ==
    ASSUME TypeOK, NEW e \in Ecu, NEW what \in Reported, FinishUpdate(e, what)
    PROVE  LET ro == device[e].busy
               well == what = "installation_completed"
           IN  /\ device'[e].runs = IF well THEN device[e].gets ELSE device[e].runs
               /\ device'[e].busy = 0
               /\ device'[e].tried = device[e].tried
               /\ device'[e].done = device[e].done \cup (IF well THEN {ro} ELSE {})
               /\ device'[e].failed = device[e].failed \cup
                      (IF what = "installation_failed" THEN {ro} ELSE {})
               /\ \A f \in Ecu \ {e} : device'[f] = device[f]
  <1> DEFINE ro == device[e].busy
             well == what = "installation_completed"
             runs == IF well THEN device[e].gets ELSE device[e].runs
             done == device[e].done \cup (IF well THEN {ro} ELSE {})
             failed == device[e].failed \cup (IF what = "installation_failed" THEN {ro} ELSE {})
  <1>1. /\ device'[e] = [runs |-> runs, busy |-> 0, gets |-> NoImage,
                         tried |-> device[e].tried, done |-> done, failed |-> failed]
        /\ device' = [device EXCEPT ![e] = device'[e]]
    BY Finished
  <1> HIDE DEF runs, done, failed
  <1>2. /\ device'[e].runs = runs /\ device'[e].busy = 0
        /\ device'[e].tried = device[e].tried
        /\ device'[e].done = done /\ device'[e].failed = failed
    BY <1>1
  <1>3. \A f \in Ecu \ {e} : device'[f] = device[f]
    BY <1>1 DEF TypeOK
  <1> QED BY <1>2, <1>3 DEF runs, done, failed

LEMMA StepTyped ==
    ASSUME TypeOK, WorkersRemember, DirectorInv, [Next]_vars
    PROVE  TypeOK'
  <1> USE DEF TypeOK
  <1>1. ASSUME NEW ro \in RolloutId, NEW map \in ImageMaps, NEW bots \in SUBSET robots,
               CreateRollout(ro, map, bots)
        PROVE  TypeOK'
    BY <1>1, FleetAssumption DEF CreateRollout, RolloutStatus, RobotStatus, EcuStatus
  <1>2. ASSUME NEW ro \in RolloutId, LaunchRollout(ro)
        PROVE  TypeOK'
    BY <1>2 DEF LaunchRollout, RolloutStatus
  <1>3. ASSUME NEW r \in Robot, DeleteRobot(r) \/ ProvisionRobot(r) \/ RegisterEcus(r)
        PROVE  TypeOK'
    <2>1. NoMetadata \in [rollout: 0..MaxRollouts, targets: [Ecu -> MaybeImage]]
      BY BoundsAssumption DEF NoMetadata, NoTargets, MaybeImage
    <2>2. CASE DeleteRobot(r)
      <3>1. /\ lost' \in [RolloutId -> SUBSET Robot]
            /\ robots' \in SUBSET Robot /\ registered' \in SUBSET Robot
        BY <2>2 DEF DeleteRobot
      <3>2. installed' \in [Ecu -> MaybeImage]
        BY <2>2 DEF DeleteRobot, MaybeImage
      <3>3. director' \in [Robot -> [rollout: 0..MaxRollouts, targets: [Ecu -> MaybeImage]]]
        BY <2>1, <2>2 DEF DeleteRobot
      <3> QED BY <2>2, <3>1, <3>2, <3>3 DEF DeleteRobot
    <2>3. CASE ProvisionRobot(r)
      BY <2>3 DEF ProvisionRobot
    <2>4. CASE RegisterEcus(r)
      <3>1. director' \in [Robot -> [rollout: 0..MaxRollouts, targets: [Ecu -> MaybeImage]]]
        BY <2>1, <2>4 DEF RegisterEcus
      <3> QED BY <2>4, <3>1 DEF RegisterEcus
    <2> QED BY <1>3, <2>2, <2>3, <2>4
  <1>4. ASSUME NEW i \in 1..Len(events), HandleEcuEvent(i)
        PROVE  TypeOK'
    <2>1. events[i] \in Event
      BY DEF TypeOK
    <2>2. events' \in Seq(Event)
      BY <1>4, RemoveAtProperties DEF HandleEcuEvent
    <2>3. row' \in [RolloutId -> [Ecu -> EcuStatus]]
      BY <1>4, <2>1 DEF HandleEcuEvent, Event, EcuStatus
    <2>4. installed' \in [Ecu -> MaybeImage]
      BY <1>4, <2>1, FleetAssumption DEF HandleEcuEvent, Event
    <2> QED BY <1>4, <2>2, <2>3, <2>4 DEF HandleEcuEvent
  <1>5. ASSUME NEW e \in Ecu, StartUpdate(e)
        PROVE  TypeOK'
    <2> DEFINE d == director[OwnerOf[e]]
    <2>1. OwnerOf[e] \in Robot /\ d \in [rollout: 0..MaxRollouts, targets: [Ecu -> MaybeImage]]
      BY FleetAssumption
    <2>2. d.rollout \in RolloutId
      BY <1>5, <2>1, BoundsAssumption DEF StartUpdate, DirectorInv, RolloutId
    <2>3. [rollout |-> d.rollout, ecu |-> e, status |-> "download_started"] \in Event
      BY <2>2 DEF Event, Reported
    <2>4. events' \in Seq(Event)
      BY <1>5, <2>3, AppendProperties DEF StartUpdate, Emit
    <2>5. device' \in [Ecu -> Device]
      BY <1>5, <2>1, <2>2, BoundsAssumption DEF StartUpdate, Device, RolloutId
    <2> QED BY <1>5, <2>4, <2>5 DEF StartUpdate, db
  <1>6. ASSUME NEW e \in Ecu, NEW what \in Reported, FinishUpdate(e, what)
        PROVE  TypeOK'
    <2>1. device[e].busy \in RolloutId
      BY <1>6, BoundsAssumption DEF FinishUpdate, Device, RolloutId
    <2>2. [rollout |-> device[e].busy, ecu |-> e, status |-> what] \in Event
      BY <2>1 DEF Event
    <2>3. events' \in Seq(Event)
      <3>1. Emit(e, device[e].busy, what) \/ UNCHANGED events
        BY <1>6 DEF FinishUpdate
      <3>2. CASE Emit(e, device[e].busy, what)
        BY <2>2, <3>2, AppendProperties DEF Emit
      <3>3. CASE UNCHANGED events
        BY <3>3
      <3> QED BY <3>1, <3>2, <3>3
    <2>4. device'[e] \in Device
      <3>1. /\ device[e].gets \in MaybeImage /\ NoImage \in MaybeImage
            /\ 0 \in 0..MaxRollouts
        BY BoundsAssumption DEF Device, MaybeImage
      <3> DEFINE well == what = "installation_completed"
                 runs == IF well THEN device[e].gets ELSE device[e].runs
                 done == device[e].done \cup (IF well THEN {device[e].busy} ELSE {})
                 failed == device[e].failed \cup
                              (IF what = "installation_failed" THEN {device[e].busy} ELSE {})
      <3>2. /\ runs \in MaybeImage /\ device[e].tried \in SUBSET RolloutId
            /\ done \in SUBSET RolloutId /\ failed \in SUBSET RolloutId
        BY <2>1, <3>1 DEF Device
      <3>3. device'[e] = [runs |-> runs, busy |-> 0, gets |-> NoImage,
                          tried |-> device[e].tried, done |-> done, failed |-> failed]
        BY <1>6, Finished
      <3> HIDE DEF runs, done, failed
      <3> QED BY <3>1, <3>2, <3>3 DEF Device
    <2>5. device' \in [Ecu -> Device]
      BY <1>6, <2>4, Finished
    <2> QED BY <1>6, <2>3, <2>5 DEF FinishUpdate, db
  <1>7. ASSUME NEW w \in Worker, Run(w)
        PROVE  TypeOK'
    BY <1>7, RunTyped
  <1>8. CASE UNCHANGED vars
    BY <1>8 DEF vars, db
  <1> QED BY <1>1, <1>2, <1>3, <1>4, <1>5, <1>6, <1>7, <1>8, RestartTyped
          DEF Next, Admin, Vehicle, Handler, HandlerFails, GetRollout

-----------------------------------------------------------------------------
(* What every step leaves alone.                                           *)

(* The rows of a rollout are there from its creation on: no step takes a   *)
(* robot or an ECU out of it, changes its images or unlaunches it, and an  *)
(* ECU does not unlive what it has been through.                           *)
Kept ==
    /\ \A ro \in RolloutId : Launched(ro) =>
           /\ Launched(ro)'
           /\ image'[ro] = image[ro]
           /\ \A r \in Robot : bot[ro][r] # "none" => bot'[ro][r] # "none"
           /\ \A e \in Ecu : row'[ro][e] # "none" => row[ro][e] # "none"
    /\ \A e \in Ecu : /\ device[e].done \subseteq device'[e].done
                      /\ device[e].failed \subseteq device'[e].failed
                      /\ device[e].tried \subseteq device'[e].tried

LEMMA RunKeeps ==
    ASSUME TypeOK, WorkersRemember, NEW w \in Worker, Run(w)
    PROVE  Kept
  <1> USE DEF TypeOK, db
  <1>w. Remembers(worker[w]) /\ worker[w] \in Memory
    BY DEF WorkersRemember
  <1>b. ASSUME UNCHANGED <<status, image, row, device>>,
               NEW ro \in RolloutId, NEW r \in Robot, NEW new, new # "none", SetBot(ro, r, new)
        PROVE  Kept
    BY <1>b DEF Kept, Launched, SetBot
  <1>1. CASE ListUnprocessed(w) \/ ReadRolloutRobots(w) \/ AbortRun(w) \/ ListOngoing(w)
    BY <1>1 DEF ListUnprocessed, ReadRolloutRobots, AbortRun, ListOngoing, Kept, Launched
  <1>2. ASSUME NEW r \in Robot, SkipRobot(w, r)
        PROVE  Kept
    BY <1>2, <1>b, <1>w DEF SkipRobot, Remembers, Launched
  <1>3. ASSUME NEW r \in Robot, PublishTargets(w, r)
        PROVE  Kept
    BY <1>3 DEF PublishTargets, Kept, Launched
  <1>4. CASE ScheduleRobot(w)
    <2>1. PICK r \in worker[w].cur : SetBot(worker[w].ro, r, "scheduled")
      BY <1>4 DEF ScheduleRobot
    <2>2. r \in Robot /\ worker[w].ro \in RolloutId
      BY <1>4, <1>w, <2>1 DEF Memory, ScheduleRobot, Remembers, Launched
    <2> QED BY <1>4, <1>b, <2>1, <2>2 DEF ScheduleRobot
  <1>5. CASE CompleteRollout(w)
    <2>1. PICK u \in worker[w].todo :
              /\ u.robot = {} /\ WriteStatus(w, u)
              /\ status' = [status EXCEPT ![u.ro] = u.new] /\ UNCHANGED bot
      BY <1>5 DEF CompleteRollout
    <2>2. Sound(u)
      BY <1>w, <2>1 DEF WriteStatus, Remembers
    <2>3. status' = [status EXCEPT ![u.ro] = "completed"]
      BY <2>1, <2>2 DEF Sound
    <2> QED BY <2>1, <2>3 DEF WriteStatus, Kept, Launched
  <1>6. CASE UpdateRobot(w)
    <2>1. PICK u \in worker[w].todo, r \in Robot :
              /\ u.robot = {r} /\ WriteStatus(w, u) /\ SetBot(u.ro, r, u.new) /\ UNCHANGED status
      BY <1>6 DEF UpdateRobot
    <2>2. Sound(u) /\ u.ro \in RolloutId
      BY <1>w, <2>1 DEF WriteStatus, Remembers, Memory
    <2>3. u.new # "none"
      BY <2>1, <2>2 DEF Sound
    <2> QED BY <1>b, <2>1, <2>2, <2>3 DEF WriteStatus
  <1> QED BY <1>1, <1>2, <1>3, <1>4, <1>5, <1>6 DEF Run

LEMMA StepKeeps ==
    ASSUME TypeOK, WorkersRemember, [Next]_vars
    PROVE  Kept
  <1> USE DEF TypeOK, db
  <1>1. ASSUME NEW ro \in RolloutId, NEW map \in ImageMaps, NEW bots \in SUBSET robots,
               CreateRollout(ro, map, bots)
        PROVE  Kept
    BY <1>1 DEF CreateRollout, Kept, Launched
  <1>2. ASSUME NEW ro \in RolloutId, LaunchRollout(ro)
        PROVE  Kept
    BY <1>2 DEF LaunchRollout, Kept, Launched
  <1>3. ASSUME NEW r \in Robot, DeleteRobot(r) \/ ProvisionRobot(r) \/ RegisterEcus(r)
        PROVE  Kept
    BY <1>3 DEF DeleteRobot, ProvisionRobot, RegisterEcus, Kept, Launched
  <1>4. ASSUME NEW i \in 1..Len(events), HandleEcuEvent(i)
        PROVE  Kept
    <2>1. events[i] \in Event
      OBVIOUS
    <2>2. \A ro \in RolloutId, e \in Ecu : row'[ro][e] # "none" => row[ro][e] # "none"
      BY <1>4, <2>1 DEF HandleEcuEvent, HasRow, Event
    <2> QED BY <1>4, <2>2 DEF HandleEcuEvent, Kept, Launched
  <1>5. ASSUME NEW e \in Ecu, StartUpdate(e)
        PROVE  Kept
    <2>1. /\ device'[e].done = device[e].done /\ device'[e].failed = device[e].failed
          /\ device[e].tried \subseteq device'[e].tried
          /\ \A f \in Ecu \ {e} : device'[f] = device[f]
      BY <1>5 DEF StartUpdate, Device
    <2> QED BY <1>5, <2>1 DEF StartUpdate, Kept, Launched
  <1>6. ASSUME NEW e \in Ecu, NEW what \in Reported, FinishUpdate(e, what)
        PROVE  Kept
    <2>1. /\ device[e].done \subseteq device'[e].done
          /\ device[e].failed \subseteq device'[e].failed
          /\ device[e].tried \subseteq device'[e].tried
      BY <1>6, FinishedHistory
    <2>2. \A f \in Ecu \ {e} : device'[f] = device[f]
      BY <1>6, FinishedHistory
    <2> QED BY <1>6, <2>1, <2>2 DEF FinishUpdate, Kept, Launched
  <1>7. ASSUME NEW w \in Worker, Run(w)
        PROVE  Kept
    BY <1>7, RunKeeps
  <1>8. CASE UNCHANGED vars
    BY <1>8 DEF vars, Kept, Launched
  <1>9. CASE Restart
    BY <1>9 DEF Restart, Kept, Launched
  <1> QED BY <1>1, <1>2, <1>3, <1>4, <1>5, <1>6, <1>7, <1>8, <1>9
          DEF Next, Admin, Vehicle, Handler, HandlerFails, GetRollout

(* What a verdict claims stays true.                                       *)
LEMMA ClaimKept ==
    ASSUME Kept, NEW ro \in RolloutId, Launched(ro), NEW r \in Robot, NEW verdict,
           Claim(ro, r, verdict)
    PROVE  Claim(ro, r, verdict)'
  <1>1. EcusOf(r) \subseteq Ecu
    BY DEF EcusOf
  <1>2. \A e \in EcusOf(r) : /\ row'[ro][e] # "none" => row[ro][e] # "none"
                             /\ device[e].done \subseteq device'[e].done
                             /\ device[e].failed \subseteq device'[e].failed
    BY <1>1 DEF Kept
  <1> QED BY <1>2 DEF Claim, EcusOf

(* What a run of the worker remembers stays true while it waits.           *)
LEMMA RemembersKept ==
    ASSUME Kept, NEW m \in Memory, Remembers(m)
    PROVE  Remembers(m)'
  <1>1. ASSUME NEW u \in m.todo, Sound(u)
        PROVE  Sound(u)'
    <2>1. u.ro \in RolloutId /\ Launched(u.ro) /\ Launched(u.ro)'
      BY <1>1 DEF Sound, Launched, Kept
    <2>2. ASSUME NEW r \in Robot, u.robot = {r}
          PROVE  /\ u.new \in RobotStatus \ {"none"} /\ bot'[u.ro][r] # "none"
                 /\ Claim(u.ro, r, u.new)'
      BY <1>1, <2>1, <2>2, ClaimKept DEF Sound, Kept
    <2> QED BY <1>1, <2>1, <2>2 DEF Sound
  <1>2. m.at = "statuses" => \A u \in m.todo : Sound(u)'
    BY <1>1 DEF Remembers
  <1>3. m.at \in {"rollouts", "robots", "schedule"} => \A ro \in m.queue : Launched(ro)'
    BY DEF Remembers, Kept, Memory
  <1>4. m.at \in {"robots", "schedule"} =>
           /\ Launched(m.ro)'
           /\ \A r \in m.batch \cup m.cur : bot'[m.ro][r] # "none"
           /\ \A r \in Robot : \A e \in m.affected[r] :
                  OwnerOf[e] = r /\ image'[m.ro][HwidOf[e]] # NoImage
    <2> SUFFICES ASSUME m.at \in {"robots", "schedule"}
                 PROVE  /\ Launched(m.ro)'
                        /\ \A r \in m.batch \cup m.cur : bot'[m.ro][r] # "none"
                        /\ \A r \in Robot : \A e \in m.affected[r] :
                               OwnerOf[e] = r /\ image'[m.ro][HwidOf[e]] # NoImage
      OBVIOUS
    <2>1. Launched(m.ro) /\ m.ro \in RolloutId
      BY DEF Remembers, Launched
    <2>2. m.batch \cup m.cur \subseteq Robot
      BY DEF Memory
    <2> QED BY <2>1, <2>2 DEF Remembers, Kept
  <1> QED BY <1>2, <1>3, <1>4 DEF Remembers

(* A run of the worker that takes a step remembers what it read in it.     *)
LEMMA VerdictSound ==
    ASSUME TypeOK, VerdictIsReal, Evidence, NEW ro \in RolloutId, NEW r \in Robot
    PROVE  Claim(ro, r, RobotVerdict(ro, r))
  <1>1. ASSUME RowsOf(ro, r) \subseteq {"installation_completed"},
               NEW e \in EcusOf(r), row[ro][e] # "none"
        PROVE  ro \in device[e].done
    <2>1. e \in Ecu /\ row[ro][e] \in RowsOf(ro, r)
      BY <1>1 DEF EcusOf, RowsOf
    <2>2. row[ro][e] = "installation_completed"
      BY <1>1, <2>1
    <2> QED BY <2>1, <2>2 DEF Evidence, Lived
  <1>2. ASSUME "installation_failed" \in RowsOf(ro, r)
        PROVE  \E e \in EcusOf(r) : ro \in device[e].failed
    <2>1. PICK e \in EcusOf(r) : row[ro][e] = "installation_failed"
      BY <1>2 DEF RowsOf
    <2> QED BY <2>1 DEF Evidence, Lived, EcusOf
  <1>3. RobotVerdict(ro, r) = "completed" =>
            bot[ro][r] = "completed" \/ RowsOf(ro, r) \subseteq {"installation_completed"}
    BY DEF RobotVerdict
  <1>4. RobotVerdict(ro, r) = "failed" =>
            bot[ro][r] = "failed" \/ "installation_failed" \in RowsOf(ro, r)
    BY DEF RobotVerdict
  <1> QED BY <1>1, <1>2, <1>3, <1>4 DEF Claim, VerdictIsReal

LEMMA UpdateSound ==
    ASSUME TypeOK, VerdictIsReal, Evidence, NEW ro \in RolloutId, status[ro] = "launched",
           NEW u \in {RolloutUpdate(ro)} \cup RobotUpdates(ro)
    PROVE  Sound(u)
  <1>1. CASE u = RolloutUpdate(ro)
    BY <1>1 DEF RolloutUpdate, Sound, Launched
  <1>2. CASE u \in RobotUpdates(ro)
    <2>1. PICK q \in Robot : /\ RobotVerdict(ro, q) # bot[ro][q]
                             /\ u = [ro |-> ro, robot |-> {q}, new |-> RobotVerdict(ro, q)]
      BY <1>2 DEF RobotUpdates
    <2>2. bot[ro][q] # "none" /\ RobotVerdict(ro, q) \in RobotStatus \ {"none"}
      BY <2>1, VerdictTyped DEF RobotVerdict
    <2>3. Claim(ro, q, RobotVerdict(ro, q))
      BY VerdictSound
    <2>4. /\ u.ro = ro /\ u.robot = {q} /\ u.new = RobotVerdict(ro, q)
      BY <2>1
    <2>5. \A r \in Robot : u.robot = {r} => r = q
      BY <2>4
    <2>6. u.robot # {} /\ Launched(u.ro)
      BY <2>4 DEF Launched
    <2> QED BY <2>2, <2>3, <2>4, <2>5, <2>6 DEF Sound
  <1> QED BY <1>1, <1>2

LEMMA RunRemembers ==
    ASSUME Inv, Kept, NEW w \in Worker, Run(w)
    PROVE  Remembers(worker[w])'
  <1> USE DEF Inv
  <1>w. worker[w] \in Memory /\ Remembers(worker[w]) /\ worker \in [Worker -> Memory]
    BY DEF TypeOK, WorkersRemember
  <1>k. ASSUME NEW m \in Memory, Remembers(m), worker'[w] = m
        PROVE  Remembers(worker[w])'
    BY <1>k, RemembersKept DEF Remembers, Sound, Launched, Claim
  <1>0. Remembers(Resting)
    BY DEF Remembers, Resting
  <1>r. ASSUME InMemory(w, Resting)
        PROVE  Remembers(worker[w])'
    BY <1>r, <1>k, <1>0, <1>w, RestingTyped DEF InMemory
  <1>e. ASSUME NEW mem \in Memory, InMemory(w, Resume(mem)), mem.cur = {},
               \A ro \in mem.queue : Launched(ro), Launched(mem.ro),
               \A r \in mem.batch : bot[mem.ro][r] # "none",
               \A r \in Robot : \A e \in mem.affected[r] :
                   OwnerOf[e] = r /\ image[mem.ro][HwidOf[e]] # NoImage
        PROVE  Remembers(worker[w])'
    <2>1. PICK m \in Memory : m = Resume(mem)
      BY <1>e DEF Resume, Memory
    <2>2. /\ m.at \in {"rollouts", "robots"} /\ m.queue = mem.queue /\ m.ro = mem.ro
          /\ m.batch = mem.batch /\ m.affected = mem.affected /\ m.cur = mem.cur
      BY <2>1 DEF Resume, Memory
    <2>3. Remembers(m)
      BY <1>e, <2>2 DEF Remembers
    <2>4. worker'[w] = m
      BY <1>e, <1>w, <2>1 DEF InMemory
    <2> QED BY <1>k, <2>3, <2>4
  <1>1. CASE ListUnprocessed(w)
    <2> DEFINE mem == [Resting EXCEPT !.at = "rollouts",
                           !.queue = {ro \in RolloutId : status[ro] = "launched" /\ HasPending(ro)}]
    <2>1. PICK m \in Memory : m = mem
      BY RestingTyped DEF Memory
    <2>2. Remembers(m)
      BY <2>1 DEF Remembers, Resting, Launched
    <2>3. worker'[w] = m
      BY <1>1, <1>w, <2>1 DEF ListUnprocessed, InMemory
    <2> QED BY <1>k, <2>2, <2>3
  <1>2. CASE ReadRolloutRobots(w)
    <2> DEFINE ro == First(worker[w].queue)
               batch == {r \in Robot : bot[ro][r] = "pending"}
               affected == [r \in Robot |-> Affected(ro, r)]
    <2>1. ro \in RolloutId /\ Launched(ro) /\ ro \in Nat /\ ro \in 0..MaxRollouts
      BY <1>2, <1>w, FirstIn, BoundsAssumption DEF ReadRolloutRobots, Memory, Remembers, RolloutId
    <2>2. affected \in [Robot -> SUBSET Ecu] /\ batch \in SUBSET Robot
      BY DEF Affected, EcusOf
    <2>3. \A r \in Robot : \A e \in affected[r] :
                   OwnerOf[e] = r /\ image[ro][HwidOf[e]] # NoImage
      BY DEF Affected, EcusOf
    <2>4. \A r \in batch : bot[ro][r] # "none"
      OBVIOUS
    <2>5. InMemory(w, Resume([worker[w] EXCEPT !.ro = ro, !.queue = @ \ {ro}, !.batch = batch,
                                               !.affected = affected]))
      BY <1>2 DEF ReadRolloutRobots
    <2> HIDE DEF ro, batch, affected
    <2>6. PICK mem \in Memory : mem = [worker[w] EXCEPT !.ro = ro, !.queue = @ \ {ro},
                                                  !.batch = batch, !.affected = affected]
      BY <1>w, <2>1, <2>2 DEF Memory
    <2>7. /\ mem.queue = worker[w].queue \ {ro} /\ mem.ro = ro /\ mem.batch = batch
          /\ mem.affected = affected /\ mem.cur = worker[w].cur
      BY <1>w, <2>6 DEF Memory
    <2>8. worker[w].cur = {} /\ \A p \in worker[w].queue : Launched(p)
      BY <1>2, <1>w DEF Remembers, ReadRolloutRobots
    <2>9. /\ mem.cur = {} /\ Launched(mem.ro)
          /\ \A p \in mem.queue : Launched(p)
          /\ \A r \in mem.batch : bot[mem.ro][r] # "none"
      BY <2>1, <2>4, <2>7, <2>8
    <2>10. \A r \in Robot : \A e \in mem.affected[r] :
                   OwnerOf[e] = r /\ image[mem.ro][HwidOf[e]] # NoImage
      BY <2>3, <2>7
    <2>11. InMemory(w, Resume(mem))
      BY <2>5, <2>6
    <2> QED BY <1>e, <2>9, <2>10, <2>11
  <1>3. ASSUME NEW r \in Robot, SkipRobot(w, r)
        PROVE  Remembers(worker[w])'
    <2>1. PICK mem \in Memory : mem = [worker[w] EXCEPT !.batch = @ \ {r}]
      BY <1>w DEF Memory
    <2>2. /\ mem.queue = worker[w].queue /\ mem.ro = worker[w].ro
          /\ mem.batch = worker[w].batch \ {r}
          /\ mem.affected = worker[w].affected /\ mem.cur = worker[w].cur
      BY <1>w, <2>1 DEF Memory
    <2>3. InMemory(w, Resume(mem)) /\ worker[w].at = "robots"
      BY <1>3, <2>1 DEF SkipRobot
    <2> QED BY <1>e, <1>w, <2>2, <2>3 DEF Remembers
  <1>4. ASSUME NEW r \in Robot, PublishTargets(w, r)
        PROVE  Remembers(worker[w])'
    <2>1. PICK m \in Memory : m = [worker[w] EXCEPT !.at = "schedule", !.batch = @ \ {r},
                                                 !.cur = {r}]
      BY <1>w DEF Memory
    <2>2. /\ m.queue = worker[w].queue /\ m.ro = worker[w].ro /\ m.at = "schedule"
          /\ m.batch = worker[w].batch \ {r}
          /\ m.affected = worker[w].affected /\ m.cur = {r}
      BY <1>w, <2>1 DEF Memory
    <2>3. worker'[w] = m /\ worker[w].at = "robots" /\ r \in worker[w].batch
      BY <1>4, <1>w, <2>1 DEF PublishTargets, InMemory
    <2>4. Remembers(m)
      BY <1>w, <2>2, <2>3 DEF Remembers
    <2> QED BY <1>k, <2>3, <2>4
  <1>5. CASE AbortRun(w)
    BY <1>5, <1>r DEF AbortRun
  <1>6. CASE ScheduleRobot(w)
    <2>1. PICK mem \in Memory : mem = [worker[w] EXCEPT !.cur = {}]
      BY <1>w DEF Memory
    <2>2. /\ mem.queue = worker[w].queue /\ mem.ro = worker[w].ro
          /\ mem.batch = worker[w].batch
          /\ mem.affected = worker[w].affected /\ mem.cur = {}
      BY <1>w, <2>1 DEF Memory
    <2>3. InMemory(w, Resume(mem)) /\ worker[w].at = "schedule"
      BY <1>6, <2>1 DEF ScheduleRobot
    <2> QED BY <1>e, <1>w, <2>2, <2>3 DEF Remembers
  <1>7. CASE ListOngoing(w)
    <2> DEFINE ongoing == {ro \in RolloutId : status[ro] = "launched"}
               todo == {RolloutUpdate(ro) : ro \in {p \in ongoing : AllDone(p)}}
                         \cup UNION {RobotUpdates(ro) : ro \in {p \in ongoing : ~AllDone(p)}}
    <2>1. todo \subseteq [ro: RolloutId, robot: SUBSET Robot,
                          new: RobotStatus \cup RolloutStatus]
      BY UpdatesTyped
    <2>2. \A u \in todo : Sound(u)
      BY UpdateSound
    <2>3. InMemory(w, IF todo = {} THEN Resting
                      ELSE [Resting EXCEPT !.at = "statuses", !.todo = todo])
      BY <1>7 DEF ListOngoing
    <2> HIDE DEF todo
    <2>4. CASE todo # {}
      <3>1. PICK m \in Memory : m = [Resting EXCEPT !.at = "statuses", !.todo = todo]
        BY <2>1, RestingTyped DEF Memory
      <3>2. m.at = "statuses" /\ m.todo = todo /\ m.cur = {}
        BY <3>1 DEF Resting
      <3>3. Remembers(m)
        BY <2>2, <3>2 DEF Remembers
      <3>4. worker'[w] = m
        BY <1>w, <2>3, <2>4, <3>1 DEF InMemory
      <3> QED BY <1>k, <3>3, <3>4
    <2>5. CASE todo = {}
      BY <1>r, <2>3, <2>5
    <2> QED BY <2>4, <2>5
  <1>8. ASSUME NEW u, WriteStatus(w, u)
        PROVE  Remembers(worker[w])'
    <2>1. PICK m \in Memory : m = [worker[w] EXCEPT !.todo = @ \ {u}]
      BY <1>w DEF Memory
    <2>2. m.todo = worker[w].todo \ {u} /\ m.at = worker[w].at /\ m.cur = worker[w].cur
      BY <1>w, <2>1 DEF Memory
    <2>3. Remembers(m)
      BY <1>8, <1>w, <2>2 DEF WriteStatus, Remembers
    <2>4. CASE worker[w].todo = {u}
      BY <1>8, <1>r, <2>4 DEF WriteStatus
    <2>5. CASE worker[w].todo # {u}
      <3>1. worker'[w] = m
        BY <1>8, <1>w, <2>1, <2>5 DEF WriteStatus, InMemory
      <3> QED BY <1>k, <2>3, <3>1
    <2> QED BY <2>4, <2>5
  <1> QED BY <1>1, <1>2, <1>3, <1>4, <1>5, <1>6, <1>7, <1>8 DEF Run, CompleteRollout, UpdateRobot

-----------------------------------------------------------------------------
(* The parts of the invariant, one by one.                                 *)
LEMMA WorkersStep ==
    ASSUME Inv, [Next]_vars, Kept
    PROVE  WorkersRemember'
  <1> USE DEF Inv
  <1>1. ASSUME NEW w \in Worker, worker'[w] = worker[w]
        PROVE  Remembers(worker[w])'
    <2>1. PICK m \in Memory : m = worker[w]
      BY DEF TypeOK
    <2>2. Remembers(m)'
      BY <2>1, RemembersKept DEF WorkersRemember
    <2> QED BY <1>1, <2>1, <2>2 DEF Remembers, Sound, Launched, Claim
  <1>2. ASSUME NEW w \in Worker, Run(w)
        PROVE  WorkersRemember'
    <2>1. \A v \in Worker \ {w} : worker'[v] = worker[v]
      BY <1>2 DEF Run, ListUnprocessed, ReadRolloutRobots, SkipRobot, PublishTargets, AbortRun,
                  ScheduleRobot, ListOngoing, CompleteRollout, UpdateRobot, WriteStatus,
                  InMemory, TypeOK
    <2>2. Remembers(worker[w])'
      BY <1>2, RunRemembers
    <2> QED BY <1>1, <2>1, <2>2 DEF WorkersRemember
  <1>3. ASSUME worker' = worker
        PROVE  WorkersRemember'
    BY <1>1, <1>3 DEF WorkersRemember
  <1>4. CASE Restart
    <2>1. \A w \in Worker : worker'[w].at = "idle" /\ worker'[w].cur = {}
      BY <1>4 DEF Restart, Resting
    <2> QED BY <2>1 DEF WorkersRemember, Remembers
  <1> QED BY <1>2, <1>3, <1>4
          DEF Next, Admin, Vehicle, Handler, HandlerFails, GetRollout, CreateRollout,
              LaunchRollout, DeleteRobot, ProvisionRobot, RegisterEcus, HandleEcuEvent,
              StartUpdate, FinishUpdate, vars

LEMMA DirectorStep ==
    ASSUME Inv, [Next]_vars, Kept
    PROVE  DirectorInv'
  <1> USE DEF Inv
  <1>1. ASSUME UNCHANGED director
        PROVE  DirectorInv'
    <2>1. ASSUME NEW r \in Robot, director[r].rollout # 0
          PROVE  LET d == director'[r] IN
                     /\ status'[d.rollout] \in {"launched", "completed"}
                     /\ bot'[d.rollout][r] # "none"
                     /\ \A e \in Ecu : d.targets[e] # NoImage =>
                           OwnerOf[e] = r /\ d.targets[e] = image'[d.rollout][HwidOf[e]]
      <3>1. director[r].rollout \in RolloutId
        BY <2>1, BoundsAssumption DEF TypeOK, RolloutId
      <3>2. Launched(director[r].rollout)
        BY <2>1, <3>1 DEF DirectorInv, PublishedIsLaunched, Launched
      <3> QED BY <1>1, <2>1, <3>1, <3>2 DEF DirectorInv, PublishedIsLaunched, Launched, Kept
    <2> QED BY <1>1, <2>1 DEF DirectorInv, PublishedIsLaunched
  <1>2. ASSUME NEW w \in Worker, NEW r \in Robot, PublishTargets(w, r)
        PROVE  DirectorInv'
    <2> DEFINE ro == worker[w].ro
    <2>1. PICK t \in TargetsFor(ro, worker[w].affected[r]) :
              director' = [director EXCEPT ![r] = [rollout |-> ro, targets |-> t]]
      BY <1>2 DEF PublishTargets
    <2>2. /\ Launched(ro) /\ ro \in RolloutId /\ ro # 0 /\ bot[ro][r] # "none"
          /\ \A e \in worker[w].affected[r] : OwnerOf[e] = r
      BY <1>2, BoundsAssumption DEF PublishTargets, WorkersRemember, Remembers, Launched, RolloutId
    <2>3. \A e \in Ecu : t[e] # NoImage => OwnerOf[e] = r /\ t[e] = image[ro][HwidOf[e]]
      BY <2>1, <2>2 DEF TargetsFor
    <2>4. UNCHANGED <<status, image, bot>>
      BY <1>2 DEF PublishTargets
    <2>5. director'[r] = [rollout |-> ro, targets |-> t]
          /\ \A q \in Robot \ {r} : director'[q] = director[q]
      BY <2>1 DEF TypeOK
    <2> HIDE DEF ro
    <2> QED BY <2>2, <2>3, <2>4, <2>5 DEF DirectorInv, PublishedIsLaunched, Launched
  <1>3. ASSUME NEW r \in Robot, DeleteRobot(r) \/ RegisterEcus(r),
               director' = [director EXCEPT ![r] = NoMetadata]
        PROVE  DirectorInv'
    <2>1. UNCHANGED <<status, image, bot>>
      BY <1>3 DEF DeleteRobot, RegisterEcus
    <2>2. \A q \in Robot : director'[q] = IF q = r THEN NoMetadata ELSE director[q]
      BY <1>3 DEF TypeOK
    <2> QED BY <2>1, <2>2 DEF DirectorInv, PublishedIsLaunched, NoMetadata, NoTargets
  <1> QED BY <1>1, <1>2, <1>3
          DEF Next, Admin, Vehicle, Handler, HandlerFails, GetRollout, CreateRollout,
              LaunchRollout, DeleteRobot, ProvisionRobot, RegisterEcus, HandleEcuEvent,
              StartUpdate, FinishUpdate, vars, db, Restart, Run, ListUnprocessed, ReadRolloutRobots,
              SkipRobot, AbortRun, ScheduleRobot, ListOngoing, CompleteRollout, UpdateRobot,
              WriteStatus

LEMMA EvidenceStep ==
    ASSUME Inv, [Next]_vars, Kept
    PROVE  Evidence'
  <1> USE DEF Inv
  <1>0. \A ro \in RolloutId, e \in Ecu, what \in EcuStatus :
            Lived(ro, e, what) => Lived(ro, e, what)'
    BY DEF Kept, Lived
  <1>t. /\ \A i \in 1..Len(events) : events[i] \in Event
        /\ \A ro \in RolloutId, e \in Ecu : row[ro][e] \in EcuStatus
    BY DEF TypeOK
  <1>u. \A i \in 1..Len(events) :
            Lived(events[i].rollout, events[i].ecu, events[i].status)'
                \/ events'[i] # events[i]
    BY <1>0, <1>t DEF Evidence, Event, EcuStatus, Lived
  <1>1. ASSUME UNCHANGED <<row, events>>
        PROVE  Evidence'
    BY <1>0, <1>1, <1>t DEF Evidence, Event, EcuStatus, Lived
  <1>2. CASE Restart
    BY <1>0, <1>2, <1>t DEF Evidence, Restart, db, Lived
  <1>3. ASSUME NEW ro \in RolloutId, NEW map \in ImageMaps, NEW bots \in SUBSET robots,
               CreateRollout(ro, map, bots)
        PROVE  Evidence'
    <2>1. \A p \in RolloutId, e \in Ecu :
              row'[p][e] = row[p][e] \/ row'[p][e] \in {"none", "null"}
      BY <1>3 DEF CreateRollout, TypeOK
    <2> QED BY <1>0, <1>3, <1>t, <2>1 DEF CreateRollout, Evidence, Lived
  <1>4. ASSUME NEW i \in 1..Len(events), HandleEcuEvent(i)
        PROVE  Evidence'
    <2>1. UNCHANGED device
      BY <1>4 DEF HandleEcuEvent
    <2>2. /\ Len(events') = Len(events) - 1
          /\ \A k \in 1..(Len(events) - 1) :
                 events'[k] = IF k < i THEN events[k] ELSE events[k+1]
      BY <1>4, RemoveAtProperties DEF HandleEcuEvent, TypeOK
    <2>3. \A k \in 1..Len(events') : \E j \in 1..Len(events) : events'[k] = events[j]
      <3>1. Len(events) \in Nat
        BY DEF TypeOK
      <3> QED BY <2>2, <3>1
    <2>4. \A ro \in RolloutId, e \in Ecu :
              \/ row'[ro][e] = row[ro][e]
              \/ ro = events[i].rollout /\ e = events[i].ecu /\ row'[ro][e] = events[i].status
      BY <1>4, <1>t DEF HandleEcuEvent, TypeOK, Event
    <2> QED BY <2>1, <2>3, <2>4 DEF Evidence, Lived
  <1>5. ASSUME NEW e \in Ecu, NEW ro, NEW what \in Reported, Emit(e, ro, what),
               Lived(ro, e, what)', UNCHANGED row
        PROVE  Evidence'
    <2>1. events \in Seq(Event) /\ Len(events) \in Nat
      BY DEF TypeOK
    <2>2. /\ Len(events') = Len(events) + 1
          /\ \A k \in 1..Len(events) : events'[k] = events[k]
          /\ events'[Len(events) + 1] = [rollout |-> ro, ecu |-> e, status |-> what]
      BY <1>5, <2>1, AppendProperties DEF Emit
    <2>3. ASSUME NEW k \in 1..Len(events')
          PROVE  Lived(events[k].rollout, events[k].ecu, events[k].status)'
      <3>1. CASE k \in 1..Len(events)
        BY <1>u, <2>2, <3>1
      <3>2. CASE k = Len(events) + 1
        BY <1>5, <2>2, <3>2 DEF Lived
      <3> QED BY <2>1, <2>2, <3>1, <3>2
    <2>4. \A p \in RolloutId, f \in Ecu : Lived(p, f, row[p][f])'
      BY <1>0, <1>5, <1>t DEF Evidence, Lived
    <2> QED BY <2>3, <2>4 DEF Evidence
  <1>6. ASSUME NEW e \in Ecu, StartUpdate(e)
        PROVE  Evidence'
    <2>1. PICK ro : ro = director[OwnerOf[e]].rollout
      OBVIOUS
    <2>2. Emit(e, ro, "download_started") /\ UNCHANGED row /\ Lived(ro, e, "download_started")'
      BY <1>6, <2>1 DEF StartUpdate, db, Lived
    <2> QED BY <1>5, <2>2 DEF Reported
  <1>7. ASSUME NEW e \in Ecu, NEW what \in Reported, FinishUpdate(e, what)
        PROVE  Evidence'
    <2>0. PICK ro : ro = device[e].busy
      OBVIOUS
    <2>1. (Emit(e, ro, what) \/ UNCHANGED events) /\ UNCHANGED row
      BY <1>7, <2>0 DEF FinishUpdate, db
    <2>2. Lived(ro, e, what)'
      BY <1>7, <2>0, FinishedHistory DEF Lived
    <2> QED BY <1>1, <1>5, <2>1, <2>2
  <1> QED BY <1>1, <1>2, <1>3, <1>4, <1>6, <1>7
          DEF Next, Admin, Vehicle, Handler, HandlerFails, GetRollout,
              LaunchRollout, DeleteRobot, ProvisionRobot, RegisterEcus, vars, db, Run,
              ListUnprocessed, ReadRolloutRobots, SkipRobot, PublishTargets, AbortRun,
              ScheduleRobot, ListOngoing, CompleteRollout, UpdateRobot, WriteStatus

LEMMA VerdictStep ==
    ASSUME Inv, [Next]_vars, Kept
    PROVE  VerdictIsReal'
  <1> USE DEF Inv
  <1> DEFINE Real(ro, r) == Claim(ro, r, bot[ro][r])
  <1>0. VerdictIsReal <=> \A ro \in RolloutId, r \in Robot : Real(ro, r)
    BY DEF VerdictIsReal, Claim
  <1>1. VerdictIsReal' <=> \A ro \in RolloutId, r \in Robot : Real(ro, r)'
    BY DEF VerdictIsReal, Claim
  <1>2. \A e \in Ecu : /\ device[e].done \subseteq device'[e].done
                       /\ device[e].failed \subseteq device'[e].failed
    BY DEF Kept
  <1>3. ASSUME NEW ro \in RolloutId, NEW r \in Robot, bot'[ro][r] = bot[ro][r],
               \A e \in Ecu : row'[ro][e] # "none" => row[ro][e] # "none"
        PROVE  Real(ro, r)'
    BY <1>0, <1>2, <1>3 DEF Claim, EcusOf
  <1>4. ASSUME UNCHANGED bot,
               \A ro \in RolloutId, e \in Ecu : row'[ro][e] # "none" => row[ro][e] # "none"
        PROVE  VerdictIsReal'
    BY <1>1, <1>3, <1>4
  <1>5. ASSUME NEW ro \in RolloutId, NEW map \in ImageMaps, NEW bots \in SUBSET robots,
               CreateRollout(ro, map, bots)
        PROVE  VerdictIsReal'
    <2>1. \A p \in RolloutId \ {ro} : bot'[p] = bot[p] /\ row'[p] = row[p]
      BY <1>5 DEF CreateRollout, TypeOK
    <2>2. \A r \in Robot : bot'[ro][r] \notin {"completed", "failed"}
      BY <1>5 DEF CreateRollout, TypeOK
    <2>3. \A p \in RolloutId \ {ro}, r \in Robot : Real(p, r)'
      BY <1>3, <2>1
    <2>4. \A r \in Robot : Real(ro, r)'
      BY <2>2 DEF Claim
    <2> QED BY <1>1, <2>3, <2>4
  <1>6. ASSUME NEW i \in 1..Len(events), HandleEcuEvent(i)
        PROVE  VerdictIsReal'
    <2>1. \A ro \in RolloutId, e \in Ecu : row'[ro][e] # "none" => row[ro][e] # "none"
      BY <1>6 DEF HandleEcuEvent, HasRow, TypeOK, Event
    <2> QED BY <1>4, <1>6, <2>1 DEF HandleEcuEvent
  <1>7. ASSUME NEW ro \in RolloutId, NEW r \in Robot, NEW new,
               SetBot(ro, r, new), UNCHANGED <<row, device>>, Claim(ro, r, new)
        PROVE  VerdictIsReal'
    <2>1. \A p \in RolloutId, q \in Robot : <<p, q>> # <<ro, r>> => bot'[p][q] = bot[p][q]
      BY <1>7 DEF SetBot, TypeOK
    <2>2. \A p \in RolloutId, q \in Robot : <<p, q>> # <<ro, r>> => Real(p, q)'
      BY <1>3, <1>7, <2>1
    <2>3. bot'[ro][r] = new
      BY <1>7 DEF SetBot, TypeOK
    <2>4. Real(ro, r)'
      BY <1>7, <2>3 DEF Claim, EcusOf
    <2> QED BY <1>1, <2>2, <2>4
  <1>8. ASSUME NEW w \in Worker, NEW r \in Robot, SkipRobot(w, r)
        PROVE  VerdictIsReal'
    <2>1. PICK ro \in RolloutId : ro = worker[w].ro
      BY <1>8 DEF SkipRobot, WorkersRemember, Remembers, Launched
    <2> QED BY <1>7, <1>8, <2>1 DEF SkipRobot, Claim
  <1>9. ASSUME NEW w \in Worker, ScheduleRobot(w)
        PROVE  VerdictIsReal'
    <2>1. PICK ro \in RolloutId : ro = worker[w].ro
      BY <1>9 DEF ScheduleRobot, WorkersRemember, Remembers, Launched
    <2>2. PICK r \in Robot : SetBot(ro, r, "scheduled")
      BY <1>9, <2>1 DEF ScheduleRobot, TypeOK, Memory
    <2> QED BY <1>7, <1>9, <2>2 DEF ScheduleRobot, Claim
  <1>10. ASSUME NEW w \in Worker, UpdateRobot(w)
         PROVE  VerdictIsReal'
    <2>1. PICK u \in worker[w].todo, r \in Robot :
              u.robot = {r} /\ WriteStatus(w, u) /\ SetBot(u.ro, r, u.new)
      BY <1>10 DEF UpdateRobot
    <2>2. Sound(u)
      BY <2>1 DEF WriteStatus, WorkersRemember, Remembers
    <2>3. u.ro \in RolloutId /\ Claim(u.ro, r, u.new)
      BY <2>1, <2>2 DEF Sound, Launched
    <2> QED BY <1>7, <2>1, <2>3 DEF WriteStatus
  <1> QED BY <1>4, <1>5, <1>6, <1>8, <1>9, <1>10
          DEF Next, Admin, Vehicle, Handler, HandlerFails, GetRollout, Restart, LaunchRollout,
              DeleteRobot, ProvisionRobot, RegisterEcus, vars, db, Run, ListUnprocessed,
              ReadRolloutRobots, PublishTargets, AbortRun, ListOngoing, CompleteRollout,
              WriteStatus, StartUpdate, FinishUpdate

(* The recorded images and what ECUs tried.                                *)
LEMMA InstalledStep ==
    ASSUME Inv, [Next]_vars, Kept
    PROVE  InstalledInv'
  <1> USE DEF Inv
  <1>1. ASSUME NEW ro, Launched(ro)
        PROVE  Launched(ro)' /\ image'[ro] = image[ro]
    BY <1>1 DEF Kept, Launched
  <1>2. ASSUME NEW e \in Ecu, NEW i, i # NoImage,
               \E ro \in device[e].done \cup device[e].failed : image[ro][HwidOf[e]] = i
        PROVE  \E ro \in device'[e].done \cup device'[e].failed : image'[ro][HwidOf[e]] = i
    <2>1. PICK ro \in device[e].done \cup device[e].failed : image[ro][HwidOf[e]] = i
      BY <1>2
    <2>2. image'[ro] = image[ro]
      BY <1>1 DEF InstalledInv, TriesLaunched
    <2>3. ro \in device'[e].done \cup device'[e].failed
      BY DEF Kept
    <2> QED BY <2>1, <2>2, <2>3
  <1>3. ASSUME \A e \in Ecu : installed'[e] = installed[e] \/ installed'[e] = NoImage
        PROVE  InstalledWasTried'
    BY <1>2, <1>3 DEF InstalledInv, InstalledWasTried
  <1>4. ASSUME UNCHANGED device
        PROVE  TriesLaunched'
    BY <1>1, <1>4 DEF InstalledInv, TriesLaunched
  <1>5. ASSUME NEW i \in 1..Len(events), HandleEcuEvent(i)
        PROVE  InstalledInv'
    <2> DEFINE ev == events[i]
    <2>1. ev \in Event /\ Lived(ev.rollout, ev.ecu, ev.status) /\ UNCHANGED device
      BY <1>5 DEF TypeOK, Evidence, HandleEcuEvent
    <2>2. CASE ev.status \in {"installation_completed", "installation_failed"}
      <3>1. installed' = [installed EXCEPT ![ev.ecu] = image[ev.rollout][HwidOf[ev.ecu]]]
        BY <1>5, <2>2 DEF HandleEcuEvent
      <3>2. ev.rollout \in device[ev.ecu].done \cup device[ev.ecu].failed
        BY <2>1, <2>2 DEF Lived
      <3>3. ASSUME NEW e \in Ecu, installed'[e] # NoImage
            PROVE  \E ro \in device[e].done \cup device[e].failed :
                      image[ro][HwidOf[e]] = installed'[e]
        <4>1. CASE e = ev.ecu
          BY <3>1, <3>2, <4>1 DEF TypeOK
        <4>2. CASE e # ev.ecu
          BY <3>1, <3>3, <4>2 DEF TypeOK, InstalledInv, InstalledWasTried
        <4> QED BY <4>1, <4>2
      <3>4. InstalledWasTried'
        BY <1>2, <3>3 DEF InstalledWasTried
      <3> QED BY <1>4, <2>1, <3>4 DEF InstalledInv
    <2>3. CASE ev.status \notin {"installation_completed", "installation_failed"}
      <3>1. UNCHANGED installed
        BY <1>5, <2>3 DEF HandleEcuEvent
      <3> QED BY <1>3, <1>4, <2>1, <3>1 DEF InstalledInv
    <2> QED BY <2>2, <2>3
  <1>6. ASSUME NEW e \in Ecu, StartUpdate(e)
        PROVE  InstalledInv'
    <2> DEFINE d == director[OwnerOf[e]]
    <2>1. /\ d.targets[e] # NoImage /\ UNCHANGED <<installed, status>>
          /\ device' = [device EXCEPT ![e].busy = d.rollout, ![e].gets = d.targets[e],
                                      ![e].tried = @ \cup {d.rollout}]
      BY <1>6 DEF StartUpdate, db
    <2>2. OwnerOf[e] \in Robot
      BY FleetAssumption
    <2>3. Launched(d.rollout)
      <3>1. d.rollout # 0 /\ d.rollout \in 0..MaxRollouts
        BY <2>1, <2>2 DEF DirectorInv, TypeOK
      <3> QED BY <2>2, <3>1, BoundsAssumption
              DEF DirectorInv, PublishedIsLaunched, Launched, RolloutId
    <2> HIDE DEF d
    <2>4. /\ device'[e].busy = d.rollout
          /\ device'[e].done = device[e].done /\ device'[e].failed = device[e].failed
          /\ \A f \in Ecu \ {e} : device'[f] = device[f]
      BY <2>1 DEF TypeOK, Device
    <2>5. TriesLaunched'
      BY <1>1, <2>3, <2>4 DEF InstalledInv, TriesLaunched
    <2> QED BY <1>3, <2>1, <2>5 DEF InstalledInv
  <1>7. ASSUME NEW e \in Ecu, NEW what \in Reported, FinishUpdate(e, what)
        PROVE  InstalledInv'
    <2>1. /\ device'[e].busy = 0
          /\ device'[e].done \subseteq device[e].done \cup {device[e].busy}
          /\ device'[e].failed \subseteq device[e].failed \cup {device[e].busy}
      BY <1>7, FinishedHistory
    <2>2. \A f \in Ecu \ {e} : device'[f] = device[f]
      BY <1>7, FinishedHistory
    <2>3. device[e].busy # 0 /\ UNCHANGED installed
      BY <1>7 DEF FinishUpdate, db
    <2>4. TriesLaunched'
      BY <1>1, <2>1, <2>2, <2>3 DEF InstalledInv, TriesLaunched
    <2> QED BY <1>3, <2>3, <2>4 DEF InstalledInv
  <1>8. ASSUME NEW r \in Robot, DeleteRobot(r)
        PROVE  InstalledInv'
    <2>1. UNCHANGED device /\ \A e \in Ecu : installed'[e] = installed[e] \/ installed'[e] = NoImage
      BY <1>8 DEF DeleteRobot, TypeOK
    <2> QED BY <1>3, <1>4, <2>1 DEF InstalledInv
  <1>9. ASSUME UNCHANGED <<installed, device>>
        PROVE  InstalledInv'
    BY <1>3, <1>4, <1>9 DEF InstalledInv
  <1> QED BY <1>5, <1>6, <1>7, <1>8, <1>9
          DEF Next, Admin, Vehicle, Handler, HandlerFails, GetRollout, Restart, CreateRollout,
              LaunchRollout, ProvisionRobot, RegisterEcus, vars, db, Run, ListUnprocessed,
              ReadRolloutRobots, SkipRobot, PublishTargets, AbortRun, ScheduleRobot,
              ListOngoing, CompleteRollout, UpdateRobot, WriteStatus

-----------------------------------------------------------------------------
(* The results for any overlap of runs and any order of the events.        *)
LEMMA InitInv == Init => Inv
  <1> SUFFICES ASSUME Init PROVE Inv
    OBVIOUS
  <1>1. TypeOK
    BY InitTyped
  <1>2. WorkersRemember
    BY DEF Init, WorkersRemember, Remembers, Resting
  <1>3. DirectorInv
    BY DEF Init, DirectorInv, PublishedIsLaunched, NoMetadata, NoTargets
  <1>4. VerdictIsReal /\ Evidence
    BY DEF Init, VerdictIsReal, Evidence, Lived
  <1>5. InstalledInv
    BY DEF Init, InstalledInv, InstalledWasTried, TriesLaunched, NoTargets
  <1> QED BY <1>1, <1>2, <1>3, <1>4, <1>5 DEF Inv

LEMMA StepInv == Inv /\ [Next]_vars => Inv'
  <1> SUFFICES ASSUME Inv, [Next]_vars PROVE Inv'
    OBVIOUS
  <1>1. Kept /\ TypeOK'
    BY StepKeeps, StepTyped DEF Inv
  <1> QED BY <1>1, WorkersStep, DirectorStep, EvidenceStep, VerdictStep, InstalledStep DEF Inv

LEMMA Invariance == Spec => []Inv
  BY InitInv, StepInv, PTL DEF Spec

(* Every column of the rollout tables holds a value of its enum, and what  *)
(* runs of the worker, event handlers and robots hold is well formed.      *)
THEOREM TypeCorrect == Spec => []TypeOK
  BY Invariance, PTL DEF Inv

(* processPending: for any fleet, any overlap of runs and any deletions,   *)
(* relaunches and restarts, a robot is only ever given targets of a        *)
(* launched rollout that includes it, each for the right hardware.         *)
THEOREM PublishedIsLaunchedAlways == Spec => []PublishedIsLaunched
  BY Invariance, PTL DEF Inv, DirectorInv

(* processStatuses and handleEcuEvent: whatever order events are handled   *)
(* in, and however late a run writes what it decided, the verdict on a     *)
(* robot is what its ECUs lived through.                                   *)
THEOREM VerdictIsRealAlways == Spec => []VerdictIsReal
  BY Invariance, PTL DEF Inv

(* handleEcuEvent, the only code that writes ecus.image_id: whatever events*)
(* are late, lost or of another life of the robot, the image recorded for  *)
(* an ECU is one that it tried to install to the end.                      *)
THEOREM InstalledWasTriedAlways == Spec => []InstalledWasTried
  BY Invariance, PTL DEF Inv, InstalledInv
=============================================================================

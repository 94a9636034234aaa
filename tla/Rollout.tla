------------------------------ MODULE Rollout ------------------------------
(***************************************************************************)
(* Rollouts of one team: an admin creates and launches them, runs of the   *)
(* rollout worker turn pending robots into director targets and roll ECU   *)
(* statuses up into robot and rollout statuses, robots install and send    *)
(* events, and each event is handled by a transaction nobody waits for.    *)
(*                                                                         *)
(* A step is one database query or transaction.  What a run of the worker  *)
(* has read stays in its memory while the other actors go on.  Only the    *)
(* newest targets of a robot are kept here: TufMetadata has the table.     *)
(*                                                                         *)
(* A robot that was deleted may be provisioned again under its name, and   *)
(* its ECUs registered again.  For the database they are new: the rows of  *)
(* earlier rollouts hold null where the robot and its ECUs were (lost).    *)
(***************************************************************************)
EXTENDS Naturals, Sequences, SequencesExt, FiniteSets

CONSTANTS Robot, Ecu, Hwid, Image, NoImage,
          OwnerOf,      \* [Ecu -> Robot]
          HwidOf,       \* [Ecu -> Hwid]
          ImageMaps,    \* the hwid_img_maps an admin may ask for
          Worker,       \* runs of the rollout worker that can overlap
          MaxRollouts,  \* bound: rollouts created
          MaxCrashes    \* bound: restarts of the server process

RolloutId == 1..MaxRollouts
RolloutStatus == {"none", "prepared", "launched", "completed"}
RobotStatus == {"none", "pending", "skipped", "scheduled", "accepted",
                "completed", "failed"}

(* EcuStatus, with download_started standing also for download_completed,  *)
(* installation_started and installation_applied, which no code tells      *)
(* apart; "null" is a row no event has touched, "none" is no row.          *)
Reported == {"download_started", "download_failed",
             "installation_completed", "installation_failed"}
EcuStatus == Reported \cup {"none", "null"}

MaybeImage == Image \cup {NoImage}
Event == [rollout: RolloutId, ecu: Ecu, status: Reported]

ASSUME FleetAssumption == /\ OwnerOf \in [Ecu -> Robot]
                          /\ HwidOf \in [Ecu -> Hwid]
                          /\ ImageMaps \subseteq [Hwid -> MaybeImage]
                          /\ NoImage \notin Image
ASSUME BoundsAssumption == MaxRollouts \in Nat /\ MaxCrashes \in Nat

VARIABLES
    status,     \* rollouts.status
    image,      \* rollout_hardware_images: image[ro][hwid]
    bot,        \* rollout_robots.status
    row,        \* rollout_robot_ecus.status
    lost,       \* rollout_robots.robot_id is null: robots deleted since
    robots,     \* robots that exist
    registered, \* robots whose ECUs are registered
    installed,  \* ecus.image_id
    director,   \* newest director targets of each robot
    events,     \* event handlers that have not committed
    worker,     \* memory of each run of the worker
    crashes,    \* restarts so far
    device      \* the robots themselves: per ECU, what it runs and has tried

db == <<status, image, bot, row, lost, robots, registered, installed, director>>
vars == <<db, events, worker, crashes, device>>

EcusOf(r) == {e \in Ecu : OwnerOf[e] = r}
Exists(e) == OwnerOf[e] \in robots \cap registered

-----------------------------------------------------------------------------
NoTargets == [e \in Ecu |-> NoImage]
NoMetadata == [rollout |-> 0, targets |-> NoTargets]

(* The memory of a run: where it is, the rollouts left to process, the one *)
(* at hand with its robots left and the ECUs to update in each, the robot  *)
(* whose targets were just written, and the status updates left to write.  *)
Resting == [at |-> "idle", queue |-> {}, ro |-> 0, batch |-> {},
            affected |-> [r \in Robot |-> {}], cur |-> {}, todo |-> {}]

Init ==
    /\ status = [ro \in RolloutId |-> "none"]
    /\ image = [ro \in RolloutId |-> [h \in Hwid |-> NoImage]]
    /\ bot = [ro \in RolloutId |-> [r \in Robot |-> "none"]]
    /\ row = [ro \in RolloutId |-> [e \in Ecu |-> "none"]]
    /\ lost = [ro \in RolloutId |-> {}]
    /\ robots = Robot
    /\ registered \in SUBSET Robot
    /\ installed = NoTargets
    /\ director = [r \in Robot |-> NoMetadata]
    /\ events = <<>>
    /\ worker = [w \in Worker |-> Resting]
    /\ crashes = 0
    /\ device = [e \in Ecu |-> [runs |-> NoImage, busy |-> 0, gets |-> NoImage,
                                tried |-> {}, done |-> {}, failed |-> {}]]

-----------------------------------------------------------------------------
(* createRollout: one transaction.  Whatever the target type, it ends with *)
(* a row per targeted robot and a row per registered ECU of it whose hwid  *)
(* the rollout has an image for.                                           *)
CreateRollout(ro, map, bots) ==
    /\ status[ro] = "none" /\ \A p \in RolloutId : p < ro => status[p] # "none"
    /\ bots # {}
    /\ status' = [status EXCEPT ![ro] = "prepared"]
    /\ image' = [image EXCEPT ![ro] = map]
    /\ bot' = [bot EXCEPT ![ro] = [r \in Robot |-> IF r \in bots THEN "pending" ELSE "none"]]
    /\ row' = [row EXCEPT ![ro] =
                 [e \in Ecu |-> IF /\ OwnerOf[e] \in bots /\ Exists(e)
                                   /\ map[HwidOf[e]] # NoImage
                                THEN "null" ELSE "none"]]
    /\ UNCHANGED <<lost, robots, registered, installed, director, events, worker, crashes,
                   device>>

(* launchRollout updates the status whatever it was.                       *)
LaunchRollout(ro) ==
    /\ status[ro] # "none"
    /\ status' = [status EXCEPT ![ro] = "launched"]
    /\ UNCHANGED <<image, bot, row, lost, robots, registered, installed, director, events,
                   worker, crashes, device>>

(* POST /ecus of a robot that is provisioned but not registered yet: rows  *)
(* without an image, whatever the ECUs run, and version 1 of its metadata, *)
(* without targets.  A run that knows the robot from its earlier life may  *)
(* have published a version 1 already: either is the newest then.          *)
RegisterEcus(r) ==
    /\ r \in robots \ registered
    /\ registered' = registered \cup {r}
    /\ director' \in {director, [director EXCEPT ![r] = NoMetadata]}
    /\ UNCHANGED <<status, image, bot, row, lost, robots, installed, events, worker, crashes,
                   device>>

(* deleteRobot: ECUs and director metadata go by cascade; rollout_robots   *)
(* and rollout_robot_ecus stay, with null in robot_id and ecu_id.          *)
DeleteRobot(r) ==
    /\ r \in robots
    /\ robots' = robots \ {r}
    /\ registered' = registered \ {r}
    /\ lost' = [ro \in RolloutId |-> IF bot[ro][r] = "none" THEN lost[ro] ELSE lost[ro] \cup {r}]
    /\ installed' = [e \in Ecu |-> IF OwnerOf[e] = r THEN NoImage ELSE installed[e]]
    /\ director' = [director EXCEPT ![r] = NoMetadata]
    /\ UNCHANGED <<status, image, bot, row, events, worker, crashes, device>>

(* POST /devices: a robot that is not in the table is created.             *)
ProvisionRobot(r) ==
    /\ r \notin robots
    /\ robots' = robots \cup {r}
    /\ UNCHANGED <<status, image, bot, row, lost, registered, installed, director, events,
                   worker, crashes, device>>

-----------------------------------------------------------------------------
(* processPending.                                                         *)
InMemory(w, mem) == worker' = [worker EXCEPT ![w] = mem]

First(queue) == CHOOSE ro \in queue : \A p \in queue : ro <= p

(* Mutant of HasPending: every robot, and not some, has to be pending.     *)
HasPendingEvery(ro) == \A r \in Robot : bot[ro][r] \in {"none", "pending"}

HasPending(ro) == \E r \in Robot : bot[ro][r] = "pending"

(* Mutant of ListUnprocessed: prepared rollouts are processed as well.     *)
ListUnprocessedAny(w) ==
    /\ worker[w].at = "idle"
    /\ InMemory(w, [Resting EXCEPT !.at = "rollouts",
                                   !.queue = {ro \in RolloutId : HasPending(ro)}])
    /\ UNCHANGED <<db, events, crashes, device>>

(* A cron run starts by listing the launched rollouts with pending robots. *)
ListUnprocessed(w) ==
    /\ worker[w].at = "idle"
    /\ InMemory(w, [Resting EXCEPT
                       !.at = "rollouts",
                       !.queue = {ro \in RolloutId : status[ro] = "launched" /\ HasPending(ro)}])
    /\ UNCHANGED <<db, events, crashes, device>>

(* The ECUs of r to update: in the rollout by hwid, and with another image *)
(* installed.  A robot that has been deleted since is null and has none.   *)
Affected(ro, r) ==
    {e \in EcusOf(r) : /\ r \notin lost[ro] /\ Exists(e)
                       /\ image[ro][HwidOf[e]] # NoImage
                       /\ image[ro][HwidOf[e]] # installed[e]}

(* The loop goes on with the next robot, or with the next rollout.         *)
Resume(mem) == [mem EXCEPT !.at = IF mem.batch = {} THEN "rollouts" ELSE "robots"]

(* Mutant of ReadRolloutRobots: the query forgets that only pending robots *)
(* are to be processed.                                                    *)
ReadRolloutRobotsAll(w) ==
    /\ worker[w].at = "rollouts"
    /\ worker[w].queue # {}
    /\ LET ro == First(worker[w].queue) IN
       InMemory(w, Resume([worker[w] EXCEPT
                             !.ro = ro, !.queue = @ \ {ro},
                             !.batch = {r \in Robot : bot[ro][r] # "none"},
                             !.affected = [r \in Robot |-> Affected(ro, r)]]))
    /\ UNCHANGED <<db, events, crashes, device>>

(* One query reads the pending robots of the oldest rollout left, with     *)
(* their ECUs: which ECUs are affected is decided on what it returned.     *)
ReadRolloutRobots(w) ==
    /\ worker[w].at = "rollouts"
    /\ worker[w].queue # {}
    /\ LET ro == First(worker[w].queue) IN
       InMemory(w, Resume([worker[w] EXCEPT
                             !.ro = ro, !.queue = @ \ {ro},
                             !.batch = {r \in Robot : bot[ro][r] = "pending"},
                             !.affected = [r \in Robot |-> Affected(ro, r)]]))
    /\ UNCHANGED <<db, events, crashes, device>>

(* setRolloutRobotStatus updates the row whatever its status is by now.    *)
SetBot(ro, r, new) == bot' = [bot EXCEPT ![ro][r] = new]

SkipRobot(w, r) ==
    /\ worker[w].at = "robots"
    /\ r \in worker[w].batch
    /\ worker[w].affected[r] = {}
    /\ SetBot(worker[w].ro, r, "skipped")
    /\ InMemory(w, Resume([worker[w] EXCEPT !.batch = @ \ {r}]))
    /\ UNCHANGED <<status, image, row, lost, robots, registered, installed, director, events,
                   crashes, device>>

(* generateNewMetadata keys the targets by image, so that of the ECUs of   *)
(* a robot that get one image only the last one is listed.                 *)
TargetsFor(ro, ecus) ==
    {t \in [Ecu -> MaybeImage] :
        /\ \A e \in Ecu : t[e] # NoImage => e \in ecus /\ t[e] = image[ro][HwidOf[e]]
        /\ \A e \in ecus : \E f \in ecus : t[f] = image[ro][HwidOf[e]]
        /\ \A e, f \in ecus : t[e] = t[f] /\ t[e] # NoImage => e = f}

PublishTargets(w, r) ==
    /\ worker[w].at = "robots"
    /\ r \in worker[w].batch
    /\ worker[w].affected[r] # {}
    /\ r \in robots
    /\ \E t \in TargetsFor(worker[w].ro, worker[w].affected[r]) :
          director' = [director EXCEPT ![r] = [rollout |-> worker[w].ro, targets |-> t]]
    /\ InMemory(w, [worker[w] EXCEPT !.at = "schedule", !.batch = @ \ {r}, !.cur = {r}])
    /\ UNCHANGED <<status, image, bot, row, lost, robots, registered, installed, events,
                   crashes, device>>

(* The foreign key refuses metadata of a robot deleted since the query, if *)
(* it is not back: the exception ends the whole run, statuses included.    *)
AbortRun(w) ==
    /\ worker[w].at = "robots"
    /\ \E r \in worker[w].batch \ robots : worker[w].affected[r] # {}
    /\ InMemory(w, Resting)
    /\ UNCHANGED <<db, events, crashes, device>>

ScheduleRobot(w) ==
    /\ worker[w].at = "schedule"
    /\ \E r \in worker[w].cur : SetBot(worker[w].ro, r, "scheduled")
    /\ InMemory(w, Resume([worker[w] EXCEPT !.cur = {}]))
    /\ UNCHANGED <<status, image, row, lost, robots, registered, installed, director, events,
                   crashes, device>>

-----------------------------------------------------------------------------
(* processStatuses: one query reads every launched rollout with its robots *)
(* and ECU rows; the updates it decides on are then written one by one.    *)
RowsOf(ro, r) == {row[ro][e] : e \in {f \in EcusOf(r) : row[ro][f] # "none"}}

(* Mutant of RobotVerdict: one completed ECU completes the robot.          *)
RobotVerdictSome(ro, r) ==
    CASE bot[ro][r] = "scheduled" /\ "null" \notin RowsOf(ro, r) -> "accepted"
      [] bot[ro][r] = "accepted" /\ "installation_completed" \in RowsOf(ro, r) -> "completed"
      [] OTHER -> bot[ro][r]

(* Mutant of RobotVerdict: a robot is accepted only while it is starting.  *)
RobotVerdictStarting(ro, r) ==
    CASE bot[ro][r] = "scheduled" /\ "download_started" \in RowsOf(ro, r) -> "accepted"
      [] bot[ro][r] = "accepted" /\ RowsOf(ro, r) \subseteq {"installation_completed"}
            -> "completed"
      [] OTHER -> bot[ro][r]

RobotVerdict(ro, r) ==
    CASE bot[ro][r] = "scheduled" /\ "null" \notin RowsOf(ro, r) -> "accepted"
      [] bot[ro][r] = "accepted" /\ RowsOf(ro, r) \subseteq {"installation_completed"}
            -> "completed"
      [] /\ bot[ro][r] = "accepted"
         /\ ~ RowsOf(ro, r) \subseteq {"installation_completed"}
         /\ "installation_failed" \in RowsOf(ro, r)
            -> "failed"
      [] OTHER -> bot[ro][r]

AllDone(ro) == \A r \in Robot : bot[ro][r] \in {"none", "skipped", "completed"}

RolloutUpdate(ro) == [ro |-> ro, robot |-> {}, new |-> "completed"]
RobotUpdates(ro) ==
    {[ro |-> ro, robot |-> {r}, new |-> RobotVerdict(ro, r)] :
        r \in {q \in Robot : RobotVerdict(ro, q) # bot[ro][q]}}

(* Mutant of ListOngoing: only rollouts with pending robots are looked at. *)
ListOngoingUnprocessed(w) ==
    /\ worker[w].at = "rollouts"
    /\ worker[w].queue = {}
    /\ LET todo == UNION {RobotUpdates(ro) : ro \in {p \in RolloutId : HasPending(p)}}
       IN  InMemory(w, IF todo = {} THEN Resting
                       ELSE [Resting EXCEPT !.at = "statuses", !.todo = todo])
    /\ UNCHANGED <<db, events, crashes, device>>

ListOngoing(w) ==
    /\ worker[w].at = "rollouts"
    /\ worker[w].queue = {}
    /\ LET ongoing == {ro \in RolloutId : status[ro] = "launched"}
           todo == {RolloutUpdate(ro) : ro \in {p \in ongoing : AllDone(p)}}
                     \cup UNION {RobotUpdates(ro) : ro \in {p \in ongoing : ~AllDone(p)}}
       IN  InMemory(w, IF todo = {} THEN Resting
                       ELSE [Resting EXCEPT !.at = "statuses", !.todo = todo])
    /\ UNCHANGED <<db, events, crashes, device>>

WriteStatus(w, u) ==
    /\ worker[w].at = "statuses"
    /\ u \in worker[w].todo
    /\ \A v \in worker[w].todo : u.ro <= v.ro
    /\ InMemory(w, IF worker[w].todo = {u} THEN Resting
                   ELSE [worker[w] EXCEPT !.todo = @ \ {u}])
    /\ UNCHANGED <<image, row, lost, robots, registered, installed, director, events,
                   crashes, device>>

(* setRolloutStatus and setRolloutRobotStatus, whatever the row holds now. *)
CompleteRollout(w) ==
    \E u \in worker[w].todo :
        /\ u.robot = {}
        /\ WriteStatus(w, u)
        /\ status' = [status EXCEPT ![u.ro] = u.new]
        /\ UNCHANGED bot

UpdateRobot(w) ==
    \E u \in worker[w].todo, r \in Robot :
        /\ u.robot = {r}
        /\ WriteStatus(w, u)
        /\ SetBot(u.ro, r, u.new)
        /\ UNCHANGED status

-----------------------------------------------------------------------------
(* The process restarts: handlers and runs under way are gone.             *)
Restart ==
    /\ crashes < MaxCrashes
    /\ crashes' = crashes + 1
    /\ events' = <<>>
    /\ worker' = [w \in Worker |-> Resting]
    /\ UNCHANGED <<db, device>>

(* getRollout reads the hwid of the ECU of every row.  The ECUs of a robot *)
(* that was deleted are null by now: the exception ends the process.       *)
GetRollout(ro) ==
    /\ status[ro] # "none"
    /\ \E e \in Ecu : row[ro][e] # "none" /\ OwnerOf[e] \in lost[ro]
    /\ Restart

(* The row that an event is about: its ECU is the one it was created for.  *)
HasRow(ev) == row[ev.rollout][ev.ecu] # "none" /\ OwnerOf[ev.ecu] \notin lost[ev.rollout]

(* Mutant of HandleEcuEvent: the image is set whatever the event's type.   *)
HandleEcuEventAny(i) ==
    LET ev == events[i] IN
    /\ HasRow(ev)
    /\ row' = [row EXCEPT ![ev.rollout][ev.ecu] = ev.status]
    /\ installed' = [installed EXCEPT ![ev.ecu] = image[ev.rollout][HwidOf[ev.ecu]]]
    /\ events' = RemoveAt(events, i)
    /\ UNCHANGED <<status, image, bot, lost, robots, registered, director, worker, crashes,
                   device>>

(* handleEcuEvent: one transaction per event of POST /events, in any order.*)
(* The image of the ECU is set to the rollout's when an installation ends, *)
(* well or not.                                                            *)
HandleEcuEvent(i) ==
    LET ev == events[i] IN
    /\ HasRow(ev)
    /\ row' = [row EXCEPT ![ev.rollout][ev.ecu] = ev.status]
    /\ installed' = IF ev.status \in {"installation_completed", "installation_failed"}
                    THEN [installed EXCEPT ![ev.ecu] = image[ev.rollout][HwidOf[ev.ecu]]]
                    ELSE installed
    /\ events' = RemoveAt(events, i)
    /\ UNCHANGED <<status, image, bot, lost, robots, registered, director, worker, crashes,
                   device>>

(* There is no such row: the update rejects, nothing catches it, and the   *)
(* unhandled rejection ends the process.                                   *)
HandlerFails(i) == ~HasRow(events[i]) /\ Restart

-----------------------------------------------------------------------------
(* Mutant of Emit: the targets carry no correlationId to send back.        *)
EmitUncorrelated(e, ro, what) ==
    events' = Append(events, [rollout |-> 0, ecu |-> e, status |-> what])

Emit(e, ro, what) == events' = Append(events, [rollout |-> ro, ecu |-> e, status |-> what])

(* The robot (aktualizr, external): an ECU tries the image its director    *)
(* targets list for it unless it runs it already, once per rollout, and    *)
(* the robot reports with the rollout robot's id as correlationId.  A      *)
(* robot that is not in the table is not served, and its events refused.   *)
StartUpdate(e) ==
    LET d == director[OwnerOf[e]] IN
    /\ OwnerOf[e] \in robots
    /\ device[e].busy = 0
    /\ d.targets[e] \notin {NoImage, device[e].runs}
    /\ d.rollout \notin device[e].tried
    /\ device' = [device EXCEPT ![e].busy = d.rollout, ![e].gets = d.targets[e],
                                ![e].tried = @ \cup {d.rollout}]
    /\ Emit(e, d.rollout, "download_started")
    /\ UNCHANGED <<db, worker, crashes>>

FinishUpdate(e, what) ==
    LET ro == device[e].busy IN
    /\ ro # 0
    /\ what \in Reported \ {"download_started"}
    /\ device' = [device EXCEPT
          ![e].busy = 0, ![e].gets = NoImage,
          ![e].runs = IF what = "installation_completed" THEN device[e].gets ELSE @,
          ![e].done = IF what = "installation_completed" THEN @ \cup {ro} ELSE @,
          ![e].failed = IF what = "installation_failed" THEN @ \cup {ro} ELSE @]
    /\ IF OwnerOf[e] \in robots THEN Emit(e, ro, what) ELSE UNCHANGED events
    /\ UNCHANGED <<db, worker, crashes>>

-----------------------------------------------------------------------------
Admin ==
    \/ \E ro \in RolloutId, map \in ImageMaps, bots \in SUBSET robots :
            CreateRollout(ro, map, bots)
    \/ \E ro \in RolloutId : LaunchRollout(ro) \/ GetRollout(ro)
    \/ \E r \in Robot : DeleteRobot(r)

Run(w) ==
    \/ ListUnprocessed(w)
    \/ ReadRolloutRobots(w)
    \/ \E r \in Robot : SkipRobot(w, r)
    \/ \E r \in Robot : PublishTargets(w, r)
    \/ AbortRun(w)
    \/ ScheduleRobot(w)
    \/ ListOngoing(w)
    \/ CompleteRollout(w)
    \/ UpdateRobot(w)

Handler == \E i \in 1..Len(events) : HandleEcuEvent(i) \/ HandlerFails(i)

Vehicle ==
    \/ \E r \in Robot : ProvisionRobot(r) \/ RegisterEcus(r)
    \/ \E e \in Ecu : StartUpdate(e)
    \/ \E e \in Ecu, what \in Reported : FinishUpdate(e, what)

Next == Admin \/ (\E w \in Worker : Run(w)) \/ Handler \/ Vehicle \/ Restart

(* The cron starts a run every ten seconds and emitted handlers run.       *)
Fairness == (\A w \in Worker : WF_vars(Run(w))) /\ WF_vars(Handler)

Spec == Init /\ [][Next]_vars /\ Fairness
-----------------------------------------------------------------------------
(* Types.                                                                  *)
Memory == [at: {"idle", "rollouts", "robots", "schedule", "statuses"},
           queue: SUBSET RolloutId, ro: 0..MaxRollouts, batch: SUBSET Robot,
           affected: [Robot -> SUBSET Ecu], cur: SUBSET Robot,
           todo: SUBSET [ro: RolloutId, robot: SUBSET Robot,
                         new: RobotStatus \cup RolloutStatus]]
Device == [runs: MaybeImage, busy: 0..MaxRollouts, gets: MaybeImage,
           tried: SUBSET RolloutId, done: SUBSET RolloutId, failed: SUBSET RolloutId]

(* Every column holds a value of its enum, and a run of the worker only    *)
(* remembers rollouts, robots and updates that mean something.             *)
TypeOK ==
    /\ status \in [RolloutId -> RolloutStatus]
    /\ image \in [RolloutId -> [Hwid -> MaybeImage]]
    /\ bot \in [RolloutId -> [Robot -> RobotStatus]]
    /\ row \in [RolloutId -> [Ecu -> EcuStatus]]
    /\ lost \in [RolloutId -> SUBSET Robot]
    /\ robots \in SUBSET Robot
    /\ registered \in SUBSET Robot
    /\ installed \in [Ecu -> MaybeImage]
    /\ director \in [Robot -> [rollout: 0..MaxRollouts, targets: [Ecu -> MaybeImage]]]
    /\ events \in Seq(Event)
    /\ worker \in [Worker -> Memory]
    /\ crashes \in 0..MaxCrashes
    /\ device \in [Ecu -> Device]

(* Whatever runs of the worker overlap, crash or find a robot gone, a      *)
(* robot's targets come from a rollout that an admin launched and that     *)
(* includes the robot, and they list for an ECU only the image the rollout *)
(* maps its hardware id to (docs/platform/rollouts.md: Prepared, and       *)
(* "will never install an image on an ECU with an incompatible hardware    *)
(* ID").  The run decides on what it read some queries ago.                *)
PublishedIsLaunched ==
    \A r \in Robot : LET d == director[r] IN
        d.rollout # 0 =>
            /\ status[d.rollout] \in {"launched", "completed"}
            /\ bot[d.rollout][r] # "none"
            /\ \A e \in Ecu : d.targets[e] # NoImage =>
                  OwnerOf[e] = r /\ d.targets[e] = image[d.rollout][HwidOf[e]]

(* The verdict on a robot is what its ECUs lived through: "completed" only *)
(* if every ECU with a row installed the image, "failed" only if some ECU  *)
(* failed to.  Events may be handled out of order, lost in a restart, and  *)
(* read by a run that writes its verdict later (processStatuses).          *)
VerdictIsReal ==
    \A ro \in RolloutId, r \in Robot :
        /\ bot[ro][r] = "completed" =>
              \A e \in EcusOf(r) : row[ro][e] # "none" => ro \in device[e].done
        /\ bot[ro][r] = "failed" => \E e \in EcusOf(r) : ro \in device[e].failed

(* When runs of the worker do not overlap, a robot's status only moves     *)
(* forward along the edges the worker is written for, although the updates *)
(* are unconditional (setRolloutRobotStatus): deletions, restarts between  *)
(* publishing and scheduling, and relaunches included.                     *)
ForwardOnly ==
    \A ro \in RolloutId, r \in Robot : bot'[ro][r] # bot[ro][r] =>
        <<bot[ro][r], bot'[ro][r]>> \in
            {<<"none", "pending">>, <<"pending", "skipped">>, <<"pending", "scheduled">>,
             <<"scheduled", "accepted">>, <<"accepted", "completed">>, <<"accepted", "failed">>}
StatusMonotone == [][ForwardOnly]_vars

(* What the database says an ECU has installed, and the next rollout       *)
(* relies on to skip it, is an image that the ECU tried to install to the  *)
(* end, in some rollout: events of other rollouts and of another life of   *)
(* the robot, late, lost or out of order, never put another one there.     *)
InstalledWasTried ==
    \A e \in Ecu : installed[e] # NoImage =>
        \E ro \in device[e].done \cup device[e].failed : image[ro][HwidOf[e]] = installed[e]

(* A pending robot of a launched rollout is eventually processed, even if  *)
(* other robots of its rollout are deleted under the run and end it.       *)
PendingIsProcessed ==
    \A ro \in RolloutId, r \in Robot :
        (status[ro] = "launched" /\ bot[ro][r] = "pending") ~> (bot[ro][r] # "pending")

(* Once every ECU row of a scheduled robot says the installation completed,*)
(* and no earlier event of it is still to be handled (a late one overwrites*)
(* its row), the robot is eventually completed: two runs, one per edge.    *)
ReportedIsCompleted ==
    \A ro \in RolloutId, r \in Robot :
        (/\ status[ro] = "launched" /\ bot[ro][r] \in {"scheduled", "accepted"}
         /\ RowsOf(ro, r) = {"installation_completed"}
         /\ \A i \in 1..Len(events) : events[i].rollout = ro => OwnerOf[events[i].ecu] # r)
            ~> (bot[ro][r] = "completed")

(* A launched rollout whose robots are all skipped or completed completes. *)
RolloutCompletes ==
    \A ro \in RolloutId :
        (status[ro] = "launched" /\ AllDone(ro)) ~> (status[ro] = "completed")

(* docs/platform/rollouts.md, "Completed": "All affected ECUs have tried   *)
(* (successfully or not) to update."  An affected ECU is one that the      *)
(* rollout published an image for.                                         *)
CompletedMeansTried ==
    \A ro \in RolloutId, e \in Ecu :
        LET d == director[OwnerOf[e]] IN
        status[ro] = "completed" /\ d.rollout = ro /\ d.targets[e] # NoImage
            => ro \in device[e].tried

(* docs/platform/rollouts.md: "For each ECU with a given hardware ID, which*)
(* image should be installed".  While a rollout's targets are the robot's, *)
(* they list every ECU it has a row for, unless it has the image already.  *)
AffectedAreServed ==
    \A ro \in RolloutId, e \in Ecu :
        LET r == OwnerOf[e] IN
        (/\ bot[ro][r] = "scheduled" /\ director[r].rollout = ro
         /\ row[ro][e] = "null" /\ installed[e] # image[ro][HwidOf[e]])
            => director[r].targets[e] # NoImage
=============================================================================

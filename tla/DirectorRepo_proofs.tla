------------------------ MODULE DirectorRepo_proofs ------------------------
(***************************************************************************)
(* Safety of DirectorRepo for any robots, ECUs, payloads, requests and     *)
(* bounds, with no assumption on the order or the number of requests.      *)
(*                                                                         *)
(* Neither property is inductive: both depend on what the requests in      *)
(* progress remember.  KeysKnown says what a registration and a deletion   *)
(* know of the key store while they loop over their ECUs, CountersKnown    *)
(* what a manifest that passed its checks knows of the rows saved since.   *)
(***************************************************************************)
EXTENDS DirectorRepo, SequenceTheorems, TLAPS

(* What a request remembers.                                               *)
Memory == [at: {"idle", "meta", "start", "put_keys", "check", "save", "delete_row",
                "delete_keys"},
           kind: {"none", "ecus", "manifest", "report", "delete"},
           robot: Robot \cup {NoRobot}, todo: SUBSET Ecu, new: SUBSET Ecu,
           manifest: Manifest \cup {NoManifest},
           valid: BOOLEAN, twin: BOOLEAN, raced: BOOLEAN]

(* A request is about a robot.                                             *)
About(m) ==
    /\ m.kind # "none" => m.robot \in Robot
    /\ m.kind = "manifest" => m.manifest \in Manifest
    /\ m.kind = "delete" => m.at \in {"delete_row", "delete_keys"}

Typed ==
    /\ TypeOK
    /\ handler \in [Handler -> Memory]
    /\ manifests \in [Robot -> Seq(SavedManifest)]
    /\ \A h \in Handler : About(handler[h])

(* A registration that met no deletion of its ECUs has a key for those it  *)
(* is done with.  A deletion that has its rows behind it holds no          *)
(* registered ECU, but for those that met it.                              *)
KeysKnown ==
    /\ \A h \in Handler, e \in Ecu :
           handler[h].kind = "delete" /\ e \in handler[h].todo =>
               \/ ecus[e] = NoRobot
               \/ e \in raced
               \/ handler[h].at = "delete_row" /\ ecus[e] = handler[h].robot
    /\ \A g, h \in Handler, e \in Ecu :
           /\ handler[g].kind = "ecus" /\ e \in handler[g].new
           /\ handler[h].kind = "delete" /\ e \in handler[h].todo
           => handler[g].raced
    /\ \A g \in Handler, e \in Ecu :
           handler[g].kind = "ecus" /\ e \in handler[g].new =>
               handler[g].raced \/ e \in handler[g].todo \/ e \in keys

(* Manifests of one robot and one counter know of each other, and one that *)
(* passed the checks met those that were saved with its counter since.     *)
CountersKnown ==
    /\ \A g, h \in Handler :
           /\ g # h /\ handler[g].kind = "manifest" /\ handler[h].kind = "manifest"
           /\ handler[g].robot = handler[h].robot
           /\ handler[g].manifest.counter = handler[h].manifest.counter
           => handler[g].twin
    /\ \A h \in Handler :
           handler[h].kind = "manifest" /\ handler[h].valid =>
               \A i \in DOMAIN manifests[handler[h].robot] :
                   manifests[handler[h].robot][i].manifest.counter = handler[h].manifest.counter
                       => handler[h].twin

KeyInv == EcusHaveKeys /\ KeysKnown
CounterInv == CounterAcceptedOnce /\ CountersKnown

IInv == Typed /\ KeyInv /\ CounterInv

-----------------------------------------------------------------------------
LEMMA IdleTyped ==
    /\ Idle \in Memory /\ About(Idle)
    /\ Idle.kind = "none" /\ Idle.todo = {} /\ Idle.new = {} /\ ~Idle.valid
BY DEF Idle, Memory, About

LEMMA InitIInv == Init => IInv
<1> SUFFICES ASSUME Init PROVE IInv
  OBVIOUS
<1>1. \A h \in Handler : handler[h] = Idle
  BY DEF Init
<1>2. \A r \in Robot : manifests[r] = <<>> /\ <<>> \in Seq(SavedManifest) /\ DOMAIN <<>> = {}
  BY DEF Init
<1>3. Typed
  <2>1. restarts \in 0..MaxRestarts
    BY DirectorAssumption DEF Init
  <2> QED
    BY <1>1, <1>2, <2>1, IdleTyped DEF Init, Typed, TypeOK
<1>4. KeyInv
  BY <1>1, IdleTyped DEF Init, KeyInv, EcusHaveKeys, KeysKnown
<1>5. CounterInv
  BY <1>1, <1>2, IdleTyped DEF CounterInv, CounterAcceptedOnce, CountersKnown
<1> QED
  BY <1>3, <1>4, <1>5 DEF IInv

(* The end of the process, and every step that throws.                     *)
LEMMA EndsKeep ==
    ASSUME IInv, ProcessEnds, UNCHANGED <<provider, tables, keys, raced>>
    PROVE  IInv'
<1> USE DEF IInv, tables
<1>1. \A h \in Handler : handler'[h] = Idle
  BY DEF ProcessEnds
<1>2. Typed'
  <2>1. restarts' \in 0..MaxRestarts
    BY DirectorAssumption DEF ProcessEnds, Typed, TypeOK
  <2>2. handler' \in [Handler -> Memory]
    BY IdleTyped DEF ProcessEnds
  <2> QED
    BY <1>1, <2>1, <2>2, IdleTyped DEF Typed, TypeOK
<1>3. KeyInv'
  BY <1>1, IdleTyped DEF KeyInv, EcusHaveKeys, KeysKnown
<1>4. CounterInv'
  BY <1>1, IdleTyped DEF CounterInv, CounterAcceptedOnce, CountersKnown
<1> QED
  BY <1>2, <1>3, <1>4

(* A step that saves and starts no manifest.                               *)
LEMMA CountersKept ==
    ASSUME CounterInv, UNCHANGED manifests,
           \A g \in Handler : handler'[g].kind = "manifest" =>
               /\ handler[g].kind = "manifest" /\ handler'[g].robot = handler[g].robot
               /\ handler'[g].manifest = handler[g].manifest
               /\ (handler'[g].valid => handler[g].valid)
               /\ handler'[g].twin = handler[g].twin
    PROVE  CounterInv'
BY DEF CounterInv, CounterAcceptedOnce, CountersKnown

(* A step that leaves registrations, deletions and the keys alone.         *)
LEMMA KeysKept ==
    ASSUME KeyInv, UNCHANGED <<ecus, keys, raced>>,
           \A g \in Handler : handler'[g].kind \in {"ecus", "delete"} =>
               /\ handler'[g].kind = handler[g].kind /\ handler'[g].robot = handler[g].robot
               /\ handler'[g].todo = handler[g].todo /\ handler'[g].new = handler[g].new
               /\ handler'[g].raced = handler[g].raced
               /\ (handler'[g].kind = "delete" => handler'[g].at = handler[g].at)
    PROVE  KeyInv'
<1>1. EcusHaveKeys'
  BY DEF KeyInv, EcusHaveKeys
<1>2. KeysKnown'
  BY DEF KeyInv, KeysKnown
<1> QED
  BY <1>1, <1>2 DEF KeyInv

(* A request that moves on or ends, and changes nothing else.              *)
LEMMA MoveKeeps ==
    ASSUME IInv, NEW h \in Handler, NEW m \in Memory, About(m),
           handler' = [handler EXCEPT ![h] = m],
           UNCHANGED <<provider, tables, keys, raced, restarts>>,
           m.kind \in {"ecus", "manifest", "delete"} =>
               /\ m.kind = handler[h].kind /\ m.robot = handler[h].robot
               /\ m.todo = handler[h].todo /\ m.new = handler[h].new
               /\ m.manifest = handler[h].manifest /\ (m.valid => handler[h].valid)
               /\ m.twin = handler[h].twin /\ m.raced = handler[h].raced
               /\ (m.kind = "delete" => m.at = handler[h].at)
    PROVE  IInv'
<1> USE DEF IInv, tables
<1>1. \A g \in Handler : handler'[g] = IF g = h THEN m ELSE handler[g]
  BY DEF Typed
<1>2. Typed'
  BY <1>1 DEF Typed, TypeOK
<1>3. KeyInv'
  <2>1. \A g \in Handler : handler'[g].kind \in {"ecus", "delete"} =>
            /\ handler'[g].kind = handler[g].kind /\ handler'[g].robot = handler[g].robot
            /\ handler'[g].todo = handler[g].todo /\ handler'[g].new = handler[g].new
            /\ handler'[g].raced = handler[g].raced
            /\ (handler'[g].kind = "delete" => handler'[g].at = handler[g].at)
    BY <1>1
  <2> QED
    BY <2>1, KeysKept
<1>4. CounterInv'
  <2>1. ASSUME NEW g \in Handler, handler'[g].kind = "manifest"
        PROVE  /\ handler'[g].kind = handler[g].kind /\ handler'[g].robot = handler[g].robot
               /\ handler'[g].manifest = handler[g].manifest
               /\ (handler'[g].valid => handler[g].valid)
               /\ handler'[g].twin = handler[g].twin
    BY <1>1, <2>1
  <2> QED
    BY <2>1, CountersKept
<1> QED
  BY <1>2, <1>3, <1>4

-----------------------------------------------------------------------------
(* Registrations and the keys.                                             *)
LEMMA StartRegistrationKeeps ==
    ASSUME IInv, NEW h \in Handler, NEW r \in Robot, StartRegistration(h, r)
    PROVE  IInv'
<1> USE DEF IInv, tables
<1> DEFINE met(p) == \E g \in Handler : handler[g].kind = "delete" /\ handler[g].todo \cap p # {}
           request(p) == [[Idle EXCEPT !.kind = "ecus", !.todo = p, !.new = p, !.raced = met(p)]
                              EXCEPT !.robot = r, !.at = "meta"]
<1>1. PICK p \in Payloads[r] : handler' = [handler EXCEPT ![h] = request(p)]
  BY DEF StartRegistration, MustBeRobot
<1>2. UNCHANGED <<provider, tables, keys, raced, restarts>> /\ handler[h].kind = "none"
  BY DEF StartRegistration, MustBeRobot
<1>3. PICK m, flag : m = request(p) /\ flag = met(p) /\ flag \in BOOLEAN
  <2>1. met(p) \in BOOLEAN
    BY Zenon
  <2> QED
    BY <2>1, Zenon
<1>4. p \subseteq Ecu
  BY DirectorAssumption
<1>5. /\ m \in Memory /\ m.kind = "ecus" /\ m.robot = r /\ m.todo = p /\ m.new = p
      /\ m.raced = flag
  <2>1. PICK a : a = [Idle EXCEPT !.kind = "ecus", !.todo = p, !.new = p, !.raced = flag]
    OBVIOUS
  <2>2. /\ a \in Memory /\ a.kind = "ecus" /\ a.todo = p /\ a.new = p /\ a.raced = flag
    <3>1. a.raced = flag
      BY <1>3, <2>1, IdleTyped DEF Memory
    <3>2. a.kind = "ecus" /\ a.todo = p /\ a.new = p
      BY <1>3, <2>1, IdleTyped DEF Memory
    <3>3. a \in Memory
      BY <1>3, <1>4, <2>1, IdleTyped DEF Memory
    <3> QED
      BY <3>1, <3>2, <3>3
  <2>3. m = [a EXCEPT !.robot = r, !.at = "meta"]
    BY <1>3, <2>1
  <2> HIDE DEF request, met
  <2> QED
    BY <2>2, <2>3 DEF Memory
<1> HIDE DEF request, met
<1>10. About(m)
  BY <1>5 DEF About
<1>6. \A g \in Handler : handler'[g] = IF g = h THEN m ELSE handler[g]
  BY <1>1, <1>3 DEF Typed
<1>7. Typed'
  <2>1. handler' \in [Handler -> Memory]
    BY <1>1, <1>3, <1>5 DEF Typed
  <2> QED
    BY <1>2, <1>10, <1>6, <2>1 DEF Typed, TypeOK
<1>8. KeyInv'
  <2>1. EcusHaveKeys'
    BY <1>2 DEF KeyInv, EcusHaveKeys
  <2>2. ASSUME NEW g \in Handler, NEW e \in Ecu, handler[g].kind = "delete",
               e \in handler[g].todo, e \in p
        PROVE  m.raced
    BY <1>3, <1>5, <2>2 DEF met
  <2> QED
    BY <1>2, <1>5, <1>6, <2>1, <2>2 DEF KeyInv, KeysKnown
<1>9. CounterInv'
  BY <1>2, <1>5, <1>6, CountersKept
<1> QED
  BY <1>7, <1>8, <1>9

LEMMA PutEcuKeyKeeps ==
    ASSUME IInv, NEW h \in Handler, NEW e \in Ecu, PutEcuKey(h, e)
    PROVE  IInv'
<1> USE DEF IInv, tables
<1>1. CASE ~CanPut(e)
  BY <1>1, EndsKeep DEF PutEcuKey
<1>2. CASE CanPut(e)
  <2> DEFINE m == [handler[h] EXCEPT !.todo = @ \ {e}]
  <2>1. /\ keys' = keys \cup {e} /\ handler' = [handler EXCEPT ![h] = m]
        /\ UNCHANGED <<provider, tables, raced, restarts>> /\ handler[h].kind = "ecus"
    BY <1>2 DEF PutEcuKey, At, Typed
  <2>2. m \in Memory /\ About(m)
    BY DEF Typed, Memory, About
  <2>3. \A g \in Handler : /\ handler'[g] = IF g = h THEN m ELSE handler[g]
                           /\ handler[g] \in Memory
    BY <2>1 DEF Typed
  <2>4. \A g \in Handler :
            /\ handler'[g].kind = handler[g].kind /\ handler'[g].robot = handler[g].robot
            /\ handler'[g].todo = (IF g = h THEN handler[g].todo \ {e} ELSE handler[g].todo)
            /\ handler'[g].new = handler[g].new /\ handler'[g].raced = handler[g].raced
            /\ handler'[g].manifest = handler[g].manifest /\ handler'[g].valid = handler[g].valid
            /\ handler'[g].twin = handler[g].twin /\ handler'[g].at = handler[g].at
    BY <2>3 DEF Memory
  <2>5. Typed'
    <3>1. handler' \in [Handler -> Memory]
      BY <2>1, <2>2 DEF Typed
    <3> QED
      BY <2>1, <2>2, <2>3, <3>1 DEF Typed, TypeOK
  <2> HIDE DEF m
  <2>6. KeyInv'
    <3>1. EcusHaveKeys'
      BY <2>1 DEF KeyInv, EcusHaveKeys
    <3>2. ASSUME NEW g \in Handler, NEW x \in Ecu,
                 handler'[g].kind = "ecus", x \in handler'[g].new
          PROVE  handler'[g].raced \/ x \in handler'[g].todo \/ x \in keys'
      <4>1. handler[g].raced \/ x \in handler[g].todo \/ x \in keys
        BY <2>4, <3>2 DEF KeyInv, KeysKnown
      <4>2. CASE x = e
        BY <2>1, <4>2
      <4>3. CASE x # e
        <5>1. x \in handler[g].todo => x \in handler'[g].todo
          BY <2>4, <4>3
        <5>2. handler[g].raced => handler'[g].raced
          BY <2>4, Zenon
        <5>3. x \in keys => x \in keys'
          BY <2>1
        <5> QED
          BY <4>1, <5>1, <5>2, <5>3, Zenon
      <4> QED
        BY <4>2, <4>3
    <3>3. ASSUME NEW g \in Handler, NEW x \in Ecu,
                 handler'[g].kind = "delete", x \in handler'[g].todo
          PROVE  \/ ecus'[x] = NoRobot
                 \/ x \in raced'
                 \/ handler'[g].at = "delete_row" /\ ecus'[x] = handler'[g].robot
      <4>1. handler[g].kind = "delete" /\ x \in handler[g].todo
        BY <2>4, <3>3
      <4> QED
        BY <2>1, <2>4, <4>1 DEF KeyInv, KeysKnown
    <3>4. ASSUME NEW g \in Handler, NEW k \in Handler, NEW x \in Ecu,
                 handler'[g].kind = "ecus", x \in handler'[g].new,
                 handler'[k].kind = "delete", x \in handler'[k].todo
          PROVE  handler'[g].raced
      <4>1. /\ handler[g].kind = "ecus" /\ x \in handler[g].new
            /\ handler[k].kind = "delete" /\ x \in handler[k].todo
        BY <2>4, <3>4
      <4> QED
        BY <2>4, <4>1 DEF KeyInv, KeysKnown
    <3> QED
      BY <3>1, <3>2, <3>3, <3>4 DEF KeyInv, KeysKnown
  <2>7. CounterInv'
    BY <2>1, <2>4, CountersKept
  <2> QED
    BY <2>5, <2>6, <2>7
<1> QED
  BY <1>1, <1>2

LEMMA CommitRegistrationKeeps ==
    ASSUME IInv, NEW h \in Handler, CommitRegistration(h)
    PROVE  IInv'
<1> USE DEF IInv, tables
<1> DEFINE r == handler[h].robot
           new == handler[h].new
<1>1. CASE ~CanRegister(r, new)
  <2>1. ProcessEnds /\ UNCHANGED <<provider, tables, keys, raced>>
    BY <1>1 DEF CommitRegistration
  <2> QED
    BY <2>1, EndsKeep
<1>2. CASE CanRegister(r, new)
  <2>1. /\ handler[h].kind = "ecus" /\ handler[h].todo = {}
        /\ ecus' = [e \in Ecu |-> IF e \in new THEN r ELSE ecus[e]]
        /\ registered' = registered \cup {r}
        /\ metadata' = [metadata EXCEPT ![r] = @ + 1]
        /\ raced' = IF handler[h].raced THEN raced \cup new ELSE raced \ new
        /\ handler' = [handler EXCEPT ![h] = Idle]
        /\ UNCHANGED <<provider, robots, manifests, keys, restarts>>
    BY <1>2 DEF CommitRegistration, At, Return
  <2>2. r \in robots /\ r \in Robot /\ new \subseteq Ecu /\ \A e \in new : ecus[e] = NoRobot
    BY <1>2 DEF CanRegister, Typed, TypeOK, Memory
  <2>3. \A g \in Handler : handler'[g] = IF g = h THEN Idle ELSE handler[g]
    BY <2>1 DEF Typed
  <2>4. Typed'
    <3>1. handler' \in [Handler -> Memory]
      BY <2>1, IdleTyped DEF Typed
    <3>2. metadata' \in [Robot -> Nat]
      BY <2>1, <2>2 DEF Typed, TypeOK
    <3>3. ecus' \in [Ecu -> Robot \cup {NoRobot}]
      BY <2>1, <2>2 DEF Typed, TypeOK
    <3> QED
      BY <2>1, <2>2, <2>3, <3>1, <3>2, <3>3, IdleTyped DEF Typed, TypeOK
  <2> HIDE DEF r, new
  <2>5. \A e \in Ecu : ecus'[e] = IF e \in new THEN r ELSE ecus[e]
    BY <2>1
  <2>6. handler[h].raced \in BOOLEAN /\ (handler[h].raced => raced' = raced \cup new)
        /\ (~handler[h].raced => raced' = raced \ new)
    BY <2>1 DEF Typed, Memory
  <2>7. handler[h].new = new
    BY DEF new
  <2>8. EcusHaveKeys'
    <3> SUFFICES ASSUME NEW e \in Ecu, ecus'[e] # NoRobot, e \notin raced'
                 PROVE  e \in keys
      BY <2>1 DEF EcusHaveKeys
    <3>1. CASE e \in new
      BY <2>1, <2>6, <2>7, <3>1 DEF KeyInv, KeysKnown
    <3>2. CASE e \notin new
      BY <2>5, <2>6, <3>2 DEF KeyInv, EcusHaveKeys
    <3> QED
      BY <3>1, <3>2
  <2>9. KeysKnown'
    <3>1. ASSUME NEW g \in Handler, NEW e \in Ecu,
                 handler'[g].kind = "delete", e \in handler'[g].todo
          PROVE  \/ ecus'[e] = NoRobot
                 \/ e \in raced'
                 \/ handler'[g].at = "delete_row" /\ ecus'[e] = handler'[g].robot
      <4>1. handler'[g] = handler[g] /\ handler[g].kind = "delete" /\ e \in handler[g].todo
        BY <2>3, <3>1, IdleTyped
      <4>2. CASE e \in new
        BY <2>1, <2>6, <2>7, <4>1, <4>2 DEF KeyInv, KeysKnown
      <4>3. CASE e \notin new
        BY <2>5, <2>6, <4>1, <4>3 DEF KeyInv, KeysKnown
      <4> QED
        BY <4>2, <4>3
    <3> QED
      BY <2>1, <2>3, <3>1, IdleTyped DEF KeyInv, KeysKnown
  <2>10. CounterInv'
    BY <2>1, <2>3, IdleTyped, CountersKept
  <2> QED
    BY <2>4, <2>8, <2>9, <2>10 DEF KeyInv
<1> QED
  BY <1>1, <1>2

-----------------------------------------------------------------------------
(* Manifests.                                                              *)
LEMMA SendManifestKeeps ==
    ASSUME IInv, NEW h \in Handler, NEW r \in Robot, NEW f \in Reports[r], SendManifest(h, r, f)
    PROVE  IInv'
<1> USE DEF IInv, tables
<1> DEFINE twins == {g \in Handler : /\ handler[g].kind = "manifest"
                                     /\ handler[g].robot = r
                                     /\ handler[g].manifest.counter = f.counter}
           others == [g \in Handler |-> IF g \in twins THEN [handler[g] EXCEPT !.twin = TRUE]
                                                       ELSE handler[g]]
           request == [[Idle EXCEPT !.kind = "manifest", !.manifest = f, !.twin = twins # {}]
                          EXCEPT !.robot = r, !.at = "meta"]
<1>1. /\ handler' = [others EXCEPT ![h] = request]
      /\ UNCHANGED <<provider, tables, keys, raced, restarts>> /\ handler[h].kind = "none"
  BY DEF SendManifest, MustBeRobot
<1>2. f \in Manifest
  BY DirectorAssumption
<1>3. PICK m, flag : m = request /\ flag = (twins # {}) /\ flag \in BOOLEAN
  <2>1. (twins # {}) \in BOOLEAN
    BY Zenon
  <2> QED
    BY <2>1, Zenon
<1>4. /\ m \in Memory /\ m.kind = "manifest" /\ m.robot = r /\ m.manifest = f
      /\ m.twin = flag /\ ~m.valid
  <2>1. PICK a : a = [Idle EXCEPT !.kind = "manifest", !.manifest = f, !.twin = flag]
    OBVIOUS
  <2>2. a \in Memory /\ a.kind = "manifest" /\ a.manifest = f /\ a.twin = flag /\ ~a.valid
    <3>1. a.twin = flag
      BY <1>3, <2>1, IdleTyped DEF Memory
    <3>2. a.kind = "manifest" /\ a.manifest = f /\ ~a.valid
      BY <1>3, <2>1, IdleTyped DEF Memory
    <3>3. a \in Memory
      BY <1>2, <1>3, <2>1, IdleTyped DEF Memory
    <3> QED
      BY <3>1, <3>2, <3>3
  <2>3. m = [a EXCEPT !.robot = r, !.at = "meta"]
    BY <1>3, <2>1
  <2> HIDE DEF request, twins
  <2> QED
    BY <2>2, <2>3 DEF Memory
<1>5. /\ \A g \in Handler : handler[g] \in Memory
      /\ \A g \in Handler : g # h => handler'[g] = others[g]
      /\ handler'[h] = m
  BY <1>1, <1>3 DEF Typed
<1>6. ASSUME NEW g \in Handler, g # h
      PROVE  /\ handler'[g] \in Memory
             /\ handler'[g].kind = handler[g].kind /\ handler'[g].robot = handler[g].robot
             /\ handler'[g].todo = handler[g].todo /\ handler'[g].new = handler[g].new
             /\ handler'[g].raced = handler[g].raced /\ handler'[g].at = handler[g].at
             /\ handler'[g].manifest = handler[g].manifest
             /\ handler'[g].valid = handler[g].valid
             /\ handler'[g].twin = IF g \in twins THEN TRUE ELSE handler[g].twin
  <2>1. CASE g \in twins
    <3>1. handler'[g] = [handler[g] EXCEPT !.twin = TRUE]
      BY <1>5, <1>6, <2>1
    <3> HIDE DEF twins
    <3> QED
      BY <1>5, <2>1, <3>1 DEF Memory
  <2>2. CASE g \notin twins
    <3>1. handler'[g] = handler[g]
      BY <1>5, <1>6, <2>2
    <3> HIDE DEF twins
    <3> QED
      BY <1>5, <2>2, <3>1
  <2> QED
    BY <2>1, <2>2
<1>7. \A g \in Handler : g \in twins <=> /\ handler[g].kind = "manifest"
                                         /\ handler[g].robot = r
                                         /\ handler[g].manifest.counter = f.counter
  OBVIOUS
<1>8. m.twin <=> twins # {}
  BY <1>3, <1>4, Zenon
<1> HIDE DEF twins, others, request
<1>9. Typed'
  <2>1. handler' \in [Handler -> Memory]
    <3>1. \A g \in Handler : handler'[g] \in Memory
      BY <1>4, <1>5, <1>6
    <3>2. handler' = [g \in Handler |-> handler'[g]]
      BY <1>1 DEF others
    <3> QED
      BY <3>1, <3>2
  <2>2. \A g \in Handler : About(handler'[g])
    BY <1>2, <1>4, <1>5, <1>6 DEF Typed, About
  <2> QED
    BY <1>1, <2>1, <2>2 DEF Typed, TypeOK
<1>10. KeyInv'
  <2>1. \A g \in Handler : handler'[g].kind \in {"ecus", "delete"} => g # h
    BY <1>4, <1>5
  <2> QED
    BY <1>1, <1>6, <2>1, KeysKept
<1>11. CounterAcceptedOnce'
  BY <1>1 DEF CounterInv, CounterAcceptedOnce
<1>12. ASSUME NEW g \in Handler, NEW k \in Handler, g # k,
              handler'[g].kind = "manifest", handler'[k].kind = "manifest",
              handler'[g].robot = handler'[k].robot,
              handler'[g].manifest.counter = handler'[k].manifest.counter
       PROVE  handler'[g].twin
  <2>1. CASE g = h
    <3>1. k \in twins
      BY <1>4, <1>5, <1>6, <1>7, <1>12, <2>1
    <3> QED
      BY <1>5, <1>8, <2>1, <3>1
  <2>2. CASE k = h
    <3>1. g \in twins
      BY <1>4, <1>5, <1>6, <1>7, <1>12, <2>2
    <3>2. g # h
      BY <1>12, <2>2
    <3>3. handler'[g].twin = TRUE
      BY <1>6, <3>1, <3>2
    <3> QED
      BY <3>3, Zenon
  <2>3. CASE g # h /\ k # h
    <3>1. /\ handler[g].kind = "manifest" /\ handler[k].kind = "manifest"
          /\ handler[g].robot = handler[k].robot
          /\ handler[g].manifest.counter = handler[k].manifest.counter
      BY <1>6, <1>12, <2>3
    <3>2. handler[g].twin
      BY <1>12, <3>1, Zenon DEF CounterInv, CountersKnown
    <3> QED
      BY <1>6, <2>3, <3>2
  <2> QED
    BY <2>1, <2>2, <2>3
<1>13. ASSUME NEW g \in Handler, handler'[g].kind = "manifest", handler'[g].valid,
              NEW i \in DOMAIN manifests[handler'[g].robot],
              manifests[handler'[g].robot][i].manifest.counter = handler'[g].manifest.counter
       PROVE  handler'[g].twin
  <2>1. g # h
    BY <1>4, <1>5, <1>13
  <2>2. handler[g].twin
    BY <1>6, <1>13, <2>1 DEF CounterInv, CountersKnown
  <2> QED
    BY <1>6, <2>1, <2>2
<1>14. CountersKnown'
  BY <1>1, <1>12, <1>13 DEF CountersKnown
<1> QED
  BY <1>9, <1>10, <1>11, <1>14 DEF CounterInv

LEMMA ReadForChecksKeeps ==
    ASSUME IInv, NEW h \in Handler, ReadForChecks(h)
    PROVE  IInv'
<1> USE DEF IInv, tables
<1> DEFINE r == handler[h].robot
           f == handler[h].manifest
           verdict == r \in robots /\ f.ecus = EcusOf(r) /\ CountersAreNew(f, manifests[r])
           m == [handler[h] EXCEPT !.at = "check", !.valid = verdict]
<1>1. /\ handler[h] \in Memory /\ handler[h].kind = "manifest" /\ verdict \in BOOLEAN
      /\ UNCHANGED <<provider, tables, keys, raced, restarts>>
      /\ handler' = [handler EXCEPT ![h] = m]
  BY DEF ReadForChecks, At, Typed
<1>2. r \in Robot /\ f \in Manifest
  BY <1>1 DEF Typed, About
<1>3. verdict => \A i \in DOMAIN manifests[r] : manifests[r][i].manifest.counter # f.counter
  BY DEF CountersAreNew
<1> HIDE DEF verdict
<1>4. /\ m \in Memory /\ m.kind = "manifest" /\ m.robot = r /\ m.manifest = f
      /\ m.valid = verdict /\ m.twin = handler[h].twin
  BY <1>1 DEF Memory
<1>5. \A g \in Handler : handler'[g] = IF g = h THEN m ELSE handler[g]
  BY <1>1 DEF Typed
<1> HIDE DEF m
<1>6. Typed'
  <2>1. handler' \in [Handler -> Memory]
    BY <1>1, <1>4 DEF Typed
  <2>2. About(m)
    BY <1>2, <1>4 DEF About
  <2> QED
    BY <1>1, <1>5, <2>1, <2>2 DEF Typed, TypeOK
<1>7. KeyInv'
  <2>1. \A g \in Handler : handler'[g].kind \in {"ecus", "delete"} => handler'[g] = handler[g]
    BY <1>4, <1>5
  <2> QED
    BY <1>1, <2>1, KeysKept
<1>8. CounterAcceptedOnce'
  BY <1>1 DEF CounterInv, CounterAcceptedOnce
<1>9. \A g \in Handler : handler'[g].kind = "manifest" =>
          /\ handler[g].kind = "manifest" /\ handler'[g].robot = handler[g].robot
          /\ handler'[g].manifest = handler[g].manifest
          /\ handler'[g].twin = handler[g].twin
  BY <1>1, <1>4, <1>5
<1>10. ASSUME NEW g \in Handler, handler'[g].kind = "manifest", handler'[g].valid,
              NEW i \in DOMAIN manifests[handler'[g].robot],
              manifests[handler'[g].robot][i].manifest.counter = handler'[g].manifest.counter
       PROVE  handler'[g].twin
  <2>1. CASE g = h
    BY <1>3, <1>4, <1>5, <1>10, <2>1
  <2>2. CASE g # h
    BY <1>5, <1>10, <2>2 DEF CounterInv, CountersKnown
  <2> QED
    BY <2>1, <2>2
<1>11. ASSUME NEW g \in Handler, NEW k \in Handler, g # k,
              handler'[g].kind = "manifest", handler'[k].kind = "manifest",
              handler'[g].robot = handler'[k].robot,
              handler'[g].manifest.counter = handler'[k].manifest.counter
       PROVE  handler'[g].twin
  <2>1. handler[g].twin
    BY <1>9, <1>11 DEF CounterInv, CountersKnown
  <2> QED
    BY <1>9, <1>11, <2>1
<1>12. CountersKnown'
  BY <1>1, <1>10, <1>11 DEF CountersKnown
<1> QED
  BY <1>6, <1>7, <1>8, <1>12 DEF CounterInv

LEMMA AppendedRow ==
    ASSUME NEW S, NEW s \in Seq(S), NEW x \in S
    PROVE  /\ Append(s, x) \in Seq(S)
           /\ DOMAIN s = 1..Len(s) /\ Len(s) \in Nat
           /\ DOMAIN Append(s, x) = 1..(Len(s) + 1)
           /\ Append(s, x)[Len(s) + 1] = x
           /\ \A i \in 1..Len(s) : Append(s, x)[i] = s[i]
<1>1. /\ Append(s, x) \in Seq(S) /\ Len(Append(s, x)) = Len(s) + 1
      /\ Append(s, x)[Len(s) + 1] = x
      /\ \A i \in 1..Len(s) : Append(s, x)[i] = s[i]
  BY AppendProperties
<1>2. Len(s) \in Nat /\ DOMAIN s = 1..Len(s) /\ DOMAIN Append(s, x) = 1..(Len(s) + 1)
  BY <1>1, LenProperties
<1> QED
  BY <1>1, <1>2

LEMMA SaveManifestKeeps ==
    ASSUME IInv, NEW h \in Handler, SaveManifest(h)
    PROVE  IInv'
<1> USE DEF IInv, tables
<1> DEFINE q == handler[h]
           r == handler[h].robot
           row == [manifest |-> q.manifest, valid |-> q.valid, twin |-> q.twin]
<1>1. CASE q.robot \notin robots
  <2>1. ProcessEnds /\ UNCHANGED <<provider, tables, keys, raced>>
    BY <1>1 DEF SaveManifest
  <2> QED
    BY <2>1, EndsKeep
<1>2. CASE q.robot \in robots
  <2>1. /\ q.kind = "manifest" /\ q \in Memory /\ About(q)
        /\ manifests' = [manifests EXCEPT ![r] = Append(@, row)]
        /\ handler' = [handler EXCEPT ![h] = Idle]
        /\ UNCHANGED <<provider, robots, registered, ecus, metadata, keys, raced, restarts>>
    BY <1>2 DEF SaveManifest, At, Return, Typed
  <2>2. r \in Robot /\ q.manifest \in Manifest
    BY <2>1 DEF About
  <2>3. row \in SavedManifest
    BY <2>1, <2>2 DEF SavedManifest, Memory
  <2>4. row.manifest = q.manifest /\ row.valid = q.valid /\ row.twin = q.twin
    OBVIOUS
  <2> HIDE DEF row
  <2>5. PICK s, t : s = manifests[r] /\ t = manifests'[r] /\ t = Append(s, row)
    BY <2>1, <2>2 DEF Typed
  <2>6. s \in Seq(SavedManifest)
    BY <2>2, <2>5 DEF Typed
  <2>7. /\ t \in Seq(SavedManifest)
        /\ DOMAIN s = 1..Len(s) /\ Len(s) \in Nat
        /\ DOMAIN t = 1..(Len(s) + 1)
        /\ t[Len(s) + 1] = row
        /\ \A i \in 1..Len(s) : t[i] = s[i]
    BY <2>3, <2>5, <2>6, AppendedRow
  <2>8. \A p \in Robot : p # r => manifests'[p] = manifests[p]
    BY <2>1 DEF Typed
  <2>9. \A g \in Handler : handler'[g] = IF g = h THEN Idle ELSE handler[g]
    BY <2>1 DEF Typed
  <2>10. Typed'
    <3>1. handler' \in [Handler -> Memory]
      BY <2>1, IdleTyped DEF Typed
    <3>2. manifests' \in [Robot -> Seq(SavedManifest)]
      BY <2>1, <2>2, <2>5, <2>7 DEF Typed
    <3> QED
      BY <2>1, <2>9, <3>1, <3>2, IdleTyped DEF Typed, TypeOK
  <2>11. KeyInv'
    BY <2>1, <2>9, IdleTyped, KeysKept
  <2>12. \A i \in DOMAIN s : q.valid /\ s[i].manifest.counter = q.manifest.counter => q.twin
    BY <2>1, <2>2, <2>5 DEF CounterInv, CountersKnown
  <2>13. \A i, k \in DOMAIN s :
             i < k /\ s[k].valid /\ s[i].manifest.counter = s[k].manifest.counter
             => s[k].twin
    BY <2>2, <2>5, Zenon DEF CounterInv, CounterAcceptedOnce
  <2>14. \A i, k \in DOMAIN t :
             i < k /\ t[k].valid /\ t[i].manifest.counter = t[k].manifest.counter
             => t[k].twin
    <3> TAKE i, k \in DOMAIN t
    <3> HAVE i < k /\ t[k].valid /\ t[i].manifest.counter = t[k].manifest.counter
    <3>1. i \in 1..Len(s) /\ t[i] = s[i] /\ i \in DOMAIN s
      BY <2>7
    <3>2. k \in 1..Len(s) \/ k = Len(s) + 1
      BY <2>7
    <3>3. CASE k \in 1..Len(s)
      <4>1. t[k] = s[k] /\ k \in DOMAIN s
        BY <2>7, <3>3
      <4> QED
        BY <2>13, <3>1, <4>1, Zenon
    <3>4. CASE k = Len(s) + 1
      <4>1. t[k] = row
        BY <2>7, <3>4
      <4>2. q.valid
        BY <2>4, <4>1, Zenon
      <4>3. s[i].manifest.counter = q.manifest.counter
        BY <2>4, <3>1, <4>1
      <4>4. q.twin
        BY <2>12, <3>1, <4>2, <4>3, Zenon
      <4> QED
        BY <2>4, <4>1, <4>4, Zenon
    <3> QED
      BY <3>2, <3>3, <3>4
  <2>15. CounterAcceptedOnce'
    <3> SUFFICES ASSUME NEW p \in Robot, NEW i \in DOMAIN manifests'[p],
                        NEW k \in DOMAIN manifests'[p], i < k, manifests'[p][k].valid,
                        manifests'[p][i].manifest.counter = manifests'[p][k].manifest.counter
                 PROVE  manifests'[p][k].twin
      BY Zenon DEF CounterAcceptedOnce
    <3>1. CASE p # r
      BY <2>8, <3>1 DEF CounterInv, CounterAcceptedOnce
    <3>2. CASE p = r
      <4>1. manifests'[p] = t
        BY <2>5, <3>2
      <4> QED
        BY <2>14, <4>1, Zenon
    <3> QED
      BY <3>1, <3>2
  <2>16. ASSUME NEW g \in Handler, handler'[g].kind = "manifest", handler'[g].valid,
                NEW i \in DOMAIN manifests'[handler'[g].robot],
                manifests'[handler'[g].robot][i].manifest.counter = handler'[g].manifest.counter
         PROVE  handler'[g].twin
    <3>1. g # h /\ handler'[g] = handler[g] /\ handler[g].robot \in Robot
      BY <2>9, <2>16, IdleTyped DEF Typed, About
    <3>2. CASE handler[g].robot # r
      BY <2>8, <2>16, <3>1, <3>2 DEF CounterInv, CountersKnown
    <3>3. CASE handler[g].robot = r
      <4>1. manifests'[handler'[g].robot] = t
        BY <2>5, <3>1, <3>3
      <4>2. i \in DOMAIN t /\ t[i].manifest.counter = handler[g].manifest.counter
        BY <2>16, <3>1, <4>1
      <4>3. i \in 1..Len(s) \/ i = Len(s) + 1
        BY <2>7, <4>2
      <4>4. handler[g].kind = "manifest" /\ handler[g].valid
        BY <2>16, <3>1, Zenon
      <4>5. CASE i \in 1..Len(s)
        <5>1. s[i].manifest.counter = handler[g].manifest.counter /\ i \in DOMAIN s
          BY <2>7, <4>2, <4>5
        <5>2. i \in DOMAIN manifests[handler[g].robot]
              /\ manifests[handler[g].robot][i].manifest.counter = handler[g].manifest.counter
          BY <2>5, <3>3, <5>1
        <5>3. handler[g].twin
          BY <4>4, <5>2, Zenon DEF CounterInv, CountersKnown
        <5> QED
          BY <3>1, <5>3, Zenon
      <4>6. CASE i = Len(s) + 1
        <5>1. q.manifest.counter = handler[g].manifest.counter
          BY <2>4, <2>7, <4>2, <4>6
        <5>2. handler[g].robot = handler[h].robot /\ handler[h].kind = "manifest"
          BY <2>1, <3>3
        <5>3. handler[g].twin
          BY <3>1, <4>4, <5>1, <5>2, Zenon DEF CounterInv, CountersKnown
        <5> QED
          BY <3>1, <5>3, Zenon
      <4> QED
        BY <4>3, <4>5, <4>6
    <3> QED
      BY <3>2, <3>3
  <2>17. CountersKnown'
    BY <2>9, <2>16, IdleTyped DEF CounterInv, CountersKnown
  <2> QED
    BY <2>10, <2>11, <2>15, <2>17 DEF CounterInv
<1> QED
  BY <1>1, <1>2
-----------------------------------------------------------------------------
(* Deletions.                                                              *)
LEMMA StartDeletionKeeps ==
    ASSUME IInv, NEW h \in Handler, NEW r \in Robot, StartDeletion(h, r)
    PROVE  IInv'
<1> USE DEF IInv, tables
<1> DEFINE m == [Idle EXCEPT !.kind = "delete", !.robot = r, !.at = "delete_row",
                             !.todo = EcusOf(r)]
           meets(g) == handler[g].kind = "ecus" /\ handler[g].new \cap EcusOf(r) # {}
           marked(g) == [handler[g] EXCEPT !.raced = @ \/ meets(g)]
<1>1. /\ handler' = [g \in Handler |-> IF g = h THEN m ELSE marked(g)]
      /\ UNCHANGED <<provider, tables, keys, raced, restarts>>
      /\ r \in robots
  BY DEF StartDeletion
<1>2. /\ m \in Memory /\ About(m) /\ m.kind = "delete" /\ m.robot = r
      /\ m.at = "delete_row" /\ m.todo = EcusOf(r)
  BY IdleTyped DEF Memory, About, EcusOf
<1>3. ASSUME NEW g \in Handler, g # h
      PROVE  /\ handler'[g] \in Memory /\ About(handler'[g])
             /\ handler'[g].kind = handler[g].kind /\ handler'[g].robot = handler[g].robot
             /\ handler'[g].todo = handler[g].todo /\ handler'[g].new = handler[g].new
             /\ handler'[g].at = handler[g].at /\ handler'[g].manifest = handler[g].manifest
             /\ handler'[g].valid = handler[g].valid /\ handler'[g].twin = handler[g].twin
             /\ handler'[g].raced = (handler[g].raced \/ meets(g))
  <2>1. PICK b : b = (handler[g].raced \/ meets(g)) /\ b \in BOOLEAN
    <3>1. (handler[g].raced \/ meets(g)) \in BOOLEAN
      BY Zenon
    <3> QED
      BY <3>1, Zenon
  <2>2. handler'[g] = marked(g)
    BY <1>1, <1>3
  <2>3. marked(g) = [handler[g] EXCEPT !.raced = b]
    BY <2>1
  <2> HIDE DEF marked, meets
  <2>4. handler'[g] = [handler[g] EXCEPT !.raced = b] /\ handler[g] \in Memory
    BY <2>2, <2>3 DEF Typed
  <2>5. /\ handler'[g] \in Memory
        /\ handler'[g].kind = handler[g].kind /\ handler'[g].robot = handler[g].robot
        /\ handler'[g].todo = handler[g].todo /\ handler'[g].new = handler[g].new
        /\ handler'[g].at = handler[g].at /\ handler'[g].manifest = handler[g].manifest
        /\ handler'[g].valid = handler[g].valid /\ handler'[g].twin = handler[g].twin
    BY <2>1, <2>4 DEF Memory
  <2>6. handler'[g].raced = b
    BY <2>1, <2>4 DEF Memory
  <2>7. About(handler'[g])
    BY <2>5 DEF Typed, About
  <2> QED
    BY <2>1, <2>5, <2>6, <2>7, Zenon
<1>4. handler'[h] = m
  BY <1>1
<1>5. Typed'
  <2>1. handler' \in [Handler -> Memory]
    <3>1. \A g \in Handler : handler'[g] \in Memory
      BY <1>2, <1>3, <1>4
    <3>2. handler' = [g \in Handler |-> handler'[g]]
      BY <1>1
    <3> QED
      BY <3>1, <3>2
  <2>2. \A g \in Handler : About(handler'[g])
    BY <1>2, <1>3, <1>4
  <2> QED
    BY <1>1, <2>1, <2>2 DEF Typed, TypeOK
<1> HIDE DEF m, marked
<1>6. EcusHaveKeys'
  BY <1>1 DEF KeyInv, EcusHaveKeys
<1>7. ASSUME NEW g \in Handler, NEW e \in Ecu,
             handler'[g].kind = "delete", e \in handler'[g].todo
      PROVE  \/ ecus'[e] = NoRobot
             \/ e \in raced'
             \/ handler'[g].at = "delete_row" /\ ecus'[e] = handler'[g].robot
  <2>1. CASE g = h
    BY <1>1, <1>2, <1>4, <1>7, <2>1 DEF EcusOf
  <2>2. CASE g # h
    BY <1>1, <1>3, <1>7, <2>2 DEF KeyInv, KeysKnown
  <2> QED
    BY <2>1, <2>2
<1>8. ASSUME NEW g \in Handler, NEW k \in Handler, NEW e \in Ecu,
             handler'[g].kind = "ecus", e \in handler'[g].new,
             handler'[k].kind = "delete", e \in handler'[k].todo
      PROVE  handler'[g].raced
  <2>1. g # h /\ handler[g].kind = "ecus" /\ e \in handler[g].new
    BY <1>2, <1>3, <1>4, <1>8
  <2>2. CASE k = h
    <3>1. meets(g)
      BY <1>2, <1>4, <1>8, <2>1, <2>2
    <3> QED
      BY <1>3, <2>1, <3>1, Zenon
  <2>3. CASE k # h
    <3>1. handler[k].kind = "delete" /\ e \in handler[k].todo
      BY <1>3, <1>8, <2>3
    <3>2. handler[g].raced
      BY <2>1, <3>1, Zenon DEF KeyInv, KeysKnown
    <3> QED
      BY <1>3, <2>1, <3>2, Zenon
  <2> QED
    BY <2>2, <2>3
<1>9. ASSUME NEW g \in Handler, NEW e \in Ecu,
             handler'[g].kind = "ecus", e \in handler'[g].new
      PROVE  handler'[g].raced \/ e \in handler'[g].todo \/ e \in keys
  <2>1. g # h
    BY <1>2, <1>4, <1>9
  <2>2. /\ handler[g].kind = "ecus" /\ e \in handler[g].new
        /\ handler'[g].todo = handler[g].todo
    BY <1>3, <1>9, <2>1
  <2>3. handler[g].raced \/ e \in handler[g].todo \/ e \in keys
    BY <2>2, Zenon DEF KeyInv, KeysKnown
  <2>4. handler[g].raced => handler'[g].raced
    BY <1>3, <2>1, Zenon
  <2> QED
    BY <2>2, <2>3, <2>4, Zenon
<1>10. KeysKnown'
  BY <1>1, <1>7, <1>8, <1>9 DEF KeysKnown
<1>11. CounterInv'
  <2>1. ASSUME NEW g \in Handler, handler'[g].kind = "manifest"
        PROVE  /\ handler[g].kind = "manifest" /\ handler'[g].robot = handler[g].robot
               /\ handler'[g].manifest = handler[g].manifest
               /\ (handler'[g].valid => handler[g].valid)
               /\ handler'[g].twin = handler[g].twin
    <3>1. g # h
      BY <1>2, <1>4, <2>1
    <3> QED
      BY <1>3, <2>1, <3>1
  <2> QED
    BY <1>1, <2>1, CountersKept
<1> QED
  BY <1>5, <1>6, <1>10, <1>11 DEF KeyInv

LEMMA DeleteRowKeeps ==
    ASSUME IInv, NEW h \in Handler, DeleteRow(h)
    PROVE  IInv'
<1> USE DEF IInv, tables
<1> DEFINE r == handler[h].robot
           m == [handler[h] EXCEPT !.at = "delete_keys"]
<1>1. /\ handler[h] \in Memory /\ handler[h].kind = "delete" /\ handler[h].at = "delete_row"
      /\ robots' = robots \ {r} /\ registered' = registered \ {r}
      /\ ecus' = [e \in Ecu |-> IF ecus[e] = r THEN NoRobot ELSE ecus[e]]
      /\ metadata' = [metadata EXCEPT ![r] = 0]
      /\ manifests' = [manifests EXCEPT ![r] = <<>>]
      /\ handler' = [handler EXCEPT ![h] = m]
      /\ UNCHANGED <<provider, keys, raced, restarts>>
  BY DEF DeleteRow, At, Goto, Typed
<1>2. r \in Robot
  BY <1>1 DEF Typed, About
<1>3. m \in Memory /\ About(m) /\ m.kind = "delete"
  BY <1>1 DEF Memory, Typed, About
<1>4. ASSUME NEW g \in Handler
      PROVE  /\ handler'[g].kind = handler[g].kind /\ handler'[g].robot = handler[g].robot
             /\ handler'[g].todo = handler[g].todo /\ handler'[g].new = handler[g].new
             /\ handler'[g].raced = handler[g].raced
             /\ handler'[g].manifest = handler[g].manifest
             /\ handler'[g].valid = handler[g].valid /\ handler'[g].twin = handler[g].twin
             /\ (g # h => handler'[g].at = handler[g].at)
             /\ handler'[g] \in Memory /\ About(handler'[g])
  <2>1. CASE g = h
    <3>1. handler'[g] = m
      BY <1>1, <2>1 DEF Typed
    <3> QED
      BY <1>1, <1>3, <2>1, <3>1 DEF Memory
  <2>2. CASE g # h
    BY <1>1, <2>2 DEF Typed
  <2> QED
    BY <2>1, <2>2
<1>5. Typed'
  <2>1. ecus' \in [Ecu -> Robot \cup {NoRobot}] /\ metadata' \in [Robot -> Nat]
    BY <1>1, <1>2 DEF Typed, TypeOK
  <2>2. manifests' \in [Robot -> Seq(SavedManifest)]
    <3>1. <<>> \in Seq(SavedManifest)
      OBVIOUS
    <3> QED
      BY <1>1, <1>2, <3>1 DEF Typed
  <2>3. handler' \in [Handler -> Memory]
    BY <1>1, <1>3 DEF Typed
  <2> QED
    BY <1>1, <1>4, <2>1, <2>2, <2>3 DEF Typed, TypeOK
<1> HIDE DEF m
<1>6. \A e \in Ecu : ecus'[e] = IF ecus[e] = r THEN NoRobot ELSE ecus[e]
  BY <1>1
<1>7. EcusHaveKeys'
  BY <1>1, <1>6 DEF KeyInv, EcusHaveKeys
<1>8. ASSUME NEW g \in Handler, NEW e \in Ecu,
             handler'[g].kind = "delete", e \in handler'[g].todo
      PROVE  \/ ecus'[e] = NoRobot
             \/ e \in raced'
             \/ handler'[g].at = "delete_row" /\ ecus'[e] = handler'[g].robot
  <2>1. \/ ecus[e] = NoRobot
        \/ e \in raced
        \/ handler[g].at = "delete_row" /\ ecus[e] = handler[g].robot
    BY <1>4, <1>8 DEF KeyInv, KeysKnown
  <2>2. CASE ecus[e] = NoRobot \/ e \in raced
    BY <1>1, <1>6, <2>2
  <2>3. CASE handler[g].at = "delete_row" /\ ecus[e] = handler[g].robot
    BY <1>4, <1>6, <2>3
  <2> QED
    BY <2>1, <2>2, <2>3
<1>9. KeysKnown'
  BY <1>1, <1>4, <1>8 DEF KeyInv, KeysKnown
<1>10. /\ manifests'[r] = <<>> /\ DOMAIN <<>> = {}
       /\ \A p \in Robot : p # r => manifests'[p] = manifests[p]
  BY <1>1, <1>2 DEF Typed
<1>11. CounterAcceptedOnce'
  BY <1>10 DEF CounterInv, CounterAcceptedOnce
<1>12. ASSUME NEW g \in Handler, handler'[g].kind = "manifest", handler'[g].valid,
              NEW i \in DOMAIN manifests'[handler'[g].robot],
              manifests'[handler'[g].robot][i].manifest.counter = handler'[g].manifest.counter
       PROVE  handler'[g].twin
  <2>1. handler'[g].robot = handler[g].robot /\ handler[g].robot \in Robot
    BY <1>4, <1>12 DEF About
  <2>2. handler[g].robot # r
    BY <1>10, <1>12, <2>1
  <2>3. manifests'[handler'[g].robot] = manifests[handler[g].robot]
    BY <1>10, <2>1, <2>2
  <2> QED
    BY <1>4, <1>12, <2>3 DEF CounterInv, CountersKnown
<1>13. CountersKnown'
  BY <1>4, <1>12 DEF CounterInv, CountersKnown
<1> QED
  BY <1>5, <1>7, <1>9, <1>11, <1>13 DEF KeyInv, CounterInv

LEMMA DeleteEcuKeyKeeps ==
    ASSUME IInv, NEW h \in Handler, NEW e \in Ecu, DeleteEcuKey(h, e)
    PROVE  IInv'
<1> USE DEF IInv, tables
<1>1. CASE ~CanDelete(e)
  BY <1>1, EndsKeep DEF DeleteEcuKey
<1>2. CASE CanDelete(e)
  <2> DEFINE m == [handler[h] EXCEPT !.todo = @ \ {e}]
  <2>1. /\ keys' = keys \ {e} /\ handler' = [handler EXCEPT ![h] = m]
        /\ UNCHANGED <<provider, tables, raced, restarts>>
        /\ handler[h].kind = "delete" /\ handler[h].at = "delete_keys"
        /\ e \in handler[h].todo
    BY <1>2 DEF DeleteEcuKey, At, Typed
  <2>2. m \in Memory /\ About(m)
    BY DEF Typed, Memory, About
  <2>3. \A g \in Handler : /\ handler'[g] = IF g = h THEN m ELSE handler[g]
                           /\ handler[g] \in Memory
    BY <2>1 DEF Typed
  <2>4. \A g \in Handler :
            /\ handler'[g].kind = handler[g].kind /\ handler'[g].robot = handler[g].robot
            /\ handler'[g].todo = (IF g = h THEN handler[g].todo \ {e} ELSE handler[g].todo)
            /\ handler'[g].new = handler[g].new /\ handler'[g].raced = handler[g].raced
            /\ handler'[g].manifest = handler[g].manifest /\ handler'[g].valid = handler[g].valid
            /\ handler'[g].twin = handler[g].twin /\ handler'[g].at = handler[g].at
    BY <2>3 DEF Memory
  <2>5. Typed'
    <3>1. handler' \in [Handler -> Memory]
      BY <2>1, <2>2 DEF Typed
    <3> QED
      BY <2>1, <2>2, <2>3, <3>1 DEF Typed, TypeOK
  <2> HIDE DEF m
  <2>6. ecus[e] = NoRobot \/ e \in raced
    BY <2>1 DEF KeyInv, KeysKnown
  <2>7. EcusHaveKeys'
    BY <2>1, <2>6 DEF KeyInv, EcusHaveKeys
  <2>8. ASSUME NEW g \in Handler, NEW x \in Ecu,
               handler'[g].kind = "delete", x \in handler'[g].todo
        PROVE  \/ ecus'[x] = NoRobot
               \/ x \in raced'
               \/ handler'[g].at = "delete_row" /\ ecus'[x] = handler'[g].robot
    <3>1. handler[g].kind = "delete" /\ x \in handler[g].todo
      BY <2>4, <2>8
    <3> QED
      BY <2>1, <2>4, <3>1 DEF KeyInv, KeysKnown
  <2>9. ASSUME NEW g \in Handler, NEW k \in Handler, NEW x \in Ecu,
               handler'[g].kind = "ecus", x \in handler'[g].new,
               handler'[k].kind = "delete", x \in handler'[k].todo
        PROVE  handler'[g].raced
    <3>1. /\ handler[g].kind = "ecus" /\ x \in handler[g].new
          /\ handler[k].kind = "delete" /\ x \in handler[k].todo
      BY <2>4, <2>9
    <3> QED
      BY <2>4, <3>1 DEF KeyInv, KeysKnown
  <2>10. ASSUME NEW g \in Handler, NEW x \in Ecu,
                handler'[g].kind = "ecus", x \in handler'[g].new
         PROVE  handler'[g].raced \/ x \in handler'[g].todo \/ x \in keys'
    <3>1. /\ handler[g].kind = "ecus" /\ x \in handler[g].new /\ g # h
          /\ handler'[g].todo = handler[g].todo
      BY <2>1, <2>4, <2>10
    <3>2. handler[g].raced => handler'[g].raced
      BY <2>4, Zenon
    <3>3. handler[g].raced \/ x \in handler[g].todo \/ x \in keys
      BY <3>1, Zenon DEF KeyInv, KeysKnown
    <3>4. x = e => handler[g].raced
      BY <2>1, <3>1, Zenon DEF KeyInv, KeysKnown
    <3>5. x \in keys /\ x # e => x \in keys'
      BY <2>1
    <3> QED
      BY <3>1, <3>2, <3>3, <3>4, <3>5, Zenon
  <2>11. KeysKnown'
    BY <2>8, <2>9, <2>10 DEF KeysKnown
  <2>12. CounterInv'
    BY <2>1, <2>4, CountersKept
  <2> QED
    BY <2>5, <2>7, <2>11, <2>12 DEF KeyInv
<1> QED
  BY <1>1, <1>2

LEMMA ProvisionAgainKeeps ==
    ASSUME IInv, NEW r \in Robot, ProvisionAgain(r)
    PROVE  IInv'
<1>1. /\ robots' = robots \cup {r}
      /\ UNCHANGED <<provider, registered, ecus, metadata, manifests, keys, handler, raced,
                     restarts>>
  BY DEF ProvisionAgain
<1>2. Typed'
  BY <1>1 DEF IInv, Typed, TypeOK
<1>3. KeyInv' /\ CounterInv'
  BY <1>1 DEF IInv, KeyInv, EcusHaveKeys, KeysKnown, CounterInv, CounterAcceptedOnce,
              CountersKnown
<1> QED
  BY <1>2, <1>3 DEF IInv

-----------------------------------------------------------------------------
(* The steps in which a request only moves on.                             *)
LEMMA GotoKeeps ==
    ASSUME IInv, NEW h \in Handler, NEW step \in {"start", "put_keys"}, Goto(h, step),
           handler[h].kind # "delete", UNCHANGED <<provider, tables, keys, raced, restarts>>
    PROVE  IInv'
<1> DEFINE m == [handler[h] EXCEPT !.at = step]
<1>1. handler[h] \in Memory /\ About(handler[h]) /\ handler' = [handler EXCEPT ![h] = m]
  BY DEF Goto, IInv, Typed
<1>2. /\ m \in Memory /\ m.kind = handler[h].kind /\ m.robot = handler[h].robot
      /\ m.todo = handler[h].todo /\ m.new = handler[h].new
      /\ m.manifest = handler[h].manifest /\ m.valid = handler[h].valid
      /\ m.twin = handler[h].twin /\ m.raced = handler[h].raced
  BY <1>1 DEF Memory
<1>3. About(m)
  BY <1>1, <1>2 DEF About
<1> HIDE DEF m
<1> QED
  BY <1>1, <1>2, <1>3, MoveKeeps

LEMMA ReturnKeeps ==
    ASSUME IInv, NEW h \in Handler, Return(h),
           UNCHANGED <<provider, tables, keys, raced, restarts>>
    PROVE  IInv'
<1>1. handler' = [handler EXCEPT ![h] = Idle] /\ Idle.kind \notin {"ecus", "manifest", "delete"}
  BY IdleTyped DEF Return
<1> QED
  BY <1>1, IdleTyped, MoveKeeps

LEMMA UpdateRobotMetaKeeps ==
    ASSUME IInv, NEW h \in Handler, UpdateRobotMeta(h)
    PROVE  IInv'
<1>1. CASE handler[h].robot \notin robots
  BY <1>1, EndsKeep DEF UpdateRobotMeta
<1>2. CASE handler[h].robot \in robots
  <2>1. /\ handler[h].at = "meta" /\ Goto(h, "start")
        /\ UNCHANGED <<provider, tables, keys, raced, restarts>>
    BY <1>2 DEF UpdateRobotMeta
  <2>2. handler[h].kind # "delete"
    BY <2>1 DEF IInv, Typed, About
  <2> QED
    BY <2>1, <2>2, GotoKeeps
<1> QED
  BY <1>1, <1>2

LEMMA FindRobotKeeps ==
    ASSUME IInv, NEW h \in Handler, FindRobot(h)
    PROVE  IInv'
<1>1. CASE handler[h].robot \notin robots
  BY <1>1, EndsKeep DEF FindRobot
<1>2. CASE handler[h].robot \in robots
  BY <1>2, GotoKeeps DEF FindRobot, At
<1> QED
  BY <1>1, <1>2

LEMMA CheckManifestKeeps ==
    ASSUME IInv, NEW h \in Handler, CheckManifest(h)
    PROVE  IInv'
<1> DEFINE f == handler[h].manifest
           verdict == handler[h].valid /\ f.ecus \subseteq keys /\ f.sound
           m == [handler[h] EXCEPT !.at = "save", !.valid = verdict]
<1>1. /\ handler[h] \in Memory /\ About(handler[h]) /\ handler[h].kind = "manifest"
      /\ UNCHANGED <<provider, tables, keys, raced, restarts>>
      /\ handler' = [handler EXCEPT ![h] = m]
  BY DEF CheckManifest, At, IInv, Typed
<1>2. verdict \in BOOLEAN /\ (verdict => handler[h].valid)
  BY Zenon
<1> HIDE DEF verdict
<1>3. /\ m \in Memory /\ m.kind = handler[h].kind /\ m.robot = handler[h].robot
      /\ m.todo = handler[h].todo /\ m.new = handler[h].new /\ m.manifest = f
      /\ m.valid = verdict /\ m.twin = handler[h].twin /\ m.raced = handler[h].raced
  BY <1>1, <1>2 DEF Memory
<1>4. About(m)
  BY <1>1, <1>3 DEF About
<1> HIDE DEF m
<1> QED
  BY <1>1, <1>2, <1>3, <1>4, MoveKeeps

LEMMA StartReportKeeps ==
    ASSUME IInv, NEW h \in Handler, NEW r \in Robot, StartReport(h, r)
    PROVE  IInv'
<1> DEFINE a == [Idle EXCEPT !.kind = "report"]
           m == [a EXCEPT !.robot = r, !.at = "meta"]
<1>1. /\ handler' = [handler EXCEPT ![h] = m]
      /\ UNCHANGED <<provider, tables, keys, raced, restarts>>
  BY DEF StartReport, MustBeRobot
<1>2. a \in Memory /\ a.kind = "report"
  BY IdleTyped DEF Memory
<1> HIDE DEF a
<1>3. m \in Memory /\ m.kind = "report" /\ m.robot = r
  BY <1>2 DEF Memory
<1>4. About(m)
  BY <1>3 DEF About
<1> HIDE DEF m
<1> QED
  BY <1>1, <1>3, <1>4, MoveKeeps

LEMMA SaveReportKeeps ==
    ASSUME IInv, NEW h \in Handler, SaveReport(h)
    PROVE  IInv'
<1>1. CASE handler[h].robot \notin robots
  BY <1>1, EndsKeep DEF SaveReport
<1>2. CASE handler[h].robot \in robots
  BY <1>2, ReturnKeeps DEF SaveReport
<1> QED
  BY <1>1, <1>2

LEMMA RequestKeeps ==
    ASSUME IInv, NEW h \in Handler, Request(h)
    PROVE  IInv'
<1>1. ASSUME NEW r \in Robot, StartRegistration(h, r) \/ StartReport(h, r) \/ StartDeletion(h, r)
      PROVE  IInv'
  BY <1>1, StartRegistrationKeeps, StartReportKeeps, StartDeletionKeeps
<1>2. ASSUME NEW r \in Robot, NEW f \in Reports[r], SendManifest(h, r, f)
      PROVE  IInv'
  BY <1>2, SendManifestKeeps
<1>3. ASSUME NEW e \in Ecu, PutEcuKey(h, e) \/ DeleteEcuKey(h, e)
      PROVE  IInv'
  BY <1>3, PutEcuKeyKeeps, DeleteEcuKeyKeeps
<1>4. CASE UpdateRobotMeta(h) \/ FindRobot(h) \/ CommitRegistration(h)
  BY <1>4, UpdateRobotMetaKeeps, FindRobotKeeps, CommitRegistrationKeeps
<1>5. CASE ReadForChecks(h) \/ CheckManifest(h) \/ SaveManifest(h)
  BY <1>5, ReadForChecksKeeps, CheckManifestKeeps, SaveManifestKeeps
<1>6. CASE SaveReport(h) \/ DeleteRow(h) \/ EndDeletion(h)
  BY <1>6, SaveReportKeeps, DeleteRowKeeps, ReturnKeeps DEF EndDeletion
<1> QED
  BY <1>1, <1>2, <1>3, <1>4, <1>5, <1>6 DEF Request

LEMMA NextKeeps == IInv /\ [Next]_vars => IInv'
<1> SUFFICES ASSUME IInv, [Next]_vars PROVE IInv'
  OBVIOUS
<1>1. CASE Restart
  BY <1>1, EndsKeep DEF Restart
<1>2. ASSUME NEW r \in Robot, ProvisionAgain(r) PROVE IInv'
  BY <1>2, ProvisionAgainKeeps
<1>3. ASSUME NEW h \in Handler, Request(h) PROVE IInv'
  BY <1>3, RequestKeeps
<1>4. CASE UNCHANGED vars
  BY <1>4 DEF vars, tables, IInv, Typed, TypeOK, About, KeyInv, EcusHaveKeys, KeysKnown,
              CounterInv, CounterAcceptedOnce, CountersKnown
<1> QED
  BY <1>1, <1>2, <1>3, <1>4 DEF Next

-----------------------------------------------------------------------------
(* The director's tables keep their shape: nothing is registered for a     *)
(* robot that is gone, whatever requests its deletion and its return meet. *)
THEOREM TypeCorrect == Spec => []TypeOK
<1>1. IInv => TypeOK
  BY DEF IInv, Typed
<1> QED
  BY <1>1, InitIInv, NextKeeps, PTL DEF Spec

(* An ECU of a robot has its key in the store (director-repo/index.ts      *)
(* POST /ecus, admin/robot deleteRobot), but for one whose registration    *)
(* was in progress together with a deletion that lists it.                 *)
THEOREM EcusHaveKeysAlways == Spec => []EcusHaveKeys
<1>1. IInv => EcusHaveKeys
  BY DEF IInv, KeyInv
<1> QED
  BY <1>1, InitIInv, NextKeeps, PTL DEF Spec

(* The check of report counters (validateReportCounter), which reads the   *)
(* saved manifests long before its own is saved, lets a counter through    *)
(* twice only for manifests that were in progress at the same time.        *)
THEOREM CounterAcceptedOnceAlways == Spec => []CounterAcceptedOnce
<1>1. IInv => CounterAcceptedOnce
  BY DEF IInv, CounterInv
<1> QED
  BY <1>1, InitIInv, NextKeeps, PTL DEF Spec
=============================================================================

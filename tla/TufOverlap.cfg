\* One run of the rollout worker at a time and one of the re-signer, interleaved.
CONSTANTS
    Payload = {p1, p2}
    NoPayload = NoPayload
    NoRow = NoRow
    RolloutJob = {w1}
    ResignJob = {r1}
    Numbered <- AllRoles
    MaxVersion = 3
SPECIFICATION Spec
INVARIANTS
    TypeOK
    NoGaps
    RoleOrder
    Coherent
    NoRolloutLost
PROPERTIES
    ImplementsLog
    ServesAtomically

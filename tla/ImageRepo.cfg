\* Two clients that upload, overlapping each other and one run of the re-signer.
SPECIFICATION ImageSpec
CONSTANTS
    Image = {1, 2}
    Payload <- SomeImages
    NoPayload <- NotAList
    NoRow = NoRow
    RolloutJob = {}
    ResignJob = {r1}
    Client = {c1, c2}
    Numbered <- ServerRoles
    MaxVersion = 3
    MaxAdded = 1
    MaxOverlaps = 1
    MaxRestarts = 1
SYMMETRY Clients
INVARIANTS   RoleOrder
PROPERTIES ImplementsLog
CHECK_DEADLOCK FALSE

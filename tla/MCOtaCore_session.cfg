\* `ota put`, `ota pull` and `ota activate` on the console and a pull; anyone discards, power is cut.
CONSTANTS
    Putters = {console}
    Followers = {console}
    Uploaders = {}
    Pullers = {pull}
    Askers = {console}
    console = console
    pull = pull
    SlotA = ota_0
    SlotB = ota_1
    ota_0 = ota_0
    ota_1 = ota_1
    SlotSize = 2
    HeadLen = 1
    None = None
SPECIFICATION Spec
SYMMETRY Symmetry
INVARIANTS
    TypeOK
    Exclusive
    InProgressIsOwned
    HandleIsOwned
    StagedIsWhole
    AlwaysBoots

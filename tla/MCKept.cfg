CONSTANTS
    Ssids = {home, shop}
    NoSsid = NoSsid
    Passes = {"right", "typo", "empty"}
    Right = "right"
    Empty = "empty"
    KnownMax = 1
    FastRetries = 1
    Callers = {"console"}
    Main = "console"
    MaxEvents = 2
    ApCallers = {"console"}
    ApServer = "web"
    Creds = {"made", "chosen"}
    Order <- Sorted
    NsOf <- Space
    Excluded = {"as"}
    Values = {1, 3}
    Absent = Absent
    TypeOf <- Types
    Starts <- AtFirst
    Uploads <- Arriving
    Written <- Others
    MaxSnaps = 3
    MaxEdits = 1
SPECIFICATION Spec
INVARIANTS
    TypeOK
    WantedIsPursued
    OffIsOff
    ForgottenStays
    
    UndoStays
    ImportedIsAsked
CONSTRAINT Explored
SYMMETRY Symmetry

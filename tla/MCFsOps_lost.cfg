\* The console and the web's job write one name; no call fails of itself.
CONSTANTS
    Consoles = {console}
    Jobs = {job}
    Servers = {}
    Names = {a}
    Size = 1
    Failing = {}
    NoFile = NoFile
    NoName = NoName
SPECIFICATION Spec
INVARIANTS
    FailedWriteCostsNothing

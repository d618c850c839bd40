\* The console, the web's job and its server's task, two names; any call may fail.
CONSTANTS
    Consoles = {console}
    Jobs = {job}
    Servers = {server}
    Names = {a, b}
    Size = 1
    Failing = {"open", "unlink", "rename"}
    NoFile = NoFile
    NoName = NoName
SYMMETRY NameSymmetry
SPECIFICATION Spec
INVARIANTS
    TypeOK
    NamesAreWhole
    FilesAreKept
    PartsAreTemporary

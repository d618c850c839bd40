\* One stream place, one socket, one task and the heartbeat.
CONSTANTS
    StateKinds = {"leds"}
    HappeningKinds = {"ended"}
    System = "system"
    MaxKinds = 2
    MaxSinks = 1
    Kept = 2
    SeqMod = 3
    Publishers = {task}
    task = task
    Listeners = {web}
    web = web
    Web = web
    None = "none"
    MaxCount = 1
    Fds = {fd1}
    fd1 = fd1
    NoFd = NoFd
    MaxStreams = 1
    Masks <- Asked
    Afters <- Sent
    Hosts = {"holo"}
    DefaultHost = "esp"
    Origins = {"site", "page"}
    DefaultCors = {"site"}
    MaxOrigins = 1
    Unset = Unset
    Missing = Missing
    WebRoutes <- Registered
    ApiRoutes <- InTables
    BuiltIn <- Web2
    MaxRoutes = 4
SPECIFICATION PartsSpec
INVARIANTS
    
    
    StreamsAreConnections
    
CONSTRAINT Explored

CONSTANTS
    Servos = {"40_00", "gpio5"}
    Gpio = {"gpio5"}
    AbsMin = 1
    AbsMax = 3
    Ranges <- AskedRanges
    Policies <- Released
    Settle = 1
    Full = 1
    MaxEvents = 1
    ServoCallers = {"console"}
    Typist = "console"
    ServoServer = "web"
    NoServo = "none"
    Absent = Absent
    Holos = {"front"}
    Reach = 1
    Swing = 1
    Count = 1
    Frames = 1
    Targets <- Corner
    HoloCallers = {"console"}
    I2cTasks = {"reader", "writer", "console"}
    Patient = {"writer"}
    Ports = {0, 1}
    NoTask = "none"
SPECIFICATION ScanSpec
PROPERTY HoldsFromThen
CONSTRAINT Explored

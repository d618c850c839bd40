\* An activation while an update is being received.
CONSTANTS
    Putters = {console}
    Followers = {}
    Uploaders = {upload}
    Pullers = {}
    Askers = {server}
    console = console
    upload = upload
    server = server
    SlotA = ota_0
    SlotB = ota_1
    ota_0 = ota_0
    ota_1 = ota_1
    SlotSize = 2
    HeadLen = 2
    None = None
SPECIFICATION Spec
INVARIANT OneUpdateAtATime

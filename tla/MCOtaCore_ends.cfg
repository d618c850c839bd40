\* An upload and a pull for one session, each going on with what it began.
CONSTANTS
    Putters = {}
    Followers = {}
    Uploaders = {upload}
    Pullers = {pull}
    Askers = {}
    upload = upload
    pull = pull
    SlotA = ota_0
    SlotB = ota_1
    ota_0 = ota_0
    ota_1 = ota_1
    SlotSize = 2
    HeadLen = 1
    None = None
SPECIFICATION FairSpec
PROPERTIES
    UpdateEnds
    JobIsReleased

\* The smallest instance in which a listener reads past a happening not yet stored.
CONSTANTS
    StateKinds = {}
    HappeningKinds = {ended}
    ended = ended
    MaxKinds = 1
    MaxSinks = 1
    Kept = 2
    SeqMod = 3
    Publishers = {p1, p2}
    p1 = p1
    p2 = p2
    Listeners = {web}
    web = web
    None = None
    MaxCount = 2
SPECIFICATION Spec
PROPERTY CatchesUp

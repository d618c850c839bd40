\* Two publishers wrap a ring of two slots and mark a state; seqs go round after three.
CONSTANTS
    StateKinds = {leds}
    leds = leds
    HappeningKinds = {ended}
    ended = ended
    MaxKinds = 2
    MaxSinks = 1
    Kept = 2
    SeqMod = 3
    Publishers = {p1, p2}
    p1 = p1
    p2 = p2
    Listeners = {web}
    web = web
    None = None
    MaxCount = 4
SPECIFICATION Spec
SYMMETRY Symmetry
INVARIANTS
    TypeOK
    RingKeepsLatest
    DirtyIsAnnounced
    DueIsWanted

    
    

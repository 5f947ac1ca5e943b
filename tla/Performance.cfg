SPECIFICATION FairSpec
CONSTANTS
    Tracks = {t1, t2}
    Voices = {1, 2, 3, 4}
    Callers = {c1}
    Clips = {k1}
    Materials = {a, b}
    Loaded <- FullSongs
    None = None
    Late = 1
    MaxBeat = 2
    BeatsPerBar = 2
    LoopLength = 1
    IdCapacity = 40
    MaxRequests = 2
    MaxEdits = 1
    MaxSessions = 1
CHECK_DEADLOCK FALSE
INVARIANTS TypeOK RuntimeAgrees
PROPERTIES EditsReplaced RequestsAnswered

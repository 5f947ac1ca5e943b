\* A second session on the runtime of the first: the ids of the first are
\* still reserved, and the controller counts its refreshes from 1 again.
SPECIFICATION Spec
CONSTANTS
    Tracks = {t1}
    Voices = {1, 2}
    Callers = {c1}
    Clips = {k1}
    Materials = {a, b}
    Loaded <- FullSongs
    None = None
    Late = 1
    MaxBeat = 1
    BeatsPerBar = 2
    LoopLength = 1
    IdCapacity = 40
    MaxRequests = 3
    MaxEdits = 2
    MaxSessions = 2
CHECK_DEADLOCK FALSE
PROPERTY EditsReplaced

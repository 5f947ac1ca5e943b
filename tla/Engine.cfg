SPECIFICATION EngineFairSpec
CONSTANTS
    t1 = t1
    t2 = t2
    Tracks = {t1, t2}
    Voices = {1, 2, 3, 4}
    Callers = {c1, c2}
    Batches <- MCBatches
    StopIds = {s1}
    None = None
    Late = 1
    MaxBeat = 3
CHECK_DEADLOCK FALSE
INVARIANTS EngineTypeOK SourcesExact
PROPERTIES TransitionsResolve

SPECIFICATION FairSpec
CONSTANTS
    l1 = l1
    l2 = l2
    Lives = {l1, l2}
    Preview = preview
    Song = song
    Jam = jam
    Tracks = {t1}
    Voices = {1, 2, 3}
    Callers = {preview, song, l1, l2}
    None = None
    Late = 1
    MaxBeat = 2
    MaxQueue = 2
    MaxRev = 2
CHECK_DEADLOCK FALSE
INVARIANTS TypeOK HolderExact
PROPERTIES HoldersSettle

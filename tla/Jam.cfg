CONSTANTS
    ours = ours
    theirs = theirs
    low = low
    high = high
    Sessions = {ours, theirs}
    NoSession = NoSession
    Pitches = {low, high}
    Frames <- MCFrames
    Invalid = Invalid
    None = None
    MaxNotes = 1
    MaxQueue = 3
    MaxGeneration = 3
SPECIFICATION JamFairSpec
INVARIANTS
    JamTypeOK
    SoundAccounted
    ArmedAfterPanic
PROPERTIES
    DisarmSilences

SPECIFICATION Spec
CONSTANTS
    None = None
    Names <- MCNames
    MaxPitch = 1
    Storable <- MCStorable
    Importable <- MCImportable
    Batches <- MCBatches
    Drafts <- MCDrafts
    ClipLength = 2
    Grids = {2}
    Semitones = {1}
    Slots = 3
    SongIds <- MCSongIds
    TrackIds <- MCTrackIds
    ClipIds <- MCClipIds
    NoteIds <- MCNoteIds
    MaxEdits = 2
    MaxRevision = 3
    Loop = 2
    Grid = 2
    LauncherTracks = 1
    MaxTakeNotes = 1
    MaxTakeRevision = 1
    MaxOpen = 1
INVARIANTS SongsSound StatusHonest RecorderSound
PROPERTIES DeferredOnBase ImplementsHistory
CHECK_DEADLOCK FALSE

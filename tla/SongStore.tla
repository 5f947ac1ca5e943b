------------------------------ MODULE SongStore ------------------------------
(***************************************************************************)
(* The store of the song page (apps/playground/src/store.ts): the song     *)
(* that is shown, its undo and redo stacks, the copy in the browser's      *)
(* storage, what is selected and the note that is being edited.            *)
(*                                                                         *)
(* Every handler of the store is synchronous: one action. New ids are      *)
(* random UUIDs: an id that nothing the page holds has.                    *)
(*                                                                         *)
(* Left out: messages and drafts of text, the preview player, lastError    *)
(* (a handler that only sets it is no step) and the log of events.         *)
(***************************************************************************)
EXTENDS SongGraph

CONSTANTS Storable,       \* songs the storage may hold when the page opens
          Importable,     \* songs whose JSON the player has at hand
          Batches,        \* command batches that an agent may send
          Drafts,         \* what the note form may say: start, length, pitch
          ClipLength,     \* of a new clip
          Grids, Semitones,
          Slots,          \* LIVE_LAUNCHER_SLOT_COUNT
          SongIds, TrackIds, ClipIds, NoteIds,   \* for new objects, in the order of use
          MaxEdits,       \* bound: edits that can be undone, takes apart
          MaxRevision     \* bound: revisions of one page load

VARIABLES shown,      \* commandState: song, sel (its selection), revision
          undo, redo,
          saved,      \* the song in the storage
          status,     \* persistence: phase, and hasSavedSong as stored
          selected,   \* <<selectedTrackId, selectedClipId>>
          editing,    \* editingNoteId, with the clip it was found in
          live        \* performanceState: phase, active clips, recording

ASSUME StoreAssumption ==
    /\ \A song \in (Storable \ {None}) \cup Importable : song \in Song /\ SongSound(song)
    /\ Batches \subseteq Seq(Commands)
    /\ \A draft \in Drafts : draft \in [start : Int, length : Int, pitch : Int]
    /\ ClipLength \in Int /\ Grids \subseteq Nat \ {0} /\ Semitones \subseteq Int
    /\ \A ids \in {SongIds, TrackIds, ClipIds, NoteIds} :
          ids \in Seq(Names) /\ IsInjective(ids)

storeVars == <<shown, undo, redo, saved, status, selected, editing, live>>

NotLive == [phase |-> "idle", active |-> {}, recording |-> None]

StoreInit ==
    /\ shown = [song |-> None, sel |-> Nowhere, revision |-> 0]
    /\ undo = <<>> /\ redo = <<>>
    /\ saved \in Storable
    /\ status = [phase |-> "idle", stored |-> saved # None]
    /\ selected = Nowhere
    /\ editing = None
    /\ live = NotLive

-----------------------------------------------------------------------------
(* Reading a song.                                                         *)

Tracks(song) == IF song = None THEN <<>> ELSE song.tracks

ClipsOf(song) ==
    UNION {{<<track.id, c>> : c \in Ids(track.clips)} : track \in ToSet(Tracks(song))}

ClipNamed(items, id) == items[Min(At(items, id))]

(* resolveEditableClip: the selected clip in whichever track has it first, *)
(* otherwise the first clip of the selected track. At most one.            *)
Target ==
    LET tracks == Tracks(shown.song)
        holders == {i \in DOMAIN tracks : selected[2] \in Ids(tracks[i].clips)}
        fallback == IF selected[1] = None THEN {1} \cap DOMAIN tracks
                    ELSE At(tracks, selected[1])
    IN  IF holders # {}
        THEN {[track |-> tracks[i].id, clip |-> ClipNamed(tracks[i].clips, selected[2])] :
                 i \in {Min(holders)}}
        ELSE {[track |-> tracks[i].id, clip |-> tracks[i].clips[1]] :
                 i \in {k \in fallback : tracks[k].clips # <<>>}}

(* The same for the step editor and the recorder, which look for the clip  *)
(* in the selected track only.                                             *)
FirstOr(items, id) ==
    IF id \in Ids(items) THEN {ClipNamed(items, id)}
    ELSE {items[i] : i \in {1} \cap DOMAIN items}

SelectedTrack == FirstOr(Tracks(shown.song), selected[1])

(* makeId: an unused id; the first one, so that equal songs are equal.     *)
PageSongs ==
    ({shown.song, saved} \cup {s.song : s \in ToSet(undo \o redo)}
        \cup Storable \cup Importable) \ {None}
PageTracks == UNION {ToSet(s.tracks) : s \in PageSongs}
PageClips == UNION {ToSet(t.clips) : t \in PageTracks}

Unused(pool, used) == Kept(pool, {i \in DOMAIN pool : pool[i] \notin used})
NewSongs == Unused(SongIds, {s.id : s \in PageSongs})
NewTracks == Unused(TrackIds, {t.id : t \in PageTracks})
NewClips == Unused(ClipIds, {c.id : c \in PageClips})
NewNotes == Unused(NoteIds, UNION {Ids(c.notes) : c \in PageClips})

-----------------------------------------------------------------------------
(* syncPerformanceWithCommandState: another song stops the performance,    *)
(* an edited one only drops what referred to a clip that is gone.          *)

SongId(song) == IF song = None THEN None ELSE song.id

StillRecordable(recording, song) ==
    /\ recording # None
    /\ recording.track \in Ids(Tracks(song))
    /\ recording.clip # None => <<recording.track, recording.clip>> \in ClipsOf(song)

Synced(song, force) ==
    IF force \/ SongId(shown.song) # SongId(song) THEN NotLive
    ELSE [live EXCEPT !.active = @ \cap ClipsOf(song),
                      !.recording = IF StillRecordable(@, song) THEN @ ELSE None]

(* Writing to the storage: it may refuse, and then keeps what it has.      *)
Refused == saved' = saved /\ status' = [phase |-> "error", stored |-> saved # None]

(* Mutant: a refused write is reported as done. *)
StoredOrNot(song, phase) ==
    /\ saved' \in {song, saved}
    /\ status' = [phase |-> phase, stored |-> saved' # None]

Stored(song, phase) ==
    \/ saved' = song /\ status' = [phase |-> phase, stored |-> song # None]
    \/ Refused

-----------------------------------------------------------------------------
(* Edits. A batch that throws leaves everything as it was.                 *)

(* Bound: a take may still be added after the last of MaxEdits edits.      *)
Editable == Len(undo) < MaxEdits

(* Mutant: what was undone can still be redone after another edit. *)
CommitKeepingRedo(outcome, selection) ==
    /\ shown.revision < MaxRevision
    /\ shown' = [song |-> outcome.song, sel |-> outcome.sel, revision |-> shown.revision + 1]
    /\ undo' = Append(undo, shown)
    /\ redo' = redo
    /\ selected' = selection
    /\ Stored(outcome.song, "saved")

(* The edit as the store keeps it; the performance follows (Synced).       *)
Commit(outcome, selection) ==
    /\ shown.revision < MaxRevision
    /\ shown' = [song |-> outcome.song, sel |-> outcome.sel, revision |-> shown.revision + 1]
    /\ undo' = Append(undo, shown)
    /\ redo' = <<>>
    /\ selected' = selection
    /\ Stored(outcome.song, "saved")

(* dispatch leaves the note form as it is, dispatchBatch closes it.        *)
DispatchAll(cmds) ==
    /\ Editable
    /\ \E o \in Outcomes(shown, cmds) : Commit(o, o.sel) /\ live' = Synced(o.song, FALSE)

Dispatch(cmd) == DispatchAll(<<cmd>>)
DispatchBatch(cmds) == DispatchAll(cmds) /\ editing' = None

AddTrackCommand(id) == [type |-> "CreateTrack", track |-> id]

AddClipCommand(t, id, length) ==
    [type |-> "CreateClip", track |-> t, clip |-> id, length |-> length]

AddNoteCommand(t, c, id, draft) ==
    [type |-> "AddNote", track |-> t, clip |-> c,
     note |-> [id |-> id, pitch |-> draft.pitch, start |-> draft.start,
               length |-> draft.length]]

(* A smaller demo than the code's, which has two tracks of two clips. *)
CreateDemo ==
    /\ Editable
    /\ NewSongs # <<>> /\ NewTracks # <<>> /\ Len(NewClips) > 1 /\ NewNotes # <<>>
    /\ \E draft \in Drafts :
          LET t == NewTracks[1]
              cmds == <<[type |-> "CreateSong", id |-> NewSongs[1]],
                        AddTrackCommand(t),
                        AddClipCommand(t, NewClips[1], ClipLength),
                        AddNoteCommand(t, NewClips[1], NewNotes[1], draft),
                        AddClipCommand(t, NewClips[2], ClipLength)>>
          IN  \E o \in Outcomes(shown, cmds) :
                 Commit(o, <<t, NewClips[1]>>) /\ live' = Synced(o.song, FALSE)
    /\ UNCHANGED editing

(* Without a song, addTrack dispatches twice: two edits, two writes.       *)
AddFirstTrack ==
    LET song == NewSong(NewSongs[1])
        first == [song |-> song, sel |-> Nowhere, revision |-> shown.revision + 1]
        cmd == AddTrackCommand(NewTracks[1])
    IN  /\ shown.song = None
        /\ NewSongs # <<>> /\ NewTracks # <<>>
        /\ shown.revision + 1 < MaxRevision /\ Len(undo) + 1 < MaxEdits
        /\ \E o \in Outcomes(first, <<cmd>>) :
              /\ shown' = [song |-> o.song, sel |-> o.sel, revision |-> shown.revision + 2]
              /\ selected' = o.sel
              /\ \/ Stored(o.song, "saved")
                 \/ saved' = song /\ status' = [phase |-> "error", stored |-> TRUE]
        /\ undo' = undo \o <<shown, first>>
        /\ redo' = <<>>
        /\ live' = NotLive
        /\ UNCHANGED editing

AddTrack ==
    /\ shown.song # None /\ NewTracks # <<>>
    /\ Dispatch(AddTrackCommand(NewTracks[1]))
    /\ UNCHANGED editing

(* addClipToSelection *)
AddClip ==
    /\ NewClips # <<>>
    /\ \E t \in IF selected[1] # None THEN {selected[1]}
                ELSE {Tracks(shown.song)[i].id : i \in {1} \cap DOMAIN Tracks(shown.song)} :
          Dispatch(AddClipCommand(t, NewClips[1], ClipLength))
    /\ UNCHANGED editing

(* setTempo, and the dispatch of StopPlayback when the audio is stopped.   *)
SetTransport ==
    /\ Dispatch([type |-> "SetTransport", value |-> 0])
    /\ UNCHANGED editing

SetSelectedTrackInstrument ==
    /\ selected[1] \in Ids(Tracks(shown.song))
    /\ Dispatch([type |-> "SetTrackInstrument", track |-> selected[1]])
    /\ UNCHANGED editing

(* duplicateSelectedClip, to a later free slot or not.                     *)
DuplicateSelectedClip ==
    /\ \E target \in Target :
          LET k == Len(target.clip.notes)
          IN  /\ NewClips # <<>> /\ Len(NewNotes) >= k
              /\ Dispatch([type |-> "DuplicateClip", track |-> target.track,
                           source |-> target.clip.id, clip |-> NewClips[1],
                           notes |-> SubSeq(NewNotes, 1, k)])
    /\ editing' = None

ReshapeSelectedClip ==
    /\ \E target \in Target :
          \/ \E g \in Grids :
                Dispatch([type |-> "QuantizeClip", track |-> target.track,
                          clip |-> target.clip.id, grid |-> g])
          \/ \E n \in Semitones :
                Dispatch([type |-> "TransposeClip", track |-> target.track,
                          clip |-> target.clip.id, semitones |-> n])
    /\ editing' = None

-----------------------------------------------------------------------------
(* Notes: the form of the inspector, and the step editor.                  *)

EditNote ==
    /\ \E target \in Target : \E n \in Ids(target.clip.notes) :
          editing' = [note |-> n, track |-> target.track, clip |-> target.clip.id]
    /\ UNCHANGED <<shown, undo, redo, saved, status, selected, live>>

CancelNoteEdit ==
    /\ editing # None
    /\ editing' = None
    /\ UNCHANGED <<shown, undo, redo, saved, status, selected, live>>

(* The form holds anything; a note is updated where the target is now.     *)
CommitNoteDraft ==
    /\ \E target \in Target, draft \in Drafts :
          IF editing = None
          THEN /\ NewNotes # <<>>
               /\ Dispatch(AddNoteCommand(target.track, target.clip.id, NewNotes[1], draft))
          ELSE Dispatch([type |-> "UpdateNote", track |-> target.track,
                         clip |-> target.clip.id, id |-> editing.note, changes |-> draft])
    /\ editing' = None

RemoveNoteCommand(t, c, n) == [type |-> "RemoveNote", track |-> t, clip |-> c, id |-> n]

RemoveNoteFromSelection ==
    \E target \in Target : \E n \in Ids(target.clip.notes) :
       /\ Dispatch(RemoveNoteCommand(target.track, target.clip.id, n))
       /\ editing' = IF editing # None /\ editing.note = n THEN None ELSE editing

(* A step of the editor clears, accents or sets the notes that start on it:*)
(* one command is dispatched, several as a batch.                          *)
StepCommands(track, clip, draft) ==
    LET there == {i \in DOMAIN clip.notes :
                     /\ clip.notes[i].start = draft.start
                     /\ clip.notes[i].pitch = draft.pitch}
        OnEach(Command(_)) == SetToSeq({Command(clip.notes[i].id) : i \in there})
        Accent(n) == [type |-> "UpdateNote", track |-> track, clip |-> clip.id,
                      id |-> n, changes |-> <<>>]
        Clear(n) == RemoveNoteCommand(track, clip.id, n)
    IN  IF there # {} THEN {OnEach(Accent), OnEach(Clear)}
        ELSE {<<AddNoteCommand(track, clip.id, NewNotes[i], draft)>> :
                 i \in {1} \cap DOMAIN NewNotes}

EditStep ==
    \E track \in SelectedTrack : \E clip \in FirstOr(track.clips, selected[2]) :
       \E draft \in Drafts : \E cmds \in StepCommands(track.id, clip, draft) :
          IF Len(cmds) = 1 THEN Dispatch(cmds[1]) /\ UNCHANGED editing
          ELSE DispatchBatch(cmds)

-----------------------------------------------------------------------------
(* Selection. The ids are those of the buttons of the song that is shown.  *)

Select(selection) ==
    /\ selected' = selection
    /\ editing' = None
    /\ UNCHANGED <<shown, undo, redo, saved, status, live>>

SelectTrack == \E t \in Ids(Tracks(shown.song)) : Select(<<t, None>>)
SelectClip == \E clip \in ClipsOf(shown.song) : Select(clip)

-----------------------------------------------------------------------------
(* undo and redo: the older state under a fresh revision, and its song     *)
(* back in the storage (no song: the storage is emptied).                  *)

Restore(state) ==
    /\ shown.revision < MaxRevision
    /\ shown' = [state EXCEPT !.revision = shown.revision + 1]
    /\ selected' = state.sel
    /\ Stored(state.song, IF state.song = None THEN "cleared" ELSE "saved")
    /\ editing' = None
    /\ live' = Synced(state.song, FALSE)

Undo ==
    /\ undo # <<>>
    /\ Restore(Last(undo))
    /\ undo' = Front(undo)
    /\ redo' = <<shown>> \o redo

Redo ==
    /\ redo # <<>>
    /\ Restore(Head(redo))
    /\ undo' = Append(undo, shown)
    /\ redo' = Tail(redo)

-----------------------------------------------------------------------------
(* The storage, song JSON and the page itself.                             *)

Reported(phase) == saved' = saved /\ status' = [phase |-> phase, stored |-> saved # None]

SaveSong ==
    /\ IF shown.song = None THEN Reported("error") ELSE Stored(shown.song, "saved")
    /\ UNCHANGED <<shown, undo, redo, selected, editing, live>>

(* Another song is shown; it can be undone.                                *)
Open(song) ==
    /\ Editable /\ shown.revision < MaxRevision
    /\ shown' = [song |-> song, sel |-> Nowhere, revision |-> shown.revision + 1]
    /\ undo' = Append(undo, shown)
    /\ redo' = <<>>
    /\ selected' = LET first == song.tracks[1]
                   IN  IF song.tracks = <<>> THEN Nowhere
                       ELSE <<first.id, IF first.clips = <<>> THEN None ELSE first.clips[1].id>>
    /\ editing' = None
    /\ live' = Synced(song, TRUE)

LoadSavedSong ==
    IF saved = None
    THEN Reported("error") /\ UNCHANGED <<shown, undo, redo, selected, editing, live>>
    ELSE Open(saved) /\ Reported("loaded")

(* The import is written first; refused, it changes nothing else.          *)
ImportSong ==
    \E song \in Importable :
       \/ Open(song) /\ saved' = song /\ status' = [phase |-> "loaded", stored |-> TRUE]
       \/ Refused /\ UNCHANGED <<shown, undo, redo, selected, editing, live>>

ClearSavedSong ==
    /\ Stored(None, "cleared")
    /\ UNCHANGED <<shown, undo, redo, selected, editing, live>>

ReloadStore ==
    /\ shown' = [song |-> None, sel |-> Nowhere, revision |-> 0]
    /\ undo' = <<>> /\ redo' = <<>>
    /\ saved' = saved
    /\ status' = [phase |-> "idle", stored |-> saved # None]
    /\ selected' = Nowhere /\ editing' = None
    /\ live' = NotLive

-----------------------------------------------------------------------------
(* The live performance, as far as the store keeps it.                     *)

StartLive ==
    /\ shown.song # None /\ live.phase = "idle"
    /\ live' = [NotLive EXCEPT !.phase = "playing"]
    /\ UNCHANGED <<shown, undo, redo, saved, status, selected, editing>>

(* A launch that the engine executed: one clip of a track at a time.       *)
ClipStarts ==
    /\ live.phase # "idle"
    /\ \E clip \in ClipsOf(shown.song) \ live.active :
          live' = [live EXCEPT !.active = {other \in @ : other[1] # clip[1]} \cup {clip}]
    /\ UNCHANGED <<shown, undo, redo, saved, status, selected, editing>>

(* A stop is asked for and carried out or cancelled; closing the launcher  *)
(* stops at once. Only a recording tells stopping from playing.            *)
StopLive ==
    /\ live.phase # "idle"
    /\ \/ live' = NotLive
       \/ /\ live.recording # None
          /\ live' = [live EXCEPT !.phase = IF @ = "playing" THEN "stopping" ELSE "playing"]
    /\ UNCHANGED <<shown, undo, redo, saved, status, selected, editing>>

Edits ==
    \/ CreateDemo \/ AddFirstTrack \/ AddTrack \/ AddClip
    \/ SetTransport \/ SetSelectedTrackInstrument
    \/ DuplicateSelectedClip \/ ReshapeSelectedClip
    \/ CommitNoteDraft \/ RemoveNoteFromSelection \/ EditStep
    \/ Undo \/ Redo
    \/ LoadSavedSong \/ ImportSong

=============================================================================

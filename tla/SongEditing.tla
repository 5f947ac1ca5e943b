----------------------------- MODULE SongEditing -----------------------------
(***************************************************************************)
(* Everything that edits the song of the page: the player's own gestures   *)
(* (SongStore), a MIDI take recorded over a loop (MidiRecorder.tsx), a     *)
(* MIDI file that is read and previewed first (MidiImportPanel.tsx), and   *)
(* an agent that sends a batch for a revision it inspected earlier         *)
(* (executeRemoteCommandBatch).                                            *)
(*                                                                         *)
(* The last three prepare an edit now and apply it later. What they        *)
(* prepared on is kept beside the revision they remember (song), for the   *)
(* properties only.                                                        *)
(***************************************************************************)
EXTENDS SongStore

CONSTANTS Loop, Grid,
          LauncherTracks,  \* LIVE_LAUNCHER_TRACK_COUNT
          MaxTakeNotes,    \* bound: notes of one take
          MaxTakeRevision, \* bound: revisions at which a take is queued
          MaxOpen          \* bound: edits open at one time

VARIABLES take,       \* the take, and baseRevision as revision
          lastTake,   \* lastTakeRevision, and the song the take was added to
          preview,    \* the MIDI file: phase and the revision it was chosen at
          agent       \* the snapshot an agent inspected

vars == <<storeVars, take, lastTake, preview, agent>>

ASSUME LoopAssumption == Grid \in Nat \ {0} /\ Loop \in Nat \ {0} /\ Loop % Grid = 0

T == INSTANCE MidiTake WITH NoKey <- None

Init ==
    /\ StoreInit
    /\ take = None /\ lastTake = None /\ preview = None /\ agent = None

Now == [revision |-> shown.revision, song |-> shown.song]
Prepared(work) ==
    [f \in DOMAIN work \cup DOMAIN Now |-> IF f \in DOMAIN Now THEN Now[f] ELSE work[f]]

(* A take as the recorder keeps it; held is the beat its key was struck.   *)
Takes == [mode : {"record", "overdub"}, track : Names, clip : Names, at : Int,
          held : Int \cup {None}, notes : Seq([start : Int, end : Int]),
          revision : Nat, song : Song \cup {None}]

ASSUME NoTakeAssumption == None \notin Takes

Room == Len(SelectSeq(<<editing, take, preview, agent>>, LAMBDA w : w # None)) < MaxOpen

NotEdited == UNCHANGED <<shown, undo, redo, saved, status, selected, editing>>

-----------------------------------------------------------------------------
(* The recorder.                                                           *)

LauncherTrack ==
    {track \in SelectedTrack :
        \A i \in DOMAIN Tracks(shown.song) :
            Tracks(shown.song)[i].id = track.id => i <= LauncherTracks}

SelectedSlot(track) ==
    {clip \in FirstOr(track.clips, selected[2]) :
        /\ Min(At(track.clips, clip.id)) <= Slots
        /\ clip.length = Loop
        /\ <<track.id, clip.id>> \in live.active}

Queue(newTake, armedClip) ==
    /\ take' = Prepared(newTake)
    /\ live' = [live EXCEPT !.recording = [phase |-> "armed", track |-> newTake.track,
                                           clip |-> armedClip]]

(* queueTake: over the selected clip while it plays, or into a free slot.  *)
QueueTake ==
    /\ live.phase = "playing" /\ live.recording = None /\ take = None
    /\ Room /\ shown.revision <= MaxTakeRevision
    /\ \E track \in LauncherTrack :
          \/ \E clip \in SelectedSlot(track) :
                Queue(T!NewTake("overdub", track.id, clip.id), clip.id)
          \/ /\ Len(track.clips) < Slots /\ NewClips # <<>>
             /\ Queue(T!NewTake("record", track.id, NewClips[1]), None)
    /\ NotEdited
    /\ UNCHANGED <<lastTake, preview, agent>>

(* Mutant: the recording slot is not given back. *)
SlotKept(performance) == performance

(* CancelRecording: the slot of another track is left alone.               *)
SlotReleased(performance) ==
    [performance EXCEPT !.recording = IF @ # None /\ @.track = take.track THEN None ELSE @]

CancelTake ==
    /\ take' = None
    /\ live' = SlotReleased(live)
    /\ NotEdited /\ UNCHANGED lastTake

TakeCommands(done) ==
    (IF done.mode = "record" THEN <<AddClipCommand(done.track, done.clip, Loop)>> ELSE <<>>)
    \o [i \in DOMAIN done.notes |->
            AddNoteCommand(done.track, done.clip, NewNotes[i], T!TakeNotes(done)[i])]

(* Mutant: the song may have changed meanwhile. *)
TakeAppliesAnywhere(done) ==
    /\ done.notes # <<>> /\ Len(NewNotes) >= Len(done.notes)
    /\ Outcomes(shown, TakeCommands(done)) # {}

(* finishTake: one batch, on the revision the take was queued at.          *)
TakeApplies(done) ==
    /\ shown.revision = done.revision
    /\ done.notes # <<>> /\ Len(NewNotes) >= Len(done.notes)
    /\ Outcomes(shown, TakeCommands(done)) # {}

FinishTake(done) ==
    \/ /\ TakeApplies(done)
       /\ \E o \in Outcomes(shown, TakeCommands(done)) :
             Commit(o, o.sel) /\ live' = SlotReleased(Synced(o.song, FALSE))
       /\ editing' = None
       /\ take' = None
       /\ lastTake' = [revision |-> shown'.revision, song |-> shown.song]
    \/ ~TakeApplies(done) /\ CancelTake

(* StartRecording and StartOverdub: the take must still own the slot.      *)
MayStart(next) ==
    /\ live.recording # None
    /\ live.recording.phase = "armed" /\ live.recording.track = next.track
    /\ next.mode = "overdub" => live.phase = "playing" /\ live.recording.clip = next.clip

Continue(next) ==
    /\ take' = next
    /\ live' = IF T!Queued(take) /\ T!Recording(next)
               THEN [live EXCEPT !.recording.phase = "recording"] ELSE live
    /\ NotEdited /\ UNCHANGED lastTake

Follow(next) ==
    IF T!Completed(next) THEN FinishTake(next)
    ELSE IF T!Queued(take) /\ T!Recording(next) /\ ~MayStart(next) THEN CancelTake
    ELSE Continue(next)

Inactive == take.mode = "overdub" /\ <<take.track, take.clip>> \notin live.active

(* The effect that runs after a change of the transport, of the tracks or  *)
(* of the song.                                                            *)
ObserveTake ==
    /\ take # None
    /\ \/ /\ live.phase # "playing" \/ shown.revision # take.revision \/ Inactive
          /\ CancelTake
       \/ /\ live.phase = "playing" /\ shown.revision = take.revision /\ ~Inactive
          /\ \E beat \in (take.at + 1)..Loop : Follow(T!Advanced(take, beat))
    /\ UNCHANGED <<preview, agent>>

Played == Len(take.notes) + (IF take.held = None THEN 0 ELSE 1)

(* A key is struck or released; the beat is read then, not when the effect *)
(* last ran.                                                               *)
CaptureInput ==
    /\ take # None
    /\ \/ Inactive /\ CancelTake
       \/ /\ ~Inactive
          /\ \E beat \in IF live.phase # "idle" THEN take.at..Loop ELSE {take.at} :
                LET ready == T!Advanced(take, beat)
                IN  \/ T!Completed(ready) /\ FinishTake(ready)
                    \/ /\ T!Recording(ready) /\ Played < MaxTakeNotes
                       /\ Follow(T!Struck(ready, beat))
                    \/ T!Recording(ready) /\ Follow(T!Released(ready, beat))
    /\ UNCHANGED <<preview, agent>>

(* By the player, the loss of the window's focus or of the MIDI device.    *)
DiscardTake ==
    /\ take # None
    /\ CancelTake
    /\ UNCHANGED <<preview, agent>>

UndoLastTake ==
    /\ lastTake # None /\ lastTake.revision = shown.revision /\ take = None
    /\ Undo
    /\ lastTake' = None
    /\ UNCHANGED <<take, preview, agent>>

-----------------------------------------------------------------------------
(* MIDI import. A file chosen later replaces this one (generation).        *)

ChooseMidiFile ==
    /\ preview # None \/ Room
    /\ preview' = Prepared([phase |-> "reading"])
    /\ UNCHANGED <<storeVars, take, lastTake, agent>>

MidiFileRead ==
    /\ preview # None /\ preview.phase = "reading"
    /\ preview' \in {None, [preview EXCEPT !.phase = "ready"]}
    /\ UNCHANGED <<storeVars, take, lastTake, agent>>

(* midiImportCommands: new tracks, and a song if there is none.            *)
ImportCommands(draft) ==
    (IF shown.song = None THEN <<[type |-> "CreateSong", id |-> NewSongs[1]]>> ELSE <<>>)
    \o <<AddTrackCommand(NewTracks[1]),
         AddClipCommand(NewTracks[1], NewClips[1], ClipLength),
         AddNoteCommand(NewTracks[1], NewClips[1], NewNotes[1], draft)>>

ImportApplies == shown.revision = preview.revision

AcceptMidiImport ==
    /\ preview # None /\ preview.phase = "ready" /\ ImportApplies
    /\ NewSongs # <<>> /\ NewTracks # <<>> /\ NewClips # <<>> /\ NewNotes # <<>>
    /\ \E draft \in Drafts : DispatchAll(ImportCommands(draft))
    /\ preview' = None
    /\ UNCHANGED <<editing, take, lastTake, agent>>

DiscardMidiImport ==
    /\ preview # None
    /\ preview' = None
    /\ UNCHANGED <<storeVars, take, lastTake, agent>>

-----------------------------------------------------------------------------
(* The agent: what it inspected, and the batch it sends for that revision. *)

InspectRemoteSession ==
    /\ agent = None /\ Room
    /\ agent' = Now
    /\ UNCHANGED <<storeVars, take, lastTake, preview>>

ExecuteRemoteCommandBatch ==
    /\ agent # None
    /\ agent' = None
    /\ \E cmds \in Batches :
          IF agent.revision = shown.revision /\ Outcomes(shown, cmds) # {}
          THEN DispatchBatch(cmds)
          ELSE UNCHANGED storeVars
    /\ UNCHANGED <<take, lastTake, preview>>

-----------------------------------------------------------------------------
(* Bound: a reload on any other song is a start with that song Storable.   *)
ReloadPage ==
    /\ saved \in Storable
    /\ ReloadStore
    /\ take' = None /\ lastTake' = None /\ preview' = None /\ agent' = None

PlayerStep ==
    /\ Edits \/ (EditNote /\ Room) \/ CancelNoteEdit \/ SelectTrack \/ SelectClip
       \/ SaveSong \/ ClearSavedSong \/ StartLive \/ ClipStarts \/ StopLive
    /\ UNCHANGED <<take, lastTake, preview, agent>>

Next ==
    \/ PlayerStep
    \/ QueueTake \/ ObserveTake \/ CaptureInput \/ DiscardTake \/ UndoLastTake
    \/ ChooseMidiFile \/ MidiFileRead \/ AcceptMidiImport \/ DiscardMidiImport
    \/ InspectRemoteSession \/ ExecuteRemoteCommandBatch
    \/ ReloadPage

Spec == Init /\ [][Next]_vars

-----------------------------------------------------------------------------
(* The songs of this page load, in the order undo and redo walk them.      *)
Songs(states) == [i \in DOMAIN states |-> states[i].song]
Line == Songs(undo) \o <<shown.song>> \o Songs(redo)

(* Whatever sequence of edits led to it, every song that is shown, saved   *)
(* or can come back by undo and redo is one that deserializeSong accepts:  *)
(* note and clip edits do not validate the song they return, and a song    *)
(* that fails the check is lost at the next load.                          *)
SongsSound == \A song \in (ToSet(Line) \cup {saved}) \ {None} : SongSound(song)

(* hasSavedSong tells whether the storage holds a song, and after "saved"  *)
(* or "loaded" it holds the one on the page, although writes may fail and  *)
(* one handler may write twice.                                            *)
StatusHonest ==
    /\ status.stored <=> saved # None
    /\ status.phase \in {"saved", "loaded"} => saved = shown.song /\ saved # None
    /\ status.phase = "cleared" => saved = None

(* The recording slot of the performance is never left behind: while it is *)
(* taken, the recorder holds the take that armed it, for the same track.   *)
SlotOwned ==
    live.recording # None => take # None /\ live.recording.track = take.track

(* A take that was not disturbed can always be committed when its loop     *)
(* ends, if it has notes: its clip or its slot is still there and its      *)
(* notes fit the loop. The ids that are left are a bound.                  *)
TakeFits ==
    LET done == T!Advanced(take, Loop)
    IN  take # None /\ take.revision = shown.revision
            /\ done.notes # <<>> /\ Len(NewNotes) >= Len(done.notes)
            => Outcomes(shown, TakeCommands(done)) # {}

(* The recorder and the store agree: whoever holds the slot has a take,    *)
(* and whoever plays a take on the present song does not play in vain.     *)
RecorderSound == SlotOwned /\ TakeFits

AppliesOnBase ==
    /\ \A work \in {<<take, take'>>, <<preview, preview'>>, <<agent, agent'>>} :
          work[1] # None /\ work[2] = None /\ Len(undo') > Len(undo) =>
              work[1].song = shown.song
    /\ lastTake # None /\ lastTake' = None /\ Len(undo') < Len(undo) /\ undo' # <<>> =>
          shown'.song = lastTake.song

(* Who prepares an edit remembers a revision and compares nothing else. A  *)
(* prepared edit still enters the history only on the song it was prepared *)
(* on, through any edits, undo, redo and loads meanwhile, and "Undo last   *)
(* take" brings back the song from before that take.                       *)
DeferredOnBase == [][AppliesOnBase]_vars

History == INSTANCE SongHistory WITH
    line <- Line, at <- Len(undo) + 1, revision <- shown.revision

(* Every handler of the page is a step of SongHistory: undo and redo walk  *)
(* one line of songs, an edit cuts off what was ahead, and each takes a    *)
(* new revision.                                                           *)
ImplementsHistory == History!Spec
=============================================================================

------------------------------ MODULE SongGraph ------------------------------
(***************************************************************************)
(* The song (packages/core) and the commands that change it                *)
(* (packages/commands): tracks, clips and notes, each found by its id, and *)
(* a batch of commands that is applied whole or not at all.                *)
(*                                                                         *)
(* A function of the code that may throw is an operator whose value is the *)
(* set of its results: empty when it throws.                               *)
(*                                                                         *)
(* Beats are counted in ticks. Left out: names, colours, instruments,      *)
(* velocities, where a clip starts, audio assets and the tracks that are   *)
(* not instruments; tempo and transport are one value of the song.         *)
(***************************************************************************)
EXTENDS Integers, SequencesExt

CONSTANTS None,
          Names,       \* the ids of songs, tracks, clips and notes
          MaxPitch     \* the highest MIDI pitch

ASSUME MaxPitchAssumption == MaxPitch \in Nat

When(possible, result) == {r \in {result} : possible}

At(items, id) == {i \in DOMAIN items : items[i].id = id}
Ids(items) == {items[i].id : i \in DOMAIN items}
Distinct(items) == Cardinality(Ids(items)) = Len(items)

(* The items at these positions, in their order. *)
Kept(items, positions) ==
    LET kept[n \in 0..Len(items)] ==
            IF n = 0 THEN <<>>
            ELSE IF n \in positions THEN Append(kept[n - 1], items[n])
            ELSE kept[n - 1]
    IN  kept[Len(items)]

Without(items, id) == Kept(items, DOMAIN items \ At(items, id))

-----------------------------------------------------------------------------
(* Types. A clip names its track.                                          *)

Note == [id : Names, pitch : Int, start : Int, length : Int]
Clip == [id : Names, track : Names, length : Int, notes : Seq(Note)]
Track == [id : Names, clips : Seq(Clip)]
Song == [id : Names, transport : Int, tracks : Seq(Track)]

ASSUME NoneAssumption == None \notin Song

-----------------------------------------------------------------------------
(* What deserializeSong accepts. Clip ids are unique in their track only,  *)
(* note ids in their clip only.                                            *)

NoteSound(note) == note.pitch \in 0..MaxPitch /\ note.start >= 0 /\ note.length > 0
NoteFits(note, length) == NoteSound(note) /\ note.start + note.length <= length

ClipSound(clip) ==
    /\ clip.length > 0
    /\ Distinct(clip.notes)
    /\ \A i \in DOMAIN clip.notes : NoteFits(clip.notes[i], clip.length)

TrackSound(track) ==
    /\ Distinct(track.clips)
    /\ \A i \in DOMAIN track.clips :
          track.clips[i].track = track.id /\ ClipSound(track.clips[i])

SongSound(song) ==
    Distinct(song.tracks) /\ \A i \in DOMAIN song.tracks : TrackSound(song.tracks[i])

-----------------------------------------------------------------------------
(* The edits of packages/core: a new song with one track or clip replaced. *)

NewSong(id) == [id |-> id, transport |-> 0, tracks |-> <<>>]

TrackAdded(song, track) ==
    When(track.id \notin Ids(song.tracks), [song EXCEPT !.tracks = Append(@, track)])

InTrack(song, t, Edits(_)) ==
    UNION {{[song EXCEPT !.tracks[i] = track] : track \in Edits(song.tracks[i])} :
              i \in At(song.tracks, t)}

InClip(song, t, c, Edits(_)) ==
    InTrack(song, t, LAMBDA track :
        UNION {{[track EXCEPT !.clips[j] = clip] : clip \in Edits(track.clips[j])} :
                  j \in At(track.clips, c)})

ClipAdded(song, clip) ==
    InTrack(song, clip.track, LAMBDA track :
        When(clip.length > 0 /\ clip.id \notin Ids(track.clips), [track EXCEPT !.clips = Append(@, clip)]))

NoteAdded(song, t, c, note) ==
    InClip(song, t, c, LAMBDA clip :
        When(NoteFits(note, clip.length) /\ note.id \notin Ids(clip.notes),
             [clip EXCEPT !.notes = Append(@, note)]))

(* Every note replaced; the clip is not validated again, each note is.     *)
WithNotes(clip, notes) ==
    When(\A i \in DOMAIN notes : NoteSound(notes[i]), [clip EXCEPT !.notes = notes])

Changed(note, changes) ==
    [f \in DOMAIN note |-> IF f \in DOMAIN changes THEN changes[f] ELSE note[f]]

(* Only the note that changes is validated, against the length too.        *)
NoteUpdated(song, t, c, id, changes) ==
    LET Edit(note) == IF note.id = id THEN Changed(note, changes) ELSE note
    IN  InClip(song, t, c, LAMBDA clip :
            When(/\ id \in Ids(clip.notes)
                 /\ \A i \in At(clip.notes, id) : NoteFits(Edit(clip.notes[i]), clip.length),
                 [clip EXCEPT !.notes = [i \in DOMAIN @ |-> Edit(@[i])]]))

NoteRemoved(song, t, c, id) ==
    InClip(song, t, c, LAMBDA clip :
        When(id \in Ids(clip.notes), [clip EXCEPT !.notes = Without(@, id)]))

(* The copy is validated as a clip before it is added. *)
ClipDuplicated(song, t, c, id, noteIds) ==
    LET Copy(clip) == [clip EXCEPT !.id = id,
                          !.notes = [i \in DOMAIN @ |-> [@[i] EXCEPT !.id = noteIds[i]]]]
    IN  InTrack(song, t, LAMBDA track :
            {[track EXCEPT !.clips = Append(@, Copy(@[j]))] :
                j \in {k \in At(track.clips, c) :
                          /\ Len(noteIds) = Len(track.clips[k].notes)
                          /\ id \notin Ids(track.clips)
                          /\ ClipSound(Copy(track.clips[k]))}})

(* Mutant: the last start that fits is forgotten. *)
ClipQuantizedFreely(song, t, c, grid) ==
    LET Edit(note) == [note EXCEPT !.start = ((2 * @ + grid) \div (2 * grid)) * grid]
    IN  InClip(song, t, c, LAMBDA clip :
            WithNotes(clip, [i \in DOMAIN clip.notes |-> Edit(clip.notes[i])]))

(* Math.round rounds halves up; the note keeps its length and its clip. No *)
(* start is below 0 and no note is longer than its clip.                   *)
ClipQuantized(song, t, c, grid) ==
    LET Snapped(note) == ((2 * note.start + grid) \div (2 * grid)) * grid
        Start(clip, note) == Min({clip.length - note.length, Snapped(note)})
        Edit(clip, note) == [note EXCEPT !.start = Start(clip, note)]
    IN  InClip(song, t, c, LAMBDA clip :
            WithNotes(clip, [i \in DOMAIN clip.notes |-> Edit(clip, clip.notes[i])]))

ClipTransposed(song, t, c, semitones) ==
    LET Edit(note) == [note EXCEPT !.pitch = @ + semitones]
    IN  InClip(song, t, c, LAMBDA clip :
            WithNotes(clip, [i \in DOMAIN clip.notes |-> Edit(clip.notes[i])]))

-----------------------------------------------------------------------------
(* The edits of applyCommand that end in deserializeSong.                  *)

Normalized(songs) == {song \in songs : SongSound(song)}

TrackDeleted(song, t) == When(t \in Ids(song.tracks), [song EXCEPT !.tracks = Without(@, t)])

ClipDeleted(song, t, c) ==
    InTrack(song, t, LAMBDA track :
        When(c \in Ids(track.clips), [track EXCEPT !.clips = Without(@, c)]))

ClipResized(song, t, c, length) ==
    InClip(song, t, c, LAMBDA clip :
        When(\A i \in DOMAIN clip.notes : NoteFits(clip.notes[i], length),
             [clip EXCEPT !.length = length]))

(* position counts from 0; splice clamps it to the end.                    *)
TrackRestored(song, track, position) ==
    LET others == Without(song.tracks, track.id)
    IN  When(position <= Len(song.tracks) /\ TrackSound(track),
             [song EXCEPT !.tracks =
                 InsertAt(others, Min({position, Len(others)}) + 1, track)])

-----------------------------------------------------------------------------
(* Commands. sel is the track and the clip of the command state's          *)
(* selection, None where it names none.                                    *)

Nowhere == <<None, None>>
Selections == (Names \cup {None}) \X (Names \cup {None})

(* What UpdateNote may change: all of a note but its id, or nothing.       *)
Changes == [start : Int, length : Int, pitch : Int] \cup {<<>>}

OfTrack == {"SetTrackInstrument", "RenameTrack", "DeleteTrack"}

Commands ==
    [type : {"CreateSong"}, id : Names]
    \cup [type : {"CreateTrack"} \cup OfTrack, track : Names]
    \cup [type : {"CreateClip", "UpdateClip"}, track : Names, clip : Names, length : Int]
    \cup [type : {"DeleteClip"}, track : Names, clip : Names]
    \cup [type : {"AddNote"}, track : Names, clip : Names, note : Note]
    \cup [type : {"UpdateNote"}, track : Names, clip : Names, id : Names, changes : Changes]
    \cup [type : {"RemoveNote"}, track : Names, clip : Names, id : Names]
    \cup [type : {"DuplicateClip"}, track : Names, source : Names, clip : Names,
          notes : Seq(Names)]
    \cup [type : {"QuantizeClip"}, track : Names, clip : Names, grid : Nat \ {0}]
    \cup [type : {"TransposeClip"}, track : Names, clip : Names, semitones : Int]
    \cup [type : {"RestoreTrack"}, restored : Track, position : Nat]
    \cup [type : {"SetTransport"}, value : Int]

Edited(song, cmd) ==
    CASE cmd.type = "CreateTrack" ->
            TrackAdded(song, [id |-> cmd.track, clips |-> <<>>])
      [] cmd.type \in {"SetTrackInstrument", "RenameTrack"} ->
            When(cmd.track \in Ids(song.tracks), song)
      [] cmd.type = "CreateClip" ->
            ClipAdded(song, [id |-> cmd.clip, track |-> cmd.track,
                             length |-> cmd.length, notes |-> <<>>])
      [] cmd.type = "AddNote" ->
            NoteAdded(song, cmd.track, cmd.clip, cmd.note)
      [] cmd.type = "UpdateNote" ->
            NoteUpdated(song, cmd.track, cmd.clip, cmd.id, cmd.changes)
      [] cmd.type = "RemoveNote" ->
            NoteRemoved(song, cmd.track, cmd.clip, cmd.id)
      [] cmd.type = "DuplicateClip" ->
            ClipDuplicated(song, cmd.track, cmd.source, cmd.clip, cmd.notes)
      [] cmd.type = "QuantizeClip" ->
            ClipQuantized(song, cmd.track, cmd.clip, cmd.grid)
      [] cmd.type = "TransposeClip" ->
            ClipTransposed(song, cmd.track, cmd.clip, cmd.semitones)
      [] cmd.type = "DeleteTrack" -> Normalized(TrackDeleted(song, cmd.track))
      [] cmd.type = "DeleteClip" -> Normalized(ClipDeleted(song, cmd.track, cmd.clip))
      [] cmd.type = "UpdateClip" ->
            Normalized(ClipResized(song, cmd.track, cmd.clip, cmd.length))
      [] cmd.type = "RestoreTrack" ->
            Normalized(TrackRestored(song, cmd.restored, cmd.position))
      [] cmd.type = "SetTransport" -> {[song EXCEPT !.transport = cmd.value]}

Selects(cmd, sel) ==
    CASE cmd.type \in {"CreateTrack", "SetTrackInstrument"} -> <<cmd.track, None>>
      [] cmd.type \in {"CreateClip", "AddNote", "UpdateNote", "RemoveNote",
                       "DuplicateClip", "QuantizeClip", "TransposeClip"} ->
            <<cmd.track, cmd.clip>>
      [] cmd.type = "SetTransport" -> sel
      [] OTHER -> Nowhere

(* applyCommand: all but CreateSong need a song. *)
Applied(state, cmd) ==
    IF cmd.type = "CreateSong" THEN {[song |-> NewSong(cmd.id), sel |-> Nowhere]}
    ELSE {[song |-> song, sel |-> Selects(cmd, state.sel)] :
             song \in IF state.song = None THEN {} ELSE Edited(state.song, cmd)}

(* executeCommandBatch: what the commands lead to, one after the other. A  *)
(* batch of no commands is refused.                                        *)
Outcomes(state, cmds) ==
    LET after[n \in 0..Len(cmds)] ==
            IF n = 0 THEN {state} ELSE UNION {Applied(s, cmds[n]) : s \in after[n - 1]}
    IN  IF cmds = <<>> THEN {} ELSE after[Len(cmds)]
=============================================================================

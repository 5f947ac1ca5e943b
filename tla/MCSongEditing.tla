--------------------------- MODULE MCSongEditing ---------------------------
EXTENDS SongEditing

ANote(id, start, length) == [id |-> id, pitch |-> 0, start |-> start, length |-> length]
AClip(t, id, notes) == [id |-> id, track |-> t, length |-> 2, notes |-> notes]
ASong(id, tracks) == [id |-> id, transport |-> 0, tracks |-> tracks]

\* One track with two clips, one of them with a note.
Sketch == ASong(1, <<[id |-> 1, clips |-> <<AClip(1, 1, <<ANote(1, 1, 1)>>), AClip(1, 2, <<>>)>>]>>)

\* From a file: two tracks whose clips and notes have equal ids.
Copied == ASong(2, <<[id |-> 1, clips |-> <<AClip(1, 1, <<ANote(1, 0, 1)>>)>>],
                    [id |-> 2, clips |-> <<AClip(2, 1, <<ANote(1, 1, 1)>>)>>]>>)

MCStorable == {None, Sketch}
MCImportable == {Copied}

Shorten == [type |-> "UpdateClip", track |-> 1, clip |-> 2, length |-> 1]
NewClip == [type |-> "CreateClip", track |-> 1, clip |-> 90, length |-> 2]

\* The last one fails at its second command.
MCBatches ==
    {<<[type |-> "DeleteTrack", track |-> 1]>>,
     <<[type |-> "DeleteClip", track |-> 1, clip |-> 1]>>,
     <<Shorten>>,
     <<[type |-> "RestoreTrack", restored |-> Sketch.tracks[1], position |-> 0]>>,
     <<[type |-> "CreateSong", id |-> 91]>>,
     <<[type |-> "RenameTrack", track |-> 1], NewClip, NewClip>>}

MCNames == 1..99

MCSongIds == [i \in 1..4 |-> 10 + i]
MCTrackIds == [i \in 1..4 |-> 20 + i]
MCClipIds == [i \in 1..8 |-> 30 + i]
MCNoteIds == [i \in 1..12 |-> 40 + i]

MCDrafts == {[start |-> 1, length |-> 1, pitch |-> 0]}
============================================================================

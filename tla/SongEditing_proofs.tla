------------------------- MODULE SongEditing_proofs -------------------------
(***************************************************************************)
(* Proofs about SongEditing, in three parts.                               *)
(*                                                                         *)
(* History: nothing in it depends on what a command does to a song.        *)
(* Whatever songs the edits lead to, the stacks of undo and redo and the   *)
(* revisions behave as SongHistory says, and an edit that was prepared     *)
(* earlier is applied to the song it was prepared on.                      *)
(*                                                                         *)
(* Songs: every command, and so every batch, leads from a song that        *)
(* loading accepts to another one.                                         *)
(*                                                                         *)
(* The recorder: who holds the slot has a take, and a take that was not    *)
(* disturbed can be committed.                                             *)
(***************************************************************************)
EXTENDS SongEditing, SequenceTheorems, FiniteSetTheorems, WellFoundedInduction, TLAPS

-----------------------------------------------------------------------------
(* HISTORY                                                                 *)

(***************************************************************************)
(* A state of the command engine, with any song and selection out of W.    *)
(***************************************************************************)
Entries(W) == [song : W, sel : W, revision : Nat]

Stacked(W) ==
    /\ shown \in Entries(W)
    /\ undo \in Seq(Entries(W))
    /\ redo \in Seq(Entries(W))

HistoryTyped == \E W : Stacked(W)

(***************************************************************************)
(* What a handler may do to the shown song and to the two stacks.          *)
(***************************************************************************)
Still == UNCHANGED <<shown, undo, redo>>

Replaced(song, sel, n) == shown' = [song |-> song, sel |-> sel, revision |-> shown.revision + n]

EditedOnce ==
    /\ \E song, sel : Replaced(song, sel, 1)
    /\ undo' = Append(undo, shown)
    /\ redo' = <<>>

EditedTwice ==
    /\ \E song, sel : Replaced(song, sel, 2)
    /\ \E song, sel :
          undo' = undo \o <<shown, [song |-> song, sel |-> sel, revision |-> shown.revision + 1]>>
    /\ redo' = <<>>

Undone ==
    /\ undo # <<>>
    /\ shown' = [Last(undo) EXCEPT !.revision = shown.revision + 1]
    /\ undo' = Front(undo)
    /\ redo' = <<shown>> \o redo

Redone ==
    /\ redo # <<>>
    /\ shown' = [Head(redo) EXCEPT !.revision = shown.revision + 1]
    /\ undo' = Append(undo, shown)
    /\ redo' = Tail(redo)

Reloaded ==
    /\ shown' = [song |-> None, sel |-> Nowhere, revision |-> 0]
    /\ undo' = <<>> /\ redo' = <<>>

Moved == EditedOnce \/ EditedTwice \/ Undone \/ Redone

-----------------------------------------------------------------------------
(* Every handler is one of these.                                          *)

LEMMA CommitMoves ==
    ASSUME NEW o, NEW selection, Commit(o, selection)
    PROVE  EditedOnce
BY DEF Commit, EditedOnce, Replaced

LEMMA DispatchMoves ==
    ASSUME NEW cmds, DispatchAll(cmds)
    PROVE  EditedOnce
BY CommitMoves DEF DispatchAll

LEMMA OpenMoves ==
    ASSUME NEW song, Open(song)
    PROVE  EditedOnce
BY DEF Open, EditedOnce, Replaced

LEMMA EditsMove == Edits => Moved \/ Still
<1> SUFFICES ASSUME Edits
             PROVE  Moved \/ Still
  OBVIOUS
<1>1. CASE CreateDemo
  BY <1>1, CommitMoves DEF CreateDemo, Moved
<1>2. CASE AddFirstTrack
  BY <1>2 DEF AddFirstTrack, EditedTwice, Replaced, Moved
<1>3. CASE AddTrack \/ AddClip \/ SetTransport \/ SetSelectedTrackInstrument
  BY <1>3, DispatchMoves
     DEF AddTrack, AddClip, SetTransport, SetSelectedTrackInstrument, Dispatch, Moved
<1>4. CASE DuplicateSelectedClip \/ ReshapeSelectedClip
  BY <1>4, DispatchMoves DEF DuplicateSelectedClip, ReshapeSelectedClip, Dispatch, Moved
<1>5. CASE CommitNoteDraft \/ RemoveNoteFromSelection
  BY <1>5, DispatchMoves DEF CommitNoteDraft, RemoveNoteFromSelection, Dispatch, Moved
<1>6. CASE EditStep
  BY <1>6, DispatchMoves DEF EditStep, Dispatch, DispatchBatch, Moved
<1>7. CASE Undo
  BY <1>7 DEF Undo, Restore, Undone, Moved
<1>8. CASE Redo
  BY <1>8 DEF Redo, Restore, Redone, Moved
<1>9. CASE LoadSavedSong
  BY <1>9, OpenMoves DEF LoadSavedSong, Still, Moved
<1>10. CASE ImportSong
  BY <1>10, OpenMoves DEF ImportSong, Still, Moved
<1> QED
  BY <1>1, <1>2, <1>3, <1>4, <1>5, <1>6, <1>7, <1>8, <1>9, <1>10 DEF Edits

LEMMA PlayerMoves == PlayerStep => Moved \/ Still
<1> SUFFICES ASSUME PlayerStep
             PROVE  Moved \/ Still
  OBVIOUS
<1>1. CASE Edits
  BY <1>1, EditsMove
<1>2. CASE EditNote \/ CancelNoteEdit
  BY <1>2 DEF EditNote, CancelNoteEdit, Still
<1>3. CASE SelectTrack \/ SelectClip
  BY <1>3 DEF SelectTrack, SelectClip, Select, Still
<1>4. CASE SaveSong \/ ClearSavedSong
  BY <1>4 DEF SaveSong, ClearSavedSong, Still
<1>5. CASE StartLive \/ ClipStarts \/ StopLive
  BY <1>5 DEF StartLive, ClipStarts, StopLive, Still
<1> QED
  BY <1>1, <1>2, <1>3, <1>4, <1>5 DEF PlayerStep

LEMMA CancelStill == CancelTake => Still /\ take' = None /\ lastTake' = lastTake
BY DEF CancelTake, NotEdited, Still

LEMMA FinishMoves ==
    ASSUME NEW done, FinishTake(done)
    PROVE  \/ Still /\ take' = None /\ lastTake' = lastTake
           \/ /\ EditedOnce /\ take' = None
              /\ shown.revision = done.revision
              /\ lastTake' = [revision |-> shown'.revision, song |-> shown.song]
<1>1. CASE TakeApplies(done)
  BY <1>1, CommitMoves, CancelStill DEF FinishTake, TakeApplies
<1>2. CASE ~TakeApplies(done)
  BY <1>2, CancelStill DEF FinishTake
<1> QED
  BY <1>1, <1>2

LEMMA FollowMoves ==
    ASSUME NEW next, Follow(next)
    PROVE  \/ Still /\ take' \in {None, next} /\ lastTake' = lastTake
           \/ /\ EditedOnce /\ take' = None
              /\ shown.revision = next.revision
              /\ lastTake' = [revision |-> shown'.revision, song |-> shown.song]
<1>1. CASE T!Completed(next)
  BY <1>1, FinishMoves DEF Follow
<1>2. CASE ~T!Completed(next) /\ T!Queued(take) /\ T!Recording(next) /\ ~MayStart(next)
  BY <1>2, CancelStill DEF Follow
<1>3. CASE ~T!Completed(next) /\ ~(T!Queued(take) /\ T!Recording(next) /\ ~MayStart(next))
  BY <1>3 DEF Follow, Continue, NotEdited, Still
<1> QED
  BY <1>1, <1>2, <1>3

(***************************************************************************)
(* A take that went on is the same take: what it was queued on is kept.    *)
(***************************************************************************)
Continues(work, next) ==
    /\ DOMAIN next = DOMAIN work
    /\ next.revision = work.revision
    /\ next.song = work.song

LEMMA TakeContinues ==
    ASSUME NEW work, NEW beat, {"revision", "song"} \subseteq DOMAIN work
    PROVE  /\ Continues(work, T!Released(work, beat))
           /\ Continues(work, T!Advanced(work, beat))
           /\ Continues(work, T!Struck(work, beat))
<1>1. Continues(work, T!Released(work, beat)) /\ Continues(work, T!Released(work, Loop))
  BY DEF T!Released, Continues
<1>2. Continues(work, work)
  BY DEF Continues
<1>3. ASSUME NEW moved, Continues(work, moved)
      PROVE  /\ Continues(work, [moved EXCEPT !.at = beat])
             /\ Continues(work, [moved EXCEPT !.held = beat])
  BY <1>3 DEF Continues
<1>4. Continues(work, T!Advanced(work, beat))
  BY <1>1, <1>2, <1>3 DEF T!Advanced
<1> QED
  BY <1>1, <1>3, <1>4 DEF T!Struck

(***************************************************************************)
(* What the recorder does to its take, while it has one.                   *)
(***************************************************************************)
TakeStep ==
    \/ /\ Still /\ lastTake' = lastTake
       /\ take' = None \/ Continues(take, take')
    \/ /\ EditedOnce /\ take' = None
       /\ shown.revision = take.revision
       /\ lastTake' = [revision |-> shown'.revision, song |-> shown.song]

RecorderStep == ObserveTake \/ CaptureInput \/ DiscardTake

LEMMA RecorderSteps ==
    ASSUME {"revision", "song"} \subseteq DOMAIN take, RecorderStep
    PROVE  TakeStep /\ take # None /\ preview' = preview /\ agent' = agent
<1>1. ASSUME CancelTake PROVE TakeStep
  BY <1>1, CancelStill DEF TakeStep
<1>2. ASSUME NEW next, Continues(take, next), Follow(next) PROVE TakeStep
  BY <1>2, FollowMoves DEF TakeStep, Continues
<1>3. ASSUME NEW next, Continues(take, next), FinishTake(next) PROVE TakeStep
  BY <1>3, FinishMoves DEF TakeStep, Continues
<1>4. ASSUME NEW beat
      PROVE  Continues(take, T!Advanced(take, beat))
  BY TakeContinues
<1>5. ASSUME NEW beat, NEW other
      PROVE  /\ Continues(take, T!Struck(T!Advanced(take, beat), other))
             /\ Continues(take, T!Released(T!Advanced(take, beat), other))
  <2> DEFINE ready == T!Advanced(take, beat)
  <2>1. Continues(take, ready)
    BY <1>4
  <2> HIDE DEF ready
  <2>2. Continues(ready, T!Struck(ready, other)) /\ Continues(ready, T!Released(ready, other))
    BY <2>1, TakeContinues DEF Continues
  <2>3. Continues(take, T!Struck(ready, other)) /\ Continues(take, T!Released(ready, other))
    BY <2>1, <2>2 DEF Continues
  <2> QED
    BY <2>3 DEF ready
<1>6. CASE ObserveTake
  BY <1>1, <1>2, <1>4, <1>6 DEF ObserveTake
<1>7. CASE CaptureInput
  BY <1>1, <1>2, <1>3, <1>4, <1>5, <1>7 DEF CaptureInput
<1>8. CASE DiscardTake
  BY <1>1, <1>8 DEF DiscardTake
<1> QED
  BY <1>6, <1>7, <1>8 DEF RecorderStep

LEMMA StepMoves ==
    ASSUME [Next]_vars, take # None => {"revision", "song"} \subseteq DOMAIN take
    PROVE  Moved \/ Still \/ Reloaded
<1>1. CASE PlayerStep
  BY <1>1, PlayerMoves
<1>2. CASE RecorderStep
  <2>1. take # None
    BY <1>2 DEF RecorderStep, ObserveTake, CaptureInput, DiscardTake
  <2> QED
    BY <1>2, <2>1, RecorderSteps DEF TakeStep, Moved
<1>3. CASE QueueTake
  BY <1>3 DEF QueueTake, NotEdited, Still
<1>4. CASE UndoLastTake
  BY <1>4 DEF UndoLastTake, Undo, Restore, Undone, Moved
<1>5. CASE ChooseMidiFile \/ MidiFileRead \/ DiscardMidiImport \/ InspectRemoteSession
  BY <1>5
     DEF ChooseMidiFile, MidiFileRead, DiscardMidiImport, InspectRemoteSession, storeVars, Still
<1>6. CASE AcceptMidiImport
  BY <1>6, DispatchMoves DEF AcceptMidiImport, Moved
<1>7. CASE ExecuteRemoteCommandBatch
  BY <1>7, DispatchMoves DEF ExecuteRemoteCommandBatch, DispatchBatch, storeVars, Still, Moved
<1>8. CASE ReloadPage
  BY <1>8 DEF ReloadPage, ReloadStore, Reloaded
<1>9. CASE UNCHANGED vars
  BY <1>9 DEF vars, storeVars, Still
<1> QED
  BY <1>1, <1>2, <1>3, <1>4, <1>5, <1>6, <1>7, <1>8, <1>9 DEF Next, RecorderStep

-----------------------------------------------------------------------------
(* The stacks.                                                             *)

LEMMA Wider ==
    ASSUME NEW W, NEW V, Stacked(W)
    PROVE  Stacked(W \cup V)
<1>1. Entries(W) \subseteq Entries(W \cup V)
  BY DEF Entries
<1>2. Seq(Entries(W)) \subseteq Seq(Entries(W \cup V))
  BY <1>1, SeqMonotonic
<1> QED
  BY <1>1, <1>2 DEF Stacked

(***************************************************************************)
(* The stacks before and after a move, over one set of songs.              *)
(***************************************************************************)
LEMMA MovedStacks ==
    ASSUME HistoryTyped, Moved \/ Still \/ Reloaded
    PROVE  \E W : Stacked(W) /\ Stacked(W)'
<1>1. PICK V : Stacked(V)
  BY DEF HistoryTyped
<1>2. ASSUME NEW W, NEW song \in W, NEW sel \in W, NEW n \in Nat, Stacked(W),
             Replaced(song, sel, n)
      PROVE  shown' \in Entries(W)
  BY <1>2 DEF Replaced, Stacked, Entries
<1>3. CASE EditedOnce
  <2>1. PICK song, sel : Replaced(song, sel, 1)
    BY <1>3 DEF EditedOnce
  <2> DEFINE W == V \cup {song, sel}
  <2>2. Stacked(W) /\ song \in W /\ sel \in W
    BY <1>1, Wider
  <2> HIDE DEF W
  <2>3. shown' \in Entries(W)
    BY <1>2, <2>1, <2>2
  <2>4. undo' \in Seq(Entries(W)) /\ redo' \in Seq(Entries(W))
    BY <1>3, <2>2 DEF EditedOnce, Stacked
  <2> QED
    BY <2>2, <2>3, <2>4 DEF Stacked
<1>4. CASE EditedTwice
  <2>1. PICK song, sel : Replaced(song, sel, 2)
    BY <1>4 DEF EditedTwice
  <2>2. PICK mid, at : undo' = undo \o <<shown, [song |-> mid, sel |-> at,
                                                 revision |-> shown.revision + 1]>>
    BY <1>4 DEF EditedTwice
  <2> DEFINE W == V \cup {song, sel, mid, at}
  <2>3. Stacked(W) /\ song \in W /\ sel \in W /\ mid \in W /\ at \in W
    BY <1>1, Wider
  <2> HIDE DEF W
  <2>4. shown' \in Entries(W)
    BY <1>2, <2>1, <2>3
  <2>5. [song |-> mid, sel |-> at, revision |-> shown.revision + 1] \in Entries(W)
    BY <2>3 DEF Stacked, Entries
  <2>6. undo' \in Seq(Entries(W)) /\ redo' \in Seq(Entries(W))
    BY <1>4, <2>2, <2>3, <2>5 DEF EditedTwice, Stacked
  <2> QED
    BY <2>3, <2>4, <2>6 DEF Stacked
<1>5. ASSUME NEW s \in Entries(V)
      PROVE  [s EXCEPT !.revision = shown.revision + 1] \in Entries(V)
  <2>1. shown.revision + 1 \in Nat
    BY <1>1 DEF Entries, Stacked
  <2>2. \A n \in Nat : [s EXCEPT !.revision = n] \in Entries(V)
    BY <1>5 DEF Entries
  <2> QED
    BY <2>1, <2>2
<1>6. CASE Undone
  <2>1. Last(undo) \in Entries(V) /\ Front(undo) \in Seq(Entries(V))
    BY <1>1, <1>6 DEF Undone, Last, Front, Stacked
  <2> QED
    BY <1>1, <1>5, <1>6, <2>1 DEF Undone, Stacked
<1>7. CASE Redone
  <2>1. Head(redo) \in Entries(V) /\ Tail(redo) \in Seq(Entries(V))
    BY <1>1, <1>7 DEF Redone, Stacked
  <2> QED
    BY <1>1, <1>5, <1>7, <2>1 DEF Redone, Stacked
<1>8. CASE Still
  BY <1>1, <1>8 DEF Still, Stacked
<1>9. CASE Reloaded
  <2> DEFINE W == V \cup {None, Nowhere}
  <2>1. Stacked(W) /\ None \in W /\ Nowhere \in W
    BY <1>1, Wider
  <2> HIDE DEF W
  <2>2. shown' \in Entries(W)
    BY <1>9, <2>1 DEF Reloaded, Entries
  <2> QED
    BY <1>9, <2>1, <2>2 DEF Reloaded, Stacked
<1> QED
  BY <1>3, <1>4, <1>6, <1>7, <1>8, <1>9 DEF Moved

-----------------------------------------------------------------------------
(* The line of songs.                                                      *)

LEMMA SongsOf ==
    ASSUME NEW W, NEW states \in Seq(Entries(W))
    PROVE  /\ Songs(states) \in Seq(W)
           /\ Len(Songs(states)) = Len(states)
           /\ \A i \in 1..Len(states) : Songs(states)[i] = states[i].song
<1>1. DOMAIN states = 1..Len(states) /\ Len(states) \in Nat
  OBVIOUS
<1>2. \A i \in 1..Len(states) : states[i].song \in W
  <2>1. \A i \in 1..Len(states) : states[i] \in Entries(W)
    OBVIOUS
  <2> QED
    BY <2>1 DEF Entries
<1>3. Songs(states) = [i \in 1..Len(states) |-> states[i].song]
  BY <1>1 DEF Songs
<1>4. Songs(states) \in Seq(W) /\ Len(Songs(states)) = Len(states)
  BY <1>1, <1>2, <1>3, IsASeq
<1> QED
  BY <1>3, <1>4

LineOf(u, s, r) == Songs(u) \o <<s.song>> \o Songs(r)

Listed(W, line, u, s, r) ==
    /\ line \in Seq(W)
    /\ Len(line) = Len(u) + 1 + Len(r)
    /\ \A i \in 1..Len(u) : line[i] = u[i].song
    /\ line[Len(u) + 1] = s.song
    /\ \A i \in 1..Len(r) : line[Len(u) + 1 + i] = r[i].song

LEMMA LineIs ==
    ASSUME NEW W, NEW u \in Seq(Entries(W)), NEW s \in Entries(W), NEW r \in Seq(Entries(W))
    PROVE  Listed(W, LineOf(u, s, r), u, s, r)
<1> DEFINE past == Songs(u)
           present == <<s.song>>
           future == Songs(r)
           line == LineOf(u, s, r)
<1>1. /\ past \in Seq(W) /\ Len(past) = Len(u)
      /\ \A i \in 1..Len(u) : past[i] = u[i].song
  BY SongsOf
<1>2. /\ future \in Seq(W) /\ Len(future) = Len(r)
      /\ \A i \in 1..Len(r) : future[i] = r[i].song
  BY SongsOf
<1>3. present \in Seq(W) /\ Len(present) = 1 /\ present[1] = s.song
  BY DEF Entries
<1>4. Len(u) \in Nat /\ Len(r) \in Nat
  OBVIOUS
<1>5. line = past \o present \o future
  BY DEF LineOf
<1> HIDE DEF past, present, future, line
<1> DEFINE front == past \o present
<1>6. front \in Seq(W) /\ Len(front) = Len(u) + 1
  <2>1. front \in Seq(W) /\ Len(front) = Len(past) + Len(present)
    BY <1>1, <1>3, ConcatProperties, Zenon
  <2> QED
    BY <1>1, <1>3, <2>1
<1>7. /\ \A i \in 1..Len(u) : front[i] = u[i].song
      /\ front[Len(u) + 1] = s.song
  <2>1. \A i \in 1..(Len(u) + 1) : front[i] = IF i <= Len(u) THEN past[i]
                                              ELSE present[i - Len(u)]
    BY <1>1, <1>3, <1>4, ConcatProperties
  <2>2. \A i \in 1..Len(u) : i \in 1..(Len(u) + 1) /\ i <= Len(u)
    BY <1>4
  <2>3. /\ Len(u) + 1 \in 1..(Len(u) + 1) /\ ~(Len(u) + 1 <= Len(u))
        /\ (Len(u) + 1) - Len(u) = 1
    BY <1>4
  <2>4. front[Len(u) + 1] = present[(Len(u) + 1) - Len(u)]
    BY <2>1, <2>3
  <2> QED
    BY <1>1, <1>3, <2>1, <2>2, <2>3, <2>4
<1>8. line = front \o future
  BY <1>5
<1> HIDE DEF front
<1>9. line \in Seq(W) /\ Len(line) = Len(u) + 1 + Len(r)
  <2>1. front \o future \in Seq(W) /\ Len(front \o future) = Len(front) + Len(future)
    BY <1>2, <1>6, ConcatProperties, Zenon
  <2> QED
    BY <1>2, <1>6, <1>8, <2>1
<1>10. \A i \in 1..(Len(u) + 1) : line[i] = front[i]
  BY <1>2, <1>4, <1>6, <1>8, ConcatProperties
<1>11. \A i \in 1..Len(r) : line[Len(u) + 1 + i] = future[i]
  BY <1>2, <1>4, <1>6, <1>8, ConcatProperties
<1> QED
  BY <1>2, <1>4, <1>7, <1>9, <1>10, <1>11 DEF line, Listed

(***************************************************************************)
(* Edits keep the line up to the song that was shown and end it.           *)
(***************************************************************************)
Grown(u, s, v) ==
    /\ Len(v) > Len(u)
    /\ \A i \in 1..Len(u) : v[i] = u[i]
    /\ v[Len(u) + 1] = s

LEMMA LineCut ==
    ASSUME NEW W, NEW u \in Seq(Entries(W)), NEW s \in Entries(W), NEW r \in Seq(Entries(W)),
           NEW v \in Seq(Entries(W)), NEW z \in Entries(W),
           Grown(u, s, v)
    PROVE  /\ Len(LineOf(v, z, <<>>)) = Len(v) + 1
           /\ SubSeq(LineOf(v, z, <<>>), 1, Len(u) + 1) = SubSeq(LineOf(u, s, r), 1, Len(u) + 1)
<1> DEFINE old == LineOf(u, s, r)
           new == LineOf(v, z, <<>>)
<1>1. Len(u) \in Nat /\ Len(v) \in Nat /\ Len(r) \in Nat
  OBVIOUS
<1>2. Listed(W, old, u, s, r)
  BY LineIs
<1>3. /\ <<>> \in Seq(Entries(W)) /\ Len(<<>>) = 0
  OBVIOUS
<1>4. Listed(W, new, v, z, <<>>)
  BY <1>3, LineIs
<1> HIDE DEF old, new
<1>5. \A i \in 1..(Len(u) + 1) : new[i] = old[i]
  <2>1. ASSUME NEW i \in 1..Len(u)
        PROVE  new[i] = old[i]
    <3>1. i \in 1..Len(v)
      BY <1>1 DEF Grown
    <3> QED
      BY <1>2, <1>4, <3>1 DEF Listed, Grown
  <2>2. Len(u) + 1 \in 1..Len(v)
    BY <1>1 DEF Grown
  <2>3. new[Len(u) + 1] = old[Len(u) + 1]
    BY <1>2, <1>4, <2>2 DEF Listed, Grown
  <2>4. \A i \in 1..(Len(u) + 1) : i \in 1..Len(u) \/ i = Len(u) + 1
    BY <1>1 DEF Grown
  <2> QED
    BY <2>1, <2>3, <2>4 DEF Grown
<1>6. SubSeq(new, 1, Len(u) + 1) = SubSeq(old, 1, Len(u) + 1)
  <2> DEFINE n == Len(u) + 1
  <2>1. n \in Int /\ 1 \in Int /\ n - 1 + 1 = n
    BY <1>1 DEF Grown
  <2>2. \A i \in 1..n : new[i] \in W /\ old[i] \in W
    BY <1>1, <1>2, <1>4 DEF Listed, Grown
  <2> HIDE DEF n
  <2>3. ASSUME NEW l, \A i \in 1..n : l[i] \in W
        PROVE  /\ SubSeq(l, 1, n) \in Seq(W)
               /\ Len(SubSeq(l, 1, n)) = IF 1 <= n THEN n - 1 + 1 ELSE 0
               /\ \A i \in 1..(n - 1 + 1) : SubSeq(l, 1, n)[i] = l[1 + i - 1]
    BY <2>1, <2>3, SubSeqProperties
  <2> DEFINE a == SubSeq(new, 1, n)
             b == SubSeq(old, 1, n)
  <2>4. /\ a \in Seq(W) /\ b \in Seq(W) /\ Len(a) = n /\ Len(b) = n
        /\ \A i \in 1..n : a[i] = new[1 + i - 1] /\ b[i] = old[1 + i - 1]
    BY <1>1, <2>1, <2>2, <2>3 DEF n, Grown
  <2>5. \A i \in 1..n : 1 + i - 1 = i
    BY <2>1 DEF Grown
  <2> HIDE DEF a, b
  <2>6. \A i \in 1..Len(a) : a[i] = b[i]
    BY <1>5, <2>4, <2>5 DEF n, Grown
  <2> QED
    BY <2>4, <2>6, SeqEqual DEF a, b, n
<1> QED
  BY <1>1, <1>3, <1>4, <1>6 DEF old, new, Listed, Grown

(***************************************************************************)
(* Undo and redo leave the line as it is.                                  *)
(***************************************************************************)
Shifted(u, s, r, v, z, q) ==
    /\ Len(u) = Len(v) + 1 /\ Len(q) = Len(r) + 1
    /\ \A i \in 1..Len(v) : v[i] = u[i]
    /\ \A i \in 1..Len(r) : q[i + 1] = r[i]
    /\ z.song = u[Len(u)].song
    /\ q[1] = s

LEMMA LineSame ==
    ASSUME NEW W, NEW u \in Seq(Entries(W)), NEW s \in Entries(W), NEW r \in Seq(Entries(W)),
           NEW v \in Seq(Entries(W)), NEW z \in Entries(W), NEW q \in Seq(Entries(W)),
           Shifted(u, s, r, v, z, q)
    PROVE  LineOf(v, z, q) = LineOf(u, s, r)
<1> DEFINE old == LineOf(u, s, r)
           new == LineOf(v, z, q)
<1>1. Len(u) \in Nat /\ Len(v) \in Nat /\ Len(r) \in Nat /\ Len(q) \in Nat
  OBVIOUS
<1>2. Listed(W, old, u, s, r)
  BY LineIs
<1>3. Listed(W, new, v, z, q)
  BY LineIs
<1> HIDE DEF old, new
<1>4. Len(old) = Len(new)
  BY <1>1, <1>2, <1>3 DEF Listed, Shifted
<1>5. ASSUME NEW i \in 1..Len(old)
      PROVE  old[i] = new[i]
  <2>1. CASE i <= Len(v)
    <3>1. i \in 1..Len(v) /\ i \in 1..Len(u)
      BY <1>1, <2>1 DEF Shifted
    <3> QED
      BY <1>2, <1>3, <3>1 DEF Listed, Shifted
  <2>2. CASE i = Len(v) + 1
    <3>1. i = Len(u) /\ i \in 1..Len(u)
      BY <1>1, <2>2 DEF Shifted
    <3> QED
      BY <1>2, <1>3, <2>2, <3>1 DEF Listed, Shifted
  <2>3. CASE i = Len(u) + 1
    <3>1. i = Len(v) + 1 + 1 /\ 1 \in 1..Len(q)
      BY <1>1, <2>3 DEF Shifted
    <3> QED
      BY <1>2, <1>3, <2>3, <3>1 DEF Listed, Shifted
  <2>4. CASE i > Len(u) + 1
    <3> DEFINE k == i - (Len(u) + 1)
    <3>1. k \in 1..Len(r) /\ i = Len(u) + 1 + k
      BY <1>1, <1>2, <2>4 DEF Listed, Shifted
    <3>2. k + 1 \in 1..Len(q) /\ i = Len(v) + 1 + (k + 1)
      BY <1>1, <3>1 DEF Shifted
    <3> HIDE DEF k
    <3>3. old[i] = r[k].song /\ new[i] = q[k + 1].song
      BY <1>2, <1>3, <3>1, <3>2 DEF Listed, Shifted
    <3> QED
      BY <3>1, <3>3 DEF Shifted
  <2> QED
    BY <1>1, <2>1, <2>2, <2>3, <2>4 DEF Shifted
<1>6. old = new
  BY <1>2, <1>3, <1>4, <1>5, SeqEqual DEF Listed
<1> QED
  BY <1>6 DEF old, new, Shifted

-----------------------------------------------------------------------------
(* A move of the two stacks is a step of SongHistory.                      *)

LEMMA HistoryStep ==
    ASSUME HistoryTyped, Moved \/ Still \/ Reloaded
    PROVE  [History!Next]_(History!vars)
<1>1. PICK W : Stacked(W) /\ Stacked(W)'
  BY MovedStacks
<1>2. /\ shown \in Entries(W) /\ undo \in Seq(Entries(W)) /\ redo \in Seq(Entries(W))
      /\ shown' \in Entries(W) /\ undo' \in Seq(Entries(W)) /\ redo' \in Seq(Entries(W))
  BY <1>1 DEF Stacked
<1>3. Line = LineOf(undo, shown, redo) /\ Line' = LineOf(undo', shown', redo')
  BY DEF Line, LineOf, Songs
<1>4. /\ Len(undo) \in Nat /\ Len(redo) \in Nat /\ Len(undo') \in Nat /\ Len(redo') \in Nat
      /\ shown.revision \in Nat
  BY <1>2 DEF Entries
<1>5. /\ Listed(W, Line, undo, shown, redo)
      /\ Listed(W, Line', undo', shown', redo')
  BY <1>2, <1>3, LineIs
<1>6. ASSUME NEW n \in Nat \ {0}, NEW song, NEW sel, Replaced(song, sel, n),
             Len(undo') = Len(undo) + n, redo' = <<>>,
             \A i \in 1..Len(undo) : undo'[i] = undo[i],
             undo'[Len(undo) + 1] = shown
      PROVE  History!Edit
  <2>1. Len(undo') > Len(undo)
    BY <1>4, <1>6
  <2>2. /\ Len(LineOf(undo', shown', <<>>)) = Len(undo') + 1
        /\ SubSeq(LineOf(undo', shown', <<>>), 1, Len(undo) + 1)
              = SubSeq(LineOf(undo, shown, redo), 1, Len(undo) + 1)
    <3>1. Grown(undo, shown, undo')
      BY <1>6, <2>1 DEF Grown
    <3> QED
      BY <1>2, <3>1, LineCut
  <2>3. shown'.revision = shown.revision + n
    BY <1>6 DEF Replaced
  <2>4. n = (Len(undo') + 1) - (Len(undo) + 1)
    BY <1>4, <1>6
  <2>5. Len(undo') + 1 > Len(undo) + 1
    BY <1>4, <2>1
  <2> QED
    BY <1>3, <1>6, <2>2, <2>3, <2>4, <2>5 DEF History!Edit
<1>7. CASE EditedOnce
  <2>1. PICK song, sel : Replaced(song, sel, 1)
    BY <1>7 DEF EditedOnce
  <2>2. /\ Len(undo') = Len(undo) + 1 /\ redo' = <<>>
        /\ \A i \in 1..Len(undo) : undo'[i] = undo[i]
        /\ undo'[Len(undo) + 1] = shown
    BY <1>2, <1>7, AppendProperties DEF EditedOnce
  <2>3. History!Edit
    BY <1>6, <2>1, <2>2
  <2> QED
    BY <2>3 DEF History!Next
<1>8. CASE EditedTwice
  <2>1. PICK song, sel : Replaced(song, sel, 2)
    BY <1>8 DEF EditedTwice
  <2>2. PICK mid : undo' = undo \o <<shown, mid>>
    BY <1>8 DEF EditedTwice
  <2>3. /\ Len(undo') = Len(undo) + 2 /\ redo' = <<>>
        /\ \A i \in 1..Len(undo) : undo'[i] = undo[i]
        /\ undo'[Len(undo) + 1] = shown
    BY <1>2, <1>8, <2>2 DEF EditedTwice
  <2>4. History!Edit
    BY <1>6, <2>1, <2>3
  <2> QED
    BY <2>4 DEF History!Next
<1>9. CASE Undone
  <2>1. undo # <<>> /\ undo' = Front(undo) /\ redo' = <<shown>> \o redo
    BY <1>9 DEF Undone
  <2>2. Len(undo) > 0
    BY <1>2, <2>1
  <2>3. /\ Len(undo) = Len(undo') + 1
        /\ \A i \in 1..Len(undo') : undo'[i] = undo[i]
    BY <1>2, <2>1, <2>2 DEF Front
  <2>4. /\ Len(redo') = Len(redo) + 1 /\ redo'[1] = shown
        /\ \A i \in 1..Len(redo) : redo'[i + 1] = redo[i]
    BY <1>2, <2>1
  <2>5. undo[Len(undo)] \in Entries(W)
    BY <1>2, <2>2
  <2>6. shown'.song = undo[Len(undo)].song /\ shown'.revision = shown.revision + 1
    BY <1>9, <2>5 DEF Undone, Last, Entries
  <2>7. Line' = Line
    <3>1. Shifted(undo, shown, redo, undo', shown', redo')
      BY <2>3, <2>4, <2>6 DEF Shifted
    <3> QED
      BY <1>2, <1>3, <3>1, LineSame
  <2>8. Len(undo') + 1 = (Len(undo) + 1) - 1 /\ Len(undo') + 1 \in 1..Len(Line)
    BY <1>4, <1>5, <2>3 DEF Listed
  <2>9. DOMAIN Line = 1..Len(Line)
    BY <1>5 DEF Listed
  <2>10. History!Walk
    BY <2>6, <2>7, <2>8, <2>9 DEF History!Walk
  <2> QED
    BY <2>10 DEF History!Next
<1>10. CASE Redone
  <2>1. redo # <<>> /\ undo' = Append(undo, shown) /\ redo' = Tail(redo)
    BY <1>10 DEF Redone
  <2>2. Len(redo) > 0
    BY <1>2, <2>1
  <2>3. /\ Len(undo') = Len(undo) + 1 /\ undo'[Len(undo')] = shown
        /\ \A i \in 1..Len(undo) : undo[i] = undo'[i]
    BY <1>2, <2>1
  <2>4. /\ Len(redo) = Len(redo') + 1
        /\ \A i \in 1..Len(redo') : redo[i + 1] = redo'[i]
    BY <1>2, <2>1
  <2>5. redo[1] \in Entries(W) /\ Head(redo) = redo[1]
    BY <1>2, <2>1, <2>2
  <2> DEFINE z == [redo[1] EXCEPT !.revision = shown.revision + 1]
  <2>6. shown' = z /\ z.song = redo[1].song /\ z.revision = shown.revision + 1
    BY <1>10, <2>5 DEF Redone, Entries
  <2>7. Line' = Line
    <3>1. ASSUME NEW a \in Entries(W), a = redo[1]
          PROVE  LineOf(undo, shown, redo) = LineOf(undo', a, redo')
      <4>1. Shifted(undo', a, redo', undo, shown, redo)
        BY <2>3, <2>4, <3>1 DEF Shifted
      <4> QED
        BY <1>2, <3>1, <4>1, LineSame
    <3>2. ASSUME NEW x, NEW y, x.song = y.song
          PROVE  LineOf(undo', x, redo') = LineOf(undo', y, redo')
      BY <3>2 DEF LineOf
    <3> QED
      BY <1>3, <2>5, <2>6, <3>1, <3>2
  <2>8. Len(undo') + 1 = (Len(undo) + 1) + 1 /\ Len(undo') + 1 \in 1..Len(Line)
    BY <1>4, <1>5, <2>2, <2>3 DEF Listed
  <2>9. DOMAIN Line = 1..Len(Line)
    BY <1>5 DEF Listed
  <2>10. History!Walk
    BY <2>6, <2>7, <2>8, <2>9 DEF History!Walk
  <2> QED
    BY <2>10 DEF History!Next
<1>11. CASE Still
  BY <1>11 DEF Still, History!vars, Line, Songs
<1>12. CASE Reloaded
  <2>1. Line' = <<None>> /\ Len(undo') = 0 /\ shown'.revision = 0
    BY <1>12 DEF Reloaded, Line, Songs
  <2> QED
    BY <2>1 DEF History!Reload, History!Next
<1> QED
  BY <1>7, <1>8, <1>9, <1>10, <1>11, <1>12 DEF Moved

-----------------------------------------------------------------------------
(* Edits that were prepared.                                               *)

(***************************************************************************)
(* No prepared edit is ahead of the page, and as long as the revision it   *)
(* remembers is the present one, so is the song.                           *)
(***************************************************************************)
Based(work) ==
    work # None =>
        /\ {"revision", "song"} \subseteq DOMAIN work
        /\ work.revision \in 0..shown.revision
        /\ work.revision = shown.revision => work.song = shown.song

(***************************************************************************)
(* The same for the last take: as long as its revision is the present one, *)
(* the song before it is on top of the undo stack.                         *)
(***************************************************************************)
LastTakeOnTop ==
    lastTake # None =>
        /\ lastTake.revision \in 0..shown.revision
        /\ lastTake.revision = shown.revision =>
              undo # <<>> /\ Last(undo).song = lastTake.song

IInv ==
    /\ HistoryTyped
    /\ Based(take) /\ Based(preview) /\ Based(agent)
    /\ LastTakeOnTop

LEMMA InitIInv == Init => IInv
<1> SUFFICES ASSUME Init
             PROVE  IInv
  OBVIOUS
<1> DEFINE W == {None, Nowhere}
<1>1. shown \in Entries(W)
  BY DEF Init, StoreInit, Entries
<1>2. undo \in Seq(Entries(W)) /\ redo \in Seq(Entries(W))
  BY DEF Init, StoreInit
<1>3. HistoryTyped
  BY <1>1, <1>2 DEF HistoryTyped, Stacked
<1> QED
  BY <1>3 DEF Init, IInv, Based, LastTakeOnTop

(***************************************************************************)
(* Every move takes a later revision.                                      *)
(***************************************************************************)
LEMMA RevisionGrows ==
    ASSUME HistoryTyped, Moved
    PROVE  /\ shown.revision \in Nat
           /\ shown'.revision \in Nat
           /\ shown'.revision > shown.revision
<1>1. PICK W : Stacked(W) /\ Stacked(W)'
  BY MovedStacks
<1>2. shown.revision \in Nat /\ shown'.revision \in Nat
  BY <1>1 DEF Stacked, Entries
<1>3. CASE EditedOnce \/ EditedTwice
  BY <1>2, <1>3 DEF EditedOnce, EditedTwice, Replaced
<1>4. CASE Undone
  <2>1. Last(undo) \in Entries(W)
    BY <1>1, <1>4 DEF Undone, Last, Stacked
  <2> QED
    BY <1>2, <1>4, <2>1 DEF Undone, Entries
<1>5. CASE Redone
  <2>1. Head(redo) \in Entries(W)
    BY <1>1, <1>5 DEF Redone, Stacked
  <2> QED
    BY <1>2, <1>5, <2>1 DEF Redone, Entries
<1> QED
  BY <1>2, <1>3, <1>4, <1>5 DEF Moved

LEMMA StaysBased ==
    ASSUME NEW work, NEW next, HistoryTyped, Moved \/ Still, Based(work),
           next = None \/ (Continues(work, next) /\ work # None)
    PROVE  \/ next = None
           \/ /\ {"revision", "song"} \subseteq DOMAIN next
              /\ next.revision \in 0..shown'.revision
              /\ next.revision = shown'.revision => next.song = shown'.song
<1>1. CASE Moved
  BY <1>1, RevisionGrows DEF Based, Continues
<1>2. CASE Still
  BY <1>2 DEF Still, Based, Continues
<1> QED
  BY <1>1, <1>2

(***************************************************************************)
(* What is prepared now is on the present song.                            *)
(***************************************************************************)
LEMMA PreparedNow ==
    ASSUME NEW work, NEW next \in {Now, Prepared(work)}, HistoryTyped, Still
    PROVE  /\ {"revision", "song"} \subseteq DOMAIN next
           /\ next.revision \in 0..shown'.revision
           /\ next.song = shown'.song
<1>1. shown.revision \in Nat
  BY DEF HistoryTyped, Stacked, Entries
<1>2. CASE next = Now
  BY <1>1, <1>2 DEF Now, Still
<1>3. CASE next = Prepared(work)
  <2>1. DOMAIN Now = {"revision", "song"}
    BY DEF Now
  <2>2. /\ DOMAIN next = DOMAIN work \cup {"revision", "song"}
        /\ next.revision = Now.revision /\ next.song = Now.song
    BY <1>3, <2>1 DEF Prepared
  <2> QED
    BY <1>1, <2>2 DEF Now, Still
<1> QED
  BY <1>2, <1>3

(***************************************************************************)
(* Steps that leave the prepared edits and the last take alone.            *)
(***************************************************************************)
LEMMA OthersBased ==
    ASSUME IInv, Moved \/ Still
    PROVE  /\ HistoryTyped'
           /\ take' = take => Based(take)'
           /\ preview' \in {None, preview} => Based(preview)'
           /\ agent' \in {None, agent} => Based(agent)'
           /\ lastTake' \in {None, lastTake} => LastTakeOnTop'
<1>1. HistoryTyped'
  <2>1. PICK W : Stacked(W)'
    BY MovedStacks DEF IInv
  <2> QED
    BY <2>1 DEF HistoryTyped
<1>2. ASSUME NEW work, Based(work), work # None
      PROVE  /\ {"revision", "song"} \subseteq DOMAIN work
             /\ work.revision \in 0..shown'.revision
             /\ work.revision = shown'.revision => work.song = shown'.song
  <2>1. Continues(work, work)
    BY DEF Continues
  <2> QED
    BY <1>2, <2>1, StaysBased DEF IInv
<1>3. /\ take' = take => Based(take)'
      /\ preview' \in {None, preview} => Based(preview)'
      /\ agent' \in {None, agent} => Based(agent)'
  BY <1>2 DEF IInv, Based
<1>4. lastTake' \in {None, lastTake} => LastTakeOnTop'
  <2>1. CASE Moved
    BY <2>1, RevisionGrows DEF IInv, LastTakeOnTop
  <2>2. CASE Still
    BY <2>2 DEF Still, IInv, LastTakeOnTop
  <2> QED
    BY <2>1, <2>2
<1> QED
  BY <1>1, <1>3, <1>4

LEMMA RecorderIInv ==
    ASSUME IInv, RecorderStep
    PROVE  IInv'
<1>1. take # None /\ {"revision", "song"} \subseteq DOMAIN take
  BY DEF RecorderStep, ObserveTake, CaptureInput, DiscardTake, IInv, Based
<1>2. TakeStep /\ preview' = preview /\ agent' = agent
  BY <1>1, RecorderSteps
<1>3. Moved \/ Still
  BY <1>2 DEF TakeStep, Moved
<1>4. HistoryTyped' /\ Based(preview)' /\ Based(agent)'
  BY <1>2, <1>3, OthersBased
<1>5. Based(take)'
  BY <1>1, <1>2, <1>3, StaysBased DEF TakeStep, IInv, Based
<1>6. LastTakeOnTop'
  <2>1. CASE lastTake' = lastTake
    BY <1>3, <2>1, OthersBased
  <2>2. CASE EditedOnce /\ lastTake' = [revision |-> shown'.revision, song |-> shown.song]
    <3>1. shown'.revision \in Nat
      BY <2>2, RevisionGrows DEF IInv, Moved
    <3>2. PICK W : Stacked(W)
      BY DEF IInv, HistoryTyped
    <3>3. undo' # <<>> /\ Last(undo') = shown
      BY <2>2, <3>2 DEF EditedOnce, Stacked, Last
    <3> QED
      BY <2>2, <3>1, <3>3 DEF LastTakeOnTop
  <2> QED
    BY <1>2, <2>1, <2>2 DEF TakeStep
<1> QED
  BY <1>4, <1>5, <1>6 DEF IInv

LEMMA NextIInv == IInv /\ [Next]_vars => IInv'
<1> SUFFICES ASSUME IInv, [Next]_vars
             PROVE  IInv'
  OBVIOUS
<1>1. ASSUME Moved \/ Still, take' = take, preview' \in {None, preview}, agent' \in {None, agent},
             lastTake' \in {None, lastTake}
      PROVE  IInv'
  BY <1>1, OthersBased DEF IInv
<1>2. CASE PlayerStep
  BY <1>1, <1>2, PlayerMoves DEF PlayerStep
<1>3. CASE RecorderStep
  BY <1>3, RecorderIInv
<1>4. CASE QueueTake
  <2>1. Still /\ UNCHANGED <<lastTake, preview, agent>>
    BY <1>4 DEF QueueTake, NotEdited, Still
  <2>2. PICK newTake : take' = Prepared(newTake)
    BY <1>4 DEF QueueTake, Queue
  <2>3. Based(take)'
    BY <2>1, <2>2, PreparedNow DEF IInv, Based
  <2> QED
    BY <2>1, <2>3, OthersBased DEF IInv
<1>5. CASE UndoLastTake
  <2>1. Undone
    BY <1>5 DEF UndoLastTake, Undo, Restore, Undone
  <2> QED
    BY <1>1, <1>5, <2>1 DEF UndoLastTake, Moved
<1>6. CASE ChooseMidiFile
  <2>1. Still /\ UNCHANGED <<take, lastTake, agent>>
    BY <1>6 DEF ChooseMidiFile, storeVars, Still
  <2>2. Based(preview)'
    BY <1>6, <2>1, PreparedNow DEF ChooseMidiFile, IInv, Based
  <2> QED
    BY <2>1, <2>2, OthersBased DEF IInv
<1>7. CASE MidiFileRead
  <2>1. Still /\ UNCHANGED <<take, lastTake, agent>> /\ preview # None
    BY <1>7 DEF MidiFileRead, storeVars, Still
  <2>2. preview' = None \/ Continues(preview, preview')
    BY <1>7, <2>1 DEF MidiFileRead, Continues, IInv, Based
  <2>3. Based(preview)'
    BY <2>1, <2>2, StaysBased DEF IInv, Based
  <2> QED
    BY <2>1, <2>3, OthersBased DEF IInv
<1>8. CASE DiscardMidiImport
  BY <1>1, <1>8 DEF DiscardMidiImport, storeVars, Still
<1>9. CASE AcceptMidiImport
  BY <1>1, <1>9, DispatchMoves DEF AcceptMidiImport, Moved
<1>10. CASE InspectRemoteSession
  <2>1. Still /\ UNCHANGED <<take, lastTake, preview>>
    BY <1>10 DEF InspectRemoteSession, storeVars, Still
  <2>2. Based(agent)'
    BY <1>10, <2>1, PreparedNow DEF InspectRemoteSession, IInv, Based
  <2> QED
    BY <2>1, <2>2, OthersBased DEF IInv
<1>11. CASE ExecuteRemoteCommandBatch
  BY <1>1, <1>11, DispatchMoves
     DEF ExecuteRemoteCommandBatch, DispatchBatch, storeVars, Still, Moved
<1>12. CASE ReloadPage
  <2>1. Reloaded
    BY <1>12 DEF ReloadPage, ReloadStore, Reloaded
  <2>2. PICK W : Stacked(W)'
    BY <2>1, MovedStacks DEF IInv
  <2> QED
    BY <1>12, <2>2 DEF ReloadPage, IInv, Based, LastTakeOnTop, HistoryTyped
<1>13. CASE UNCHANGED vars
  BY <1>1, <1>13 DEF vars, storeVars, Still
<1> QED
  BY <1>2, <1>3, <1>4, <1>5, <1>6, <1>7, <1>8, <1>9, <1>10, <1>11, <1>12, <1>13
     DEF Next, RecorderStep

(***************************************************************************)
(* The invariant of the prepared edits holds in every reachable state, for *)
(* any songs, batches and files and any bounds.                            *)
(***************************************************************************)
THEOREM Invariance == Spec => []IInv
BY InitIInv, NextIInv, PTL DEF Spec

-----------------------------------------------------------------------------
(* What the invariant is for.                                              *)

(***************************************************************************)
(* An edit that grows the undo stack while a prepared edit ends is that    *)
(* edit, and it was checked against the present revision.                  *)
(***************************************************************************)
LEMMA DeferredStep == IInv /\ [Next]_vars => [AppliesOnBase]_vars
<1> SUFFICES ASSUME IInv, Next
             PROVE  AppliesOnBase
  BY DEF vars
<1>1. PICK W : Stacked(W)
  BY DEF IInv, HistoryTyped
<1>2. ASSUME Still \/ Undone \/ Reloaded
      PROVE  ~(Len(undo') > Len(undo))
  BY <1>1, <1>2 DEF Still, Undone, Reloaded, Stacked, Front
<1>3. ASSUME Still \/ EditedOnce \/ EditedTwice \/ Redone
      PROVE  ~(Len(undo') < Len(undo))
  <2>1. undo \in Seq(Entries(W)) /\ shown \in Entries(W) /\ Len(undo) \in Nat
    BY <1>1 DEF Stacked
  <2>2. CASE Still \/ EditedOnce \/ Redone
    BY <2>1, <2>2 DEF Still, EditedOnce, Redone
  <2>3. CASE EditedTwice
    <3>1. PICK mid : undo' = undo \o <<shown, mid>>
      BY <2>3 DEF EditedTwice
    <3> DEFINE A == Entries(W) \cup {mid}
    <3>2. undo \in Seq(A) /\ <<shown, mid>> \in Seq(A)
      BY <2>1, SeqMonotonic
    <3> HIDE DEF A
    <3>3. Len(undo') = Len(undo) + Len(<<shown, mid>>)
      BY <3>1, <3>2, ConcatProperties, Zenon
    <3> QED
      BY <2>1, <3>3
  <2> QED
    BY <1>3, <2>2, <2>3
<1>4. ASSUME lastTake' = lastTake \/ Reloaded
             \/ (lastTake' # None /\ EditedOnce) \/ ~(Len(undo') < Len(undo))
      PROVE  lastTake # None /\ lastTake' = None /\ Len(undo') < Len(undo) /\ undo' # <<>> =>
                 shown'.song = lastTake.song
  BY <1>4 DEF Reloaded
<1>5. ASSUME take' = take \/ ~(Len(undo') > Len(undo)) \/ take.song = shown.song,
             preview' = preview \/ ~(Len(undo') > Len(undo)) \/ preview.song = shown.song,
             agent' = agent \/ ~(Len(undo') > Len(undo)) \/ agent.song = shown.song
      PROVE  \A work \in {<<take, take'>>, <<preview, preview'>>, <<agent, agent'>>} :
                work[1] # None /\ work[2] = None /\ Len(undo') > Len(undo) =>
                    work[1].song = shown.song
  BY <1>5
<1>6. CASE PlayerStep
  BY <1>4, <1>5, <1>6 DEF PlayerStep, AppliesOnBase
<1>7. CASE RecorderStep
  <2>1. take # None /\ {"revision", "song"} \subseteq DOMAIN take
    BY <1>7 DEF RecorderStep, ObserveTake, CaptureInput, DiscardTake, IInv, Based
  <2>2. TakeStep /\ preview' = preview /\ agent' = agent
    BY <1>7, <2>1, RecorderSteps
  <2>3. Still \/ (EditedOnce /\ take.song = shown.song)
    BY <2>1, <2>2 DEF TakeStep, IInv, Based
  <2>4. ~(Len(undo') < Len(undo))
    BY <1>3, <2>3
  <2> QED
    BY <1>2, <1>4, <1>5, <2>2, <2>3, <2>4 DEF AppliesOnBase
<1>8. CASE QueueTake
  BY <1>2, <1>4, <1>5, <1>8 DEF QueueTake, NotEdited, Still, AppliesOnBase
<1>9. CASE UndoLastTake
  <2>1. Undone
    BY <1>9 DEF UndoLastTake, Undo, Restore, Undone
  <2>2. undo # <<>> /\ Last(undo).song = lastTake.song
    BY <1>9 DEF UndoLastTake, IInv, LastTakeOnTop
  <2>3. Last(undo) \in Entries(W)
    BY <1>1, <2>2 DEF Stacked, Last
  <2>4. shown'.song = lastTake.song
    BY <2>1, <2>2, <2>3 DEF Undone, Entries
  <2> QED
    BY <1>2, <1>5, <2>1, <2>4 DEF AppliesOnBase
<1>10. CASE ChooseMidiFile \/ MidiFileRead \/ DiscardMidiImport \/ InspectRemoteSession
  <2>1. Still /\ lastTake' = lastTake
    BY <1>10
       DEF ChooseMidiFile, MidiFileRead, DiscardMidiImport, InspectRemoteSession, storeVars, Still
  <2> QED
    BY <1>2, <1>4, <1>5, <2>1 DEF AppliesOnBase
<1>11. CASE AcceptMidiImport
  <2>1. preview.song = shown.song
    BY <1>11 DEF AcceptMidiImport, ImportApplies, IInv, Based
  <2> QED
    BY <1>4, <1>5, <1>11, <2>1 DEF AcceptMidiImport, AppliesOnBase
<1>12. CASE ExecuteRemoteCommandBatch
  <2>1. Still \/ agent.song = shown.song
    BY <1>12 DEF ExecuteRemoteCommandBatch, storeVars, Still, IInv, Based
  <2> QED
    BY <1>2, <1>4, <1>5, <1>12, <2>1 DEF ExecuteRemoteCommandBatch, AppliesOnBase
<1>13. CASE ReloadPage
  <2>1. Reloaded
    BY <1>13 DEF ReloadPage, ReloadStore, Reloaded
  <2> QED
    BY <1>2, <1>4, <1>5, <2>1 DEF AppliesOnBase
<1> QED
  BY <1>6, <1>7, <1>8, <1>9, <1>10, <1>11, <1>12, <1>13 DEF Next, RecorderStep

(***************************************************************************)
(* DeferredOnBase: a take, an imported file and an agent's batch enter the *)
(* history only on the song they were prepared on, and "Undo last take"    *)
(* brings back the song from before that take, although all of them        *)
(* compare nothing but a revision number.                                  *)
(***************************************************************************)
THEOREM DeferredEditsSound == Spec => DeferredOnBase
BY Invariance, DeferredStep, PTL DEF Spec, DeferredOnBase

(***************************************************************************)
(* ImplementsHistory: every handler of the page is a step of SongHistory,  *)
(* for any songs, commands and files and any bounds.                       *)
(***************************************************************************)
THEOREM HistoryRefined == Spec => ImplementsHistory
<1>1. Init => History!Init
  BY DEF Init, StoreInit, History!Init, Line, Songs
<1>2. IInv /\ [Next]_vars => [History!Next]_(History!vars)
  <2> SUFFICES ASSUME IInv, [Next]_vars
               PROVE  [History!Next]_(History!vars)
    OBVIOUS
  <2>1. Moved \/ Still \/ Reloaded
    BY StepMoves DEF IInv, Based
  <2> QED
    BY <2>1, HistoryStep DEF IInv
<1> QED
  BY <1>1, <1>2, Invariance, PTL DEF Spec, ImplementsHistory, History!Spec

-----------------------------------------------------------------------------
(* SONGS                                                                   *)

(* Recursion over the natural numbers: a set that holds 0 and, with a      *)
(* number, its successor holds them all.                                   *)

LEMMA Least ==
    ASSUME NEW A \in SUBSET Nat, A # {}
    PROVE  \E x \in A : \A y \in A : ~(y < x)
<1> DEFINE R == OpToRel(<, Nat)
<1>1. IsWellFoundedOn(R, Nat)
  BY NatLessThanWellFounded
<1>2. \A x, y \in Nat : y < x => <<y, x>> \in R
  BY DEF OpToRel
<1> HIDE DEF R
<1>3. \E x \in A : \A y \in A : ~(<<y, x>> \in R)
  BY <1>1, WFMin
<1> QED
  BY <1>2, <1>3

LEMMA SetInduction ==
    ASSUME NEW A \in SUBSET Nat, 0 \in A, \A n \in A : n + 1 \in A
    PROVE  A = Nat
<1>1. SUFFICES ASSUME Nat \ A # {}
               PROVE  FALSE
  OBVIOUS
<1>2. PICK x \in Nat \ A : \A y \in Nat \ A : ~(y < x)
  BY <1>1, Least
<1>3. x # 0 /\ x - 1 \in Nat /\ x - 1 < x /\ x = (x - 1) + 1
  BY <1>2
<1> QED
  BY <1>2, <1>3

-----------------------------------------------------------------------------
(* Kept: some of the items of a sequence.                                  *)

LEMMA KeptUnfolds ==
    ASSUME NEW items, NEW positions, Len(items) \in Nat
    PROVE  \E kept :
              /\ kept = [n \in 0..Len(items) |->
                            IF n = 0 THEN <<>>
                            ELSE IF n \in positions THEN Append(kept[n - 1], items[n])
                            ELSE kept[n - 1]]
              /\ Kept(items, positions) = kept[Len(items)]
<1> DEFINE Step(before, n) == IF n \in positions THEN Append(before, items[n]) ELSE before
           Runs(f, k) == f = [n \in 0..k |-> IF n = 0 THEN <<>> ELSE Step(f[n - 1], n)]
           A == {k \in Nat : \E f : Runs(f, k)}
<1>1. A = Nat
  <2> HIDE DEF Step
  <2>1. 0 \in A
    <3> DEFINE f == [n \in 0..0 |-> <<>>]
    <3>1. Runs(f, 0)
      OBVIOUS
    <3> QED
      BY <3>1
  <2>2. ASSUME NEW k \in A
        PROVE  k + 1 \in A
    <3>1. PICK f : Runs(f, k)
      OBVIOUS
    <3> DEFINE g == [n \in 0..(k + 1) |-> IF n = k + 1 THEN Step(f[k], k + 1) ELSE f[n]]
    <3>2. ASSUME NEW n \in 0..(k + 1)
          PROVE  g[n] = IF n = 0 THEN <<>> ELSE Step(g[n - 1], n)
      <4>1. CASE n = k + 1
        BY <4>1
      <4>2. CASE n # k + 1 /\ n # 0
        <5>1. n \in 0..k /\ n - 1 \in 0..(k + 1) /\ n - 1 # k + 1
          BY <4>2
        <5>2. g[n] = f[n] /\ g[n - 1] = f[n - 1]
          BY <4>2, <5>1
        <5> QED
          BY <3>1, <4>2, <5>1, <5>2
      <4>3. CASE n # k + 1 /\ n = 0
        BY <3>1, <4>3
      <4> QED
        BY <4>1, <4>2, <4>3
    <3>3. g = [n \in 0..(k + 1) |-> g[n]]
      OBVIOUS
    <3> HIDE DEF g
    <3>4. Runs(g, k + 1)
      BY <3>2, <3>3
    <3> QED
      BY <3>4
  <2> HIDE DEF A
  <2>3. A \in SUBSET Nat
    BY DEF A
  <2> QED
    BY <2>1, <2>2, <2>3, SetInduction
<1>2. \E f : Runs(f, Len(items))
  BY <1>1
<1> DEFINE kept == CHOOSE f : Runs(f, Len(items))
<1>3. Runs(kept, Len(items))
  BY <1>2, Zenon
<1>4. Kept(items, positions) = kept[Len(items)]
  BY DEF Kept
<1> QED
  BY <1>3, <1>4

(***************************************************************************)
(* What is kept are items of these positions, in their order.              *)
(***************************************************************************)
Picks(at, kept, items, positions, n) ==
    /\ at \in [1..Len(kept) -> 1..n]
    /\ \A k \in 1..Len(kept) : at[k] \in positions /\ kept[k] = items[at[k]]
    /\ \A j, k \in 1..Len(kept) : j < k => at[j] < at[k]

LEMMA KeptPicks ==
    ASSUME NEW S, NEW items \in Seq(S), NEW positions
    PROVE  /\ Kept(items, positions) \in Seq(S)
           /\ \E at : Picks(at, Kept(items, positions), items, positions, Len(items))
<1> DEFINE N == Len(items)
<1>1. N \in Nat /\ \A n \in 1..N : items[n] \in S
  OBVIOUS
<1>2. PICK f : /\ f = [n \in 0..N |->
                          IF n = 0 THEN <<>>
                          ELSE IF n \in positions THEN Append(f[n - 1], items[n])
                          ELSE f[n - 1]]
               /\ Kept(items, positions) = f[N]
  BY <1>1, KeptUnfolds
<1> HIDE DEF N
<1>3. f[0] = <<>>
  BY <1>1, <1>2
<1>4. \A n \in 0..N : n + 1 \in 0..N =>
          f[n + 1] = IF n + 1 \in positions THEN Append(f[n], items[n + 1]) ELSE f[n]
  <2>1. ASSUME NEW n \in 0..N, n + 1 \in 0..N
        PROVE  f[n + 1] = IF n + 1 \in positions THEN Append(f[n], items[n + 1]) ELSE f[n]
    <3>1. n + 1 # 0 /\ (n + 1) - 1 = n
      OBVIOUS
    <3> QED
      BY <1>2, <2>1, <3>1
  <2> QED
    BY <2>1
<1> DEFINE Good(n) == f[n] \in Seq(S) /\ \E at : Picks(at, f[n], items, positions, n)
           A == {n \in Nat : n \in 0..N => Good(n)}
<1>5. A = Nat
  <2> HIDE DEF Good
  <2>1. 0 \in A
    <3>1. Picks(<<>>, <<>>, items, positions, 0)
      BY DEF Picks
    <3>2. Good(0)
      BY <1>3, <3>1 DEF Good
    <3> QED
      BY <3>2
  <2>2. ASSUME NEW n \in A
        PROVE  n + 1 \in A
    <3>1. SUFFICES ASSUME n + 1 \in 0..N
                   PROVE  Good(n + 1)
      OBVIOUS
    <3>2. n \in 0..N /\ n + 1 \in 1..N
      BY <1>1, <3>1
    <3>3. Good(n)
      BY <3>2
    <3>4. PICK at : Picks(at, f[n], items, positions, n)
      BY <3>3 DEF Good
    <3>5. f[n] \in Seq(S) /\ Len(f[n]) \in Nat
      BY <3>3 DEF Good
    <3>6. CASE n + 1 \notin positions
      <4>1. f[n + 1] = f[n]
        BY <1>4, <3>1, <3>2, <3>6
      <4>2. Picks(at, f[n], items, positions, n + 1)
        BY <3>2, <3>4 DEF Picks
      <4> QED
        BY <3>5, <4>1, <4>2 DEF Good
    <3>7. CASE n + 1 \in positions
      <4> DEFINE L == Len(f[n])
                 more == [k \in 1..(L + 1) |-> IF k = L + 1 THEN n + 1 ELSE at[k]]
                 longer == Append(f[n], items[n + 1])
      <4>1. f[n + 1] = longer
        BY <1>4, <3>1, <3>2, <3>7
      <4>2. /\ longer \in Seq(S) /\ Len(longer) = L + 1
            /\ \A k \in 1..L : longer[k] = f[n][k]
            /\ longer[L + 1] = items[n + 1]
        BY <1>1, <3>2, <3>5
      <4>3. /\ more \in [1..(L + 1) -> 1..(n + 1)]
            /\ \A k \in 1..L : more[k] = at[k] /\ at[k] \in 1..n
            /\ more[L + 1] = n + 1
        <5>1. L \in Nat /\ \A k \in 1..L : k \in 1..(L + 1) /\ k # L + 1
          BY <3>5
        <5>2. \A k \in 1..L : at[k] \in 1..n
          BY <3>4 DEF Picks
        <5> HIDE DEF L
        <5>3. n \in Nat /\ n + 1 \in 1..(n + 1) /\ \A k \in 1..n : k \in 1..(n + 1)
          BY <3>2
        <5>4. ASSUME NEW k \in 1..(L + 1)
              PROVE  (IF k = L + 1 THEN n + 1 ELSE at[k]) \in 1..(n + 1)
          <6>1. CASE k = L + 1
            BY <5>3, <6>1
          <6>2. CASE k # L + 1
            <7>1. k \in 1..L
              BY <5>1, <6>2
            <7> QED
              BY <5>2, <5>3, <6>2, <7>1
          <6> QED
            BY <6>1, <6>2
        <5>5. L + 1 \in 1..(L + 1)
          BY <5>1
        <5> QED
          BY <5>1, <5>2, <5>4, <5>5
      <4> HIDE DEF L, more, longer
      <4>4. L \in Nat /\ \A k \in 1..(L + 1) : k \in 1..L \/ k = L + 1
        BY <3>5 DEF L
      <4>5. \A k \in 1..(L + 1) : more[k] \in positions /\ longer[k] = items[more[k]]
        BY <3>4, <3>7, <4>2, <4>3, <4>4 DEF Picks, L
      <4>6. ASSUME NEW j \in 1..(L + 1), NEW k \in 1..(L + 1), j < k
            PROVE  more[j] < more[k]
        <5>1. j \in 1..L
          BY <4>4, <4>6
        <5>2. CASE k \in 1..L
          <6>1. at[j] < at[k]
            BY <3>4, <4>6, <5>1, <5>2 DEF Picks, L
          <6> QED
            BY <4>3, <5>1, <5>2, <6>1
        <5>3. CASE k = L + 1
          BY <3>2, <4>3, <5>1, <5>3
        <5> QED
          BY <4>4, <5>2, <5>3
      <4>7. Picks(more, longer, items, positions, n + 1)
        BY <4>2, <4>3, <4>5, <4>6 DEF Picks
      <4> QED
        BY <4>1, <4>2, <4>7 DEF Good
    <3> QED
      BY <3>6, <3>7
  <2> HIDE DEF A
  <2>3. A \in SUBSET Nat
    BY DEF A
  <2> QED
    BY <2>1, <2>2, <2>3, SetInduction
<1>6. Good(N)
  BY <1>1, <1>5
<1> QED
  BY <1>2, <1>6 DEF N

-----------------------------------------------------------------------------
(* Distinct: an id names one item.                                         *)

OneEach(items) == \A i, j \in 1..Len(items) : items[i].id = items[j].id => i = j

LEMMA DistinctIs ==
    ASSUME NEW S, NEW items \in Seq(S)
    PROVE  Distinct(items) <=> OneEach(items)
<1> DEFINE N == Len(items)
           D == 1..N
           names == Ids(items)
           f == [i \in D |-> items[i].id]
<1>1. N \in Nat /\ DOMAIN items = D
  OBVIOUS
<1>2. IsFiniteSet(D) /\ Cardinality(D) = N
  <2>1. IsFiniteSet(1..N) /\ Cardinality(1..N) = IF 1 > N THEN 0 ELSE N - 1 + 1
    BY <1>1, FS_Interval
  <2> QED
    BY <1>1, <2>1
<1>3. names = {f[i] : i \in D}
  BY <1>1 DEF Ids
<1>4. f \in Surjection(D, names)
  BY <1>3 DEF Surjection
<1>5. Cardinality(names) = Cardinality(D) <=> f \in Injection(D, names)
  BY <1>2, <1>4, FS_Surjection
<1>6. f \in Injection(D, names) <=> OneEach(items)
  BY <1>3 DEF Injection, IsInjective, OneEach
<1> QED
  BY <1>2, <1>5, <1>6 DEF Distinct

-----------------------------------------------------------------------------
(* Songs that loading accepts, with one part replaced.                     *)

SoundClips == {clip \in Clip : ClipSound(clip)}
SoundTracks == {track \in Track : TrackSound(track)}
SoundSongs == {song \in Song : SongSound(song)}

LEMMA SoundClipIs ==
    ASSUME NEW clip \in Clip
    PROVE  ClipSound(clip) <=> /\ clip.length > 0
                               /\ OneEach(clip.notes)
                               /\ \A i \in 1..Len(clip.notes) : NoteFits(clip.notes[i], clip.length)
<1>1. clip.notes \in Seq(Note) /\ DOMAIN clip.notes = 1..Len(clip.notes)
  BY DEF Clip
<1>2. Distinct(clip.notes) <=> OneEach(clip.notes)
  BY <1>1, DistinctIs
<1> QED
  BY <1>1, <1>2 DEF ClipSound

LEMMA SoundTrackIs ==
    ASSUME NEW track \in Track
    PROVE  TrackSound(track) <=> /\ OneEach(track.clips)
                                 /\ \A i \in 1..Len(track.clips) :
                                       /\ track.clips[i].track = track.id
                                       /\ track.clips[i] \in SoundClips
<1>1. track.clips \in Seq(Clip) /\ DOMAIN track.clips = 1..Len(track.clips)
  BY DEF Track
<1>2. Distinct(track.clips) <=> OneEach(track.clips)
  BY <1>1, DistinctIs
<1>3. \A i \in 1..Len(track.clips) : track.clips[i] \in Clip
  BY <1>1
<1> QED
  BY <1>1, <1>2, <1>3 DEF TrackSound, SoundClips

LEMMA SoundSongIs ==
    ASSUME NEW song \in Song
    PROVE  SongSound(song) <=> /\ OneEach(song.tracks)
                               /\ \A i \in 1..Len(song.tracks) : song.tracks[i] \in SoundTracks
<1>1. song.tracks \in Seq(Track) /\ DOMAIN song.tracks = 1..Len(song.tracks)
  BY DEF Song
<1>2. Distinct(song.tracks) <=> OneEach(song.tracks)
  BY <1>1, DistinctIs
<1>3. \A i \in 1..Len(song.tracks) : song.tracks[i] \in Track
  BY <1>1
<1> QED
  BY <1>1, <1>2, <1>3 DEF SongSound, SoundTracks

(***************************************************************************)
(* Sequences of items with distinct ids: one replaced, one appended, some  *)
(* left out.                                                               *)
(***************************************************************************)
LEMMA OneReplaced ==
    ASSUME NEW S, NEW items \in Seq(S), NEW i \in 1..Len(items), NEW item \in S,
           item.id = items[i].id
    PROVE  LET new == [items EXCEPT ![i] = item]
           IN  /\ new \in Seq(S) /\ Len(new) = Len(items)
               /\ new[i] = item
               /\ \A j \in 1..Len(items) : j # i => new[j] = items[j]
               /\ OneEach(items) => OneEach(new)
<1> DEFINE new == [items EXCEPT ![i] = item]
<1>1. /\ new \in Seq(S) /\ Len(new) = Len(items)
      /\ new[i] = item
      /\ \A j \in 1..Len(items) : j # i => new[j] = items[j]
  OBVIOUS
<1> HIDE DEF new
<1>2. \A j \in 1..Len(items) : new[j].id = items[j].id
  BY <1>1
<1>3. OneEach(items) => OneEach(new)
  BY <1>1, <1>2 DEF OneEach
<1> QED
  BY <1>1, <1>3 DEF new

LEMMA OneAppended ==
    ASSUME NEW S, NEW items \in Seq(S), NEW item \in S
    PROVE  LET new == Append(items, item)
           IN  /\ new \in Seq(S) /\ Len(new) = Len(items) + 1
               /\ new[Len(items) + 1] = item
               /\ \A j \in 1..Len(items) : new[j] = items[j]
               /\ \A j \in 1..Len(new) : j \in 1..Len(items) \/ j = Len(items) + 1
               /\ OneEach(items) /\ item.id \notin Ids(items) => OneEach(new)
<1> DEFINE new == Append(items, item)
<1>1. /\ new \in Seq(S) /\ Len(new) = Len(items) + 1
      /\ new[Len(items) + 1] = item
      /\ \A j \in 1..Len(items) : new[j] = items[j]
      /\ Len(items) \in Nat /\ DOMAIN items = 1..Len(items)
  OBVIOUS
<1> HIDE DEF new
<1>2. \A j \in 1..Len(new) : j \in 1..Len(items) \/ j = Len(items) + 1
  BY <1>1
<1>3. ASSUME OneEach(items), item.id \notin Ids(items)
      PROVE  OneEach(new)
  <2>1. \A j \in 1..Len(items) : items[j].id # item.id
    BY <1>1, <1>3 DEF Ids
  <2>2. ASSUME NEW j \in 1..Len(new), NEW k \in 1..Len(new), new[j].id = new[k].id
        PROVE  j = k
    BY <1>1, <1>2, <1>3, <2>1, <2>2 DEF OneEach
  <2> QED
    BY <2>2 DEF OneEach
<1> QED
  BY <1>1, <1>2, <1>3 DEF new

LEMMA SomeKept ==
    ASSUME NEW S, NEW items \in Seq(S), NEW id
    PROVE  LET new == Without(items, id)
           IN  /\ new \in Seq(S)
               /\ \A j \in 1..Len(new) : \E k \in 1..Len(items) : new[j] = items[k]
               /\ OneEach(items) => OneEach(new)
<1> DEFINE new == Without(items, id)
           positions == DOMAIN items \ At(items, id)
<1>1. new \in Seq(S) /\ \E at : Picks(at, new, items, positions, Len(items))
  BY KeptPicks DEF Without
<1>2. PICK at : Picks(at, new, items, positions, Len(items))
  BY <1>1
<1>3. Len(new) \in Nat /\ Len(items) \in Nat
  BY <1>1
<1> HIDE DEF new, positions
<1>4. \A j \in 1..Len(new) : at[j] \in 1..Len(items) /\ new[j] = items[at[j]]
  BY <1>2 DEF Picks
<1>5. ASSUME OneEach(items), NEW j \in 1..Len(new), NEW k \in 1..Len(new), new[j].id = new[k].id
      PROVE  j = k
  <2>1. at[j] = at[k]
    BY <1>4, <1>5 DEF OneEach
  <2>2. ~(j < k) /\ ~(k < j)
    BY <1>2, <1>4, <2>1 DEF Picks
  <2> QED
    BY <1>3, <2>2
<1> QED
  BY <1>1, <1>4, <1>5 DEF new, OneEach

(***************************************************************************)
(* A song with one of its tracks, or one of its clips, replaced by a sound *)
(* one of the same id.                                                     *)
(***************************************************************************)
LEMMA TrackReplaced ==
    ASSUME NEW song \in SoundSongs, NEW i \in 1..Len(song.tracks), NEW track \in SoundTracks,
           track.id = song.tracks[i].id
    PROVE  [song EXCEPT !.tracks[i] = track] \in SoundSongs
<1> DEFINE tracks == [song.tracks EXCEPT ![i] = track]
           new == [song EXCEPT !.tracks = tracks]
<1>1. song \in Song /\ song.tracks \in Seq(Track) /\ track \in Track
  BY DEF SoundSongs, SoundTracks, Song
<1>2. OneEach(song.tracks) /\ \A j \in 1..Len(song.tracks) : song.tracks[j] \in SoundTracks
  BY <1>1, SoundSongIs DEF SoundSongs
<1>3. /\ tracks \in Seq(Track) /\ Len(tracks) = Len(song.tracks)
      /\ tracks[i] = track
      /\ \A j \in 1..Len(song.tracks) : j # i => tracks[j] = song.tracks[j]
      /\ OneEach(song.tracks) => OneEach(tracks)
  BY <1>1, OneReplaced
<1> HIDE DEF tracks
<1>4. new \in Song /\ new.tracks = tracks
  BY <1>1, <1>3 DEF Song
<1>5. SongSound(new)
  BY <1>2, <1>3, <1>4, SoundSongIs
<1> QED
  BY <1>4, <1>5 DEF tracks, SoundSongs

LEMMA ClipReplaced ==
    ASSUME NEW track \in SoundTracks, NEW j \in 1..Len(track.clips), NEW clip \in SoundClips,
           clip.id = track.clips[j].id, clip.track = track.clips[j].track
    PROVE  [track EXCEPT !.clips[j] = clip] \in SoundTracks
<1> DEFINE clips == [track.clips EXCEPT ![j] = clip]
           new == [track EXCEPT !.clips = clips]
<1>1. track \in Track /\ track.clips \in Seq(Clip) /\ clip \in Clip
  BY DEF SoundTracks, SoundClips, Track
<1>2. /\ OneEach(track.clips)
      /\ \A k \in 1..Len(track.clips) :
            track.clips[k].track = track.id /\ track.clips[k] \in SoundClips
  BY <1>1, SoundTrackIs DEF SoundTracks
<1>3. /\ clips \in Seq(Clip) /\ Len(clips) = Len(track.clips)
      /\ clips[j] = clip
      /\ \A k \in 1..Len(track.clips) : k # j => clips[k] = track.clips[k]
      /\ OneEach(track.clips) => OneEach(clips)
  BY <1>1, OneReplaced
<1> HIDE DEF clips
<1>4. new \in Track /\ new.clips = clips /\ new.id = track.id
  BY <1>1, <1>3 DEF Track
<1>5. TrackSound(new)
  BY <1>2, <1>3, <1>4, SoundTrackIs
<1> QED
  BY <1>4, <1>5 DEF clips, SoundTracks

LEMMA PartsSound ==
    ASSUME NEW song \in SoundSongs, NEW t, NEW i \in At(song.tracks, t)
    PROVE  /\ i \in 1..Len(song.tracks) /\ song.tracks \in Seq(Track)
           /\ song.tracks[i] \in SoundTracks /\ song.tracks[i].id = t
           /\ song.tracks[i].clips \in Seq(Clip)
<1>1. song \in Song /\ song.tracks \in Seq(Track)
  BY DEF SoundSongs, Song
<1>2. i \in 1..Len(song.tracks) /\ song.tracks[i].id = t
  BY <1>1 DEF At
<1>3. song.tracks[i] \in SoundTracks
  BY <1>1, <1>2, SoundSongIs DEF SoundSongs
<1>4. song.tracks[i] \in Track /\ song.tracks[i].clips \in Seq(Clip)
  BY <1>3 DEF SoundTracks, Track
<1> QED
  BY <1>1, <1>2, <1>3, <1>4

SoundPart(track, j, t, c) ==
    /\ j \in 1..Len(track.clips)
    /\ track.clips[j] \in SoundClips
    /\ track.clips[j].id = c
    /\ track.clips[j].track = t

LEMMA ClipSoundIn ==
    ASSUME NEW song \in SoundSongs, NEW t, NEW i \in At(song.tracks, t),
           NEW c, NEW j \in At(song.tracks[i].clips, c)
    PROVE  SoundPart(song.tracks[i], j, t, c)
<1> DEFINE track == song.tracks[i]
<1>1. track \in SoundTracks /\ track.id = t /\ track.clips \in Seq(Clip)
  BY PartsSound
<1> HIDE DEF track
<1>2. j \in 1..Len(track.clips) /\ track.clips[j].id = c
  BY <1>1 DEF At, track
<1>3. track.clips[j].track = t /\ track.clips[j] \in SoundClips
  BY <1>1, <1>2, SoundTrackIs DEF SoundTracks
<1> QED
  BY <1>2, <1>3 DEF track, SoundPart

LEMMA InClipSound ==
    ASSUME NEW song \in SoundSongs, NEW t, NEW i \in At(song.tracks, t),
           NEW c, NEW j \in At(song.tracks[i].clips, c),
           NEW clip \in SoundClips, clip.id = c, clip.track = t
    PROVE  [song EXCEPT !.tracks[i] = [song.tracks[i] EXCEPT !.clips[j] = clip]] \in SoundSongs
<1> DEFINE track == song.tracks[i]
           new == [track EXCEPT !.clips[j] = clip]
<1>1. /\ i \in 1..Len(song.tracks) /\ track \in SoundTracks
      /\ j \in 1..Len(track.clips) /\ track.clips[j].id = c /\ track.clips[j].track = t
  <2>1. i \in 1..Len(song.tracks) /\ track \in SoundTracks
    BY PartsSound
  <2>2. j \in 1..Len(track.clips) /\ track.clips[j].id = c /\ track.clips[j].track = t
    <3>1. SoundPart(song.tracks[i], j, t, c)
      BY ClipSoundIn, Zenon
    <3> QED
      BY <3>1 DEF SoundPart
  <2> QED
    BY <2>1, <2>2
<1>2. new.id = track.id
  BY <1>1 DEF SoundTracks, Track
<1> HIDE DEF track
<1>3. new \in SoundTracks
  BY <1>1, ClipReplaced
<1> HIDE DEF new
<1>4. [song EXCEPT !.tracks[i] = new] \in SoundSongs
  BY <1>1, <1>2, <1>3, TrackReplaced DEF track
<1> QED
  BY <1>4 DEF new, track

(***************************************************************************)
(* A clip with other notes.                                                *)
(***************************************************************************)
LEMMA NotesReplaced ==
    ASSUME NEW clip \in SoundClips, NEW notes \in Seq(Note),
           OneEach(notes),
           \A k \in 1..Len(notes) : NoteFits(notes[k], clip.length)
    PROVE  LET new == [clip EXCEPT !.notes = notes]
           IN  new \in SoundClips /\ new.id = clip.id /\ new.track = clip.track
<1> DEFINE new == [clip EXCEPT !.notes = notes]
<1>1. clip \in Clip /\ clip.length > 0
  BY SoundClipIs DEF SoundClips
<1>2. /\ new \in Clip /\ new.notes = notes /\ new.length = clip.length
      /\ new.id = clip.id /\ new.track = clip.track
  BY <1>1 DEF Clip
<1> HIDE DEF new
<1>3. ClipSound(new)
  BY <1>1, <1>2, SoundClipIs
<1> QED
  BY <1>2, <1>3 DEF new, SoundClips

LEMMA NotesOf ==
    ASSUME NEW clip \in SoundClips
    PROVE  /\ clip \in Clip /\ clip.length \in Int /\ clip.length > 0
           /\ clip.notes \in Seq(Note) /\ DOMAIN clip.notes = 1..Len(clip.notes)
           /\ OneEach(clip.notes)
           /\ \A k \in 1..Len(clip.notes) :
                 clip.notes[k] \in Note /\ NoteFits(clip.notes[k], clip.length)
<1>1. clip \in Clip /\ clip.length \in Int /\ clip.notes \in Seq(Note)
  BY DEF SoundClips, Clip
<1>2. /\ clip.length > 0 /\ OneEach(clip.notes)
      /\ \A k \in 1..Len(clip.notes) : NoteFits(clip.notes[k], clip.length)
  BY <1>1, SoundClipIs DEF SoundClips
<1> QED
  BY <1>1, <1>2

(***************************************************************************)
(* Every note replaced by one of the same id that fits.                    *)
(***************************************************************************)
LEMMA EachNoteReplaced ==
    ASSUME NEW clip \in SoundClips, NEW notes,
           notes = [k \in 1..Len(clip.notes) |-> notes[k]],
           \A k \in 1..Len(clip.notes) :
              /\ notes[k] \in Note /\ notes[k].id = clip.notes[k].id
              /\ NoteFits(notes[k], clip.length)
    PROVE  LET new == [clip EXCEPT !.notes = notes]
           IN  new \in SoundClips /\ new.id = clip.id /\ new.track = clip.track
<1>1. Len(clip.notes) \in Nat /\ OneEach(clip.notes)
  BY NotesOf
<1>2. notes \in Seq(Note) /\ Len(notes) = Len(clip.notes)
  BY <1>1
<1>3. OneEach(notes)
  BY <1>1, <1>2 DEF OneEach
<1> QED
  BY <1>2, <1>3, NotesReplaced

-----------------------------------------------------------------------------
(* The edits.                                                              *)

(***************************************************************************)
(* new is song with one clip of that id, in a track of that id, edited.    *)
(***************************************************************************)
ClipEdited(song, t, c, new, clip, edited) ==
    \E i \in At(song.tracks, t) : \E j \in At(song.tracks[i].clips, c) :
        /\ clip = song.tracks[i].clips[j]
        /\ new = [song EXCEPT !.tracks[i] = [song.tracks[i] EXCEPT !.clips[j] = edited]]

LEMMA ClipEditedSound ==
    ASSUME NEW song \in SoundSongs, NEW t, NEW c, NEW new, NEW clip, NEW edited,
           ClipEdited(song, t, c, new, clip, edited)
    PROVE  /\ clip \in SoundClips
           /\ edited \in SoundClips /\ edited.id = clip.id /\ edited.track = clip.track
                 => new \in SoundSongs
<1>1. PICK i, j : /\ i \in At(song.tracks, t) /\ j \in At(song.tracks[i].clips, c)
                  /\ clip = song.tracks[i].clips[j]
                  /\ new = [song EXCEPT !.tracks[i] = [song.tracks[i] EXCEPT !.clips[j] = edited]]
  BY DEF ClipEdited
<1>2. SoundPart(song.tracks[i], j, t, c)
  <2>1. i \in At(song.tracks, t) /\ j \in At(song.tracks[i].clips, c)
    BY <1>1
  <2> QED
    BY <2>1, ClipSoundIn, Zenon
<1>3. clip \in SoundClips /\ clip.id = c /\ clip.track = t
  BY <1>1, <1>2 DEF SoundPart
<1>4. ASSUME edited \in SoundClips, edited.id = clip.id, edited.track = clip.track
      PROVE  new \in SoundSongs
  <2>1. edited.id = c /\ edited.track = t
    BY <1>3, <1>4
  <2>2. [song EXCEPT !.tracks[i] = [song.tracks[i] EXCEPT !.clips[j] = edited]] \in SoundSongs
    BY <1>1, <1>4, <2>1, InClipSound
  <2> QED
    BY <1>1, <2>2
<1> QED
  BY <1>3, <1>4

LEMMA NoteAddedSound ==
    ASSUME NEW song \in SoundSongs, NEW t, NEW c, NEW note \in Note,
           NEW new \in NoteAdded(song, t, c, note)
    PROVE  new \in SoundSongs
<1>1. PICK clip, edited :
          /\ ClipEdited(song, t, c, new, clip, edited)
          /\ NoteFits(note, clip.length) /\ note.id \notin Ids(clip.notes)
          /\ edited = [clip EXCEPT !.notes = Append(clip.notes, note)]
  BY DEF NoteAdded, InClip, InTrack, When, ClipEdited
<1> DEFINE notes == Append(clip.notes, note)
<1>2. clip \in SoundClips
  BY <1>1, ClipEditedSound
<1>3. /\ notes \in Seq(Note) /\ Len(notes) = Len(clip.notes) + 1
      /\ notes[Len(clip.notes) + 1] = note
      /\ \A k \in 1..Len(clip.notes) : notes[k] = clip.notes[k]
      /\ \A k \in 1..Len(notes) : k \in 1..Len(clip.notes) \/ k = Len(clip.notes) + 1
      /\ OneEach(clip.notes) /\ note.id \notin Ids(clip.notes) => OneEach(notes)
  BY <1>2, NotesOf, OneAppended
<1> HIDE DEF notes
<1>4. OneEach(notes) /\ \A k \in 1..Len(notes) : NoteFits(notes[k], clip.length)
  BY <1>1, <1>2, <1>3, NotesOf
<1>5. edited \in SoundClips /\ edited.id = clip.id /\ edited.track = clip.track
  BY <1>1, <1>2, <1>3, <1>4, NotesReplaced DEF notes
<1> QED
  BY <1>1, <1>5, ClipEditedSound

LEMMA NoteRemovedSound ==
    ASSUME NEW song \in SoundSongs, NEW t, NEW c, NEW id,
           NEW new \in NoteRemoved(song, t, c, id)
    PROVE  new \in SoundSongs
<1>1. PICK clip, edited :
          /\ ClipEdited(song, t, c, new, clip, edited)
          /\ edited = [clip EXCEPT !.notes = Without(clip.notes, id)]
  BY DEF NoteRemoved, InClip, InTrack, When, ClipEdited
<1> DEFINE notes == Without(clip.notes, id)
<1>2. clip \in SoundClips
  BY <1>1, ClipEditedSound
<1>3. /\ notes \in Seq(Note)
      /\ \A k \in 1..Len(notes) : \E l \in 1..Len(clip.notes) : notes[k] = clip.notes[l]
      /\ OneEach(clip.notes) => OneEach(notes)
  BY <1>2, NotesOf, SomeKept
<1> HIDE DEF notes
<1>4. OneEach(notes) /\ \A k \in 1..Len(notes) : NoteFits(notes[k], clip.length)
  BY <1>2, <1>3, NotesOf
<1>5. edited \in SoundClips /\ edited.id = clip.id /\ edited.track = clip.track
  BY <1>1, <1>2, <1>3, <1>4, NotesReplaced DEF notes
<1> QED
  BY <1>1, <1>5, ClipEditedSound

(***************************************************************************)
(* Notes that are changed one by one: a changed note is checked against    *)
(* its clip, or alone (WithNotes), and then has to fit its clip by the way *)
(* it is changed.                                                          *)
(***************************************************************************)
LEMMA NoteUpdatedSound ==
    ASSUME NEW song \in SoundSongs, NEW t, NEW c, NEW id, NEW changes \in Changes,
           NEW new \in NoteUpdated(song, t, c, id, changes)
    PROVE  new \in SoundSongs
<1> DEFINE Edit(note) == IF note.id = id THEN Changed(note, changes) ELSE note
           Notes(clip) == [k \in DOMAIN clip.notes |-> Edit(clip.notes[k])]
           Made(clip) == When(/\ id \in Ids(clip.notes)
                              /\ \A k \in At(clip.notes, id) :
                                    NoteFits(Edit(clip.notes[k]), clip.length),
                              [clip EXCEPT !.notes = [k \in DOMAIN @ |-> Edit(@[k])]])
<1>1. new \in UNION {{[song EXCEPT !.tracks[i] = track] : track \in
                  UNION {{[song.tracks[i] EXCEPT !.clips[j] = clip] :
                              clip \in Made(song.tracks[i].clips[j])} :
                            j \in At(song.tracks[i].clips, c)}} :
              i \in At(song.tracks, t)}
  BY Zenon DEF NoteUpdated, InClip, InTrack
<1>2. PICK clip, edited : ClipEdited(song, t, c, new, clip, edited) /\ edited \in Made(clip)
  <2> HIDE DEF Made
  <2> QED
    BY <1>1 DEF ClipEdited
<1>3. /\ ClipEdited(song, t, c, new, clip, edited)
      /\ edited = [clip EXCEPT !.notes = Notes(clip)]
      /\ \A k \in At(clip.notes, id) : NoteFits(Edit(clip.notes[k]), clip.length)
  BY <1>2 DEF When
<1> DEFINE notes == Notes(clip)
<1>4. /\ ClipEdited(song, t, c, new, clip, edited)
      /\ notes = [k \in DOMAIN clip.notes |-> Edit(clip.notes[k])]
      /\ edited = [clip EXCEPT !.notes = notes]
      /\ \A k \in At(clip.notes, id) : NoteFits(Edit(clip.notes[k]), clip.length)
  BY <1>3
<1> HIDE DEF notes, Notes, Made
<1>5. clip \in SoundClips
  BY <1>4, ClipEditedSound
<1>6. edited.notes = notes
  BY <1>4, <1>5, NotesOf DEF Clip
<1>7. ASSUME NEW note \in Note
      PROVE  Changed(note, changes) \in Note /\ Changed(note, changes).id = note.id
  BY DEF Changed, Changes, Note
<1>8. ASSUME NEW k \in 1..Len(clip.notes)
      PROVE  /\ notes[k] \in Note /\ notes[k].id = clip.notes[k].id
             /\ NoteFits(notes[k], clip.length)
  <2>1. /\ k \in DOMAIN clip.notes /\ clip.notes[k] \in Note
        /\ NoteFits(clip.notes[k], clip.length)
    BY <1>5, NotesOf
  <2>2. CASE clip.notes[k].id = id
    <3>1. notes[k] = Changed(clip.notes[k], changes) /\ k \in At(clip.notes, id)
      BY <1>4, <2>1, <2>2 DEF At
    <3> QED
      BY <1>4, <1>6, <1>7, <2>1, <3>1
  <2>3. CASE clip.notes[k].id # id
    BY <1>4, <2>1, <2>3
  <2> QED
    BY <2>2, <2>3
<1>9. notes = [k \in 1..Len(clip.notes) |-> notes[k]]
  BY <1>4, <1>5, NotesOf
<1>10. edited \in SoundClips /\ edited.id = clip.id /\ edited.track = clip.track
  BY <1>4, <1>5, <1>8, <1>9, EachNoteReplaced
<1> QED
  BY <1>2, <1>10, ClipEditedSound

LEMMA ClipTransposedSound ==
    ASSUME NEW song \in SoundSongs, NEW t, NEW c, NEW semitones \in Int,
           NEW new \in ClipTransposed(song, t, c, semitones)
    PROVE  new \in SoundSongs
<1> DEFINE Edit(note) == [note EXCEPT !.pitch = note.pitch + semitones]
           Notes(clip) == [k \in DOMAIN clip.notes |-> Edit(clip.notes[k])]
           Made(clip) == WithNotes(clip, Notes(clip))
<1>1. new \in UNION {{[song EXCEPT !.tracks[i] = track] : track \in
                  UNION {{[song.tracks[i] EXCEPT !.clips[j] = clip] :
                              clip \in Made(song.tracks[i].clips[j])} :
                            j \in At(song.tracks[i].clips, c)}} :
              i \in At(song.tracks, t)}
  BY Zenon DEF ClipTransposed, InClip, InTrack
<1>2. PICK clip, edited : ClipEdited(song, t, c, new, clip, edited) /\ edited \in Made(clip)
  <2> HIDE DEF Made
  <2> QED
    BY <1>1 DEF ClipEdited
<1>3. /\ ClipEdited(song, t, c, new, clip, edited)
      /\ edited = [clip EXCEPT !.notes = Notes(clip)]
      /\ \A k \in DOMAIN Notes(clip) : NoteSound(Notes(clip)[k])
  BY <1>2 DEF WithNotes, When
<1> DEFINE notes == Notes(clip)
<1>4. /\ ClipEdited(song, t, c, new, clip, edited)
      /\ notes = [k \in DOMAIN clip.notes |-> Edit(clip.notes[k])]
      /\ edited = [clip EXCEPT !.notes = notes]
      /\ \A k \in DOMAIN notes : NoteSound(notes[k])
  BY <1>3
<1> HIDE DEF notes, Notes
<1>5. clip \in SoundClips
  BY <1>4, ClipEditedSound
<1>6. ASSUME NEW note \in Note, NEW p \in Int
      PROVE  LET moved == [note EXCEPT !.pitch = p]
             IN  /\ moved \in Note /\ moved.id = note.id
                 /\ moved.start = note.start /\ moved.length = note.length
  BY DEF Note
<1>7. ASSUME NEW k \in 1..Len(clip.notes)
      PROVE  /\ notes[k] \in Note /\ notes[k].id = clip.notes[k].id
             /\ NoteFits(notes[k], clip.length)
  <2>1. /\ k \in DOMAIN clip.notes /\ clip.notes[k] \in Note
        /\ NoteFits(clip.notes[k], clip.length)
    BY <1>5, NotesOf
  <2>2. notes[k] = [clip.notes[k] EXCEPT !.pitch = clip.notes[k].pitch + semitones]
    BY <1>4, <2>1
  <2>3. clip.notes[k].pitch + semitones \in Int
    BY <2>1 DEF Note
  <2>4. /\ notes[k] \in Note /\ notes[k].id = clip.notes[k].id
        /\ notes[k].start = clip.notes[k].start /\ notes[k].length = clip.notes[k].length
    BY <1>6, <2>1, <2>2, <2>3
  <2>5. NoteSound(notes[k])
    BY <1>4, <2>1
  <2> QED
    BY <2>1, <2>4, <2>5 DEF NoteFits
<1>8. notes = [k \in 1..Len(clip.notes) |-> notes[k]]
  BY <1>4, <1>5, NotesOf
<1>9. edited \in SoundClips /\ edited.id = clip.id /\ edited.track = clip.track
  BY <1>4, <1>5, <1>7, <1>8, EachNoteReplaced
<1> QED
  BY <1>4, <1>9, ClipEditedSound

LEMMA MinOfTwo ==
    ASSUME NEW a \in Int, NEW b \in Int
    PROVE  Min({a, b}) \in {a, b} /\ Min({a, b}) <= a /\ Min({a, b}) <= b
<1>1. \E x \in {a, b} : \A y \in {a, b} : x =< y
  <2>1. CASE a <= b
    BY <2>1
  <2>2. CASE b <= a
    BY <2>2
  <2> QED
    BY <2>1, <2>2
<1> QED
  BY <1>1 DEF Min

LEMMA ClipQuantizedSound ==
    ASSUME NEW song \in SoundSongs, NEW t, NEW c, NEW grid \in Nat \ {0},
           NEW new \in ClipQuantized(song, t, c, grid)
    PROVE  new \in SoundSongs
<1> DEFINE Snapped(note) == ((2 * note.start + grid) \div (2 * grid)) * grid
           Start(clip, note) == Min({clip.length - note.length, Snapped(note)})
           Notes(clip) == [k \in DOMAIN clip.notes |->
                              [clip.notes[k] EXCEPT !.start = Start(clip, clip.notes[k])]]
           Made(clip) == WithNotes(clip, Notes(clip))
<1>1. new \in UNION {{[song EXCEPT !.tracks[i] = track] : track \in
                  UNION {{[song.tracks[i] EXCEPT !.clips[j] = clip] :
                              clip \in Made(song.tracks[i].clips[j])} :
                            j \in At(song.tracks[i].clips, c)}} :
              i \in At(song.tracks, t)}
  BY Zenon DEF ClipQuantized, InClip, InTrack
<1>2. PICK clip, edited : ClipEdited(song, t, c, new, clip, edited) /\ edited \in Made(clip)
  <2> HIDE DEF Made
  <2> QED
    BY <1>1 DEF ClipEdited
<1>3. /\ ClipEdited(song, t, c, new, clip, edited)
      /\ edited = [clip EXCEPT !.notes = Notes(clip)]
      /\ \A k \in DOMAIN Notes(clip) : NoteSound(Notes(clip)[k])
  BY <1>2 DEF WithNotes, When
<1> DEFINE notes == Notes(clip)
<1>4. /\ ClipEdited(song, t, c, new, clip, edited)
      /\ notes = [k \in DOMAIN clip.notes |->
                     [clip.notes[k] EXCEPT !.start = Start(clip, clip.notes[k])]]
      /\ edited = [clip EXCEPT !.notes = notes]
      /\ \A k \in DOMAIN notes : NoteSound(notes[k])
  BY <1>3
<1> HIDE DEF notes, Notes
<1>5. clip \in SoundClips
  BY <1>4, ClipEditedSound
<1>6. ASSUME NEW note \in Note
      PROVE  Start(clip, note) \in Int /\ Start(clip, note) <= clip.length - note.length
  <2>1. note.start \in Int /\ note.length \in Int /\ clip.length \in Int
    BY <1>5, NotesOf DEF Note
  <2>2. Snapped(note) \in Int
    BY <2>1
  <2>3. clip.length - note.length \in Int
    BY <2>1
  <2> HIDE DEF Snapped
  <2>4. Start(clip, note) \in {clip.length - note.length, Snapped(note)}
        /\ Start(clip, note) <= clip.length - note.length
    BY <2>2, <2>3, MinOfTwo, Zenon
  <2> QED
    BY <2>2, <2>3, <2>4
<1> HIDE DEF Start
<1>7. ASSUME NEW note \in Note, NEW s \in Int
      PROVE  LET moved == [note EXCEPT !.start = s]
             IN  /\ moved \in Note /\ moved.id = note.id
                 /\ moved.start = s /\ moved.length = note.length
  BY DEF Note
<1>8. ASSUME NEW k \in 1..Len(clip.notes)
      PROVE  /\ notes[k] \in Note /\ notes[k].id = clip.notes[k].id
             /\ NoteFits(notes[k], clip.length)
  <2> DEFINE note == clip.notes[k]
  <2>1. k \in DOMAIN clip.notes /\ note \in Note /\ note.length \in Int /\ clip.length \in Int
    BY <1>5, NotesOf DEF Note
  <2>2. notes[k] = [note EXCEPT !.start = Start(clip, note)]
    BY <1>4, <2>1
  <2>3. NoteSound(notes[k])
    BY <1>4, <2>1
  <2> HIDE DEF note
  <2>4. Start(clip, note) \in Int /\ Start(clip, note) <= clip.length - note.length
    BY <1>6, <2>1
  <2>5. /\ notes[k] \in Note /\ notes[k].id = note.id
        /\ notes[k].start = Start(clip, note) /\ notes[k].length = note.length
    BY <1>7, <2>1, <2>2, <2>4
  <2>6. notes[k].start + notes[k].length <= clip.length
    BY <2>1, <2>4, <2>5
  <2> QED
    BY <2>3, <2>5, <2>6 DEF NoteFits, note
<1>9. notes = [k \in 1..Len(clip.notes) |-> notes[k]]
  BY <1>4, <1>5, NotesOf
<1>10. edited \in SoundClips /\ edited.id = clip.id /\ edited.track = clip.track
  BY <1>4, <1>5, <1>8, <1>9, EachNoteReplaced
<1> QED
  BY <1>4, <1>10, ClipEditedSound

(***************************************************************************)
(* new is song with one track of that id edited.                           *)
(***************************************************************************)
TrackEdited(song, t, new, track, edited) ==
    \E i \in At(song.tracks, t) :
        track = song.tracks[i] /\ new = [song EXCEPT !.tracks[i] = edited]

LEMMA TrackEditedSound ==
    ASSUME NEW song \in SoundSongs, NEW t, NEW new, NEW track, NEW edited,
           TrackEdited(song, t, new, track, edited)
    PROVE  /\ track \in SoundTracks /\ track.id = t
           /\ edited \in SoundTracks /\ edited.id = track.id => new \in SoundSongs
           /\ edited \in Track => new \in Song
<1>1. PICK i \in At(song.tracks, t) :
          track = song.tracks[i] /\ new = [song EXCEPT !.tracks[i] = edited]
  BY DEF TrackEdited
<1>2. i \in 1..Len(song.tracks) /\ track \in SoundTracks /\ track.id = t
  BY <1>1, PartsSound
<1>3. edited \in SoundTracks /\ edited.id = track.id => new \in SoundSongs
  BY <1>1, <1>2, TrackReplaced
<1>4. edited \in Track => new \in Song
  <2>1. song \in Song /\ song.tracks \in Seq(Track)
    BY DEF SoundSongs, Song
  <2> DEFINE tracks == [song.tracks EXCEPT ![i] = edited]
  <2>2. edited \in Track => tracks \in Seq(Track)
    BY <1>2, <2>1
  <2>3. new = [song EXCEPT !.tracks = tracks]
    BY <1>1, <2>1
  <2> HIDE DEF tracks
  <2> QED
    BY <2>1, <2>2, <2>3 DEF Song
<1> QED
  BY <1>2, <1>3, <1>4

LEMMA ClipAppended ==
    ASSUME NEW track \in SoundTracks, NEW clip \in SoundClips,
           clip.track = track.id, clip.id \notin Ids(track.clips)
    PROVE  LET new == [track EXCEPT !.clips = Append(track.clips, clip)]
           IN  new \in SoundTracks /\ new.id = track.id
<1> DEFINE clips == Append(track.clips, clip)
           new == [track EXCEPT !.clips = clips]
<1>1. track \in Track /\ track.clips \in Seq(Clip) /\ clip \in Clip
  BY DEF SoundTracks, SoundClips, Track
<1>2. /\ OneEach(track.clips)
      /\ \A k \in 1..Len(track.clips) :
            track.clips[k].track = track.id /\ track.clips[k] \in SoundClips
  BY <1>1, SoundTrackIs DEF SoundTracks
<1>3. /\ clips \in Seq(Clip) /\ Len(clips) = Len(track.clips) + 1
      /\ clips[Len(track.clips) + 1] = clip
      /\ \A j \in 1..Len(track.clips) : clips[j] = track.clips[j]
      /\ \A j \in 1..Len(clips) : j \in 1..Len(track.clips) \/ j = Len(track.clips) + 1
      /\ OneEach(track.clips) /\ clip.id \notin Ids(track.clips) => OneEach(clips)
  BY <1>1, OneAppended
<1> HIDE DEF clips
<1>4. new \in Track /\ new.clips = clips /\ new.id = track.id
  BY <1>1, <1>3 DEF Track
<1> HIDE DEF new
<1>5. \A k \in 1..Len(clips) : clips[k].track = track.id /\ clips[k] \in SoundClips
  BY <1>2, <1>3
<1>6. TrackSound(new)
  BY <1>2, <1>3, <1>4, <1>5, SoundTrackIs
<1> QED
  BY <1>4, <1>6 DEF clips, new, SoundTracks

LEMMA ClipDuplicatedSound ==
    ASSUME NEW song \in SoundSongs, NEW t, NEW c, NEW id \in Names,
           NEW noteIds \in Seq(Names),
           NEW new \in ClipDuplicated(song, t, c, id, noteIds)
    PROVE  new \in SoundSongs
<1> DEFINE Copy(clip) == [clip EXCEPT !.id = id,
                             !.notes = [i \in DOMAIN @ |-> [@[i] EXCEPT !.id = noteIds[i]]]]
           Copies(track) ==
               {[track EXCEPT !.clips = Append(@, Copy(@[j]))] :
                   j \in {k \in At(track.clips, c) :
                             /\ Len(noteIds) = Len(track.clips[k].notes)
                             /\ id \notin Ids(track.clips)
                             /\ ClipSound(Copy(track.clips[k]))}}
<1>1. new \in UNION {{[song EXCEPT !.tracks[i] = track] : track \in Copies(song.tracks[i])} :
                        i \in At(song.tracks, t)}
  BY Zenon DEF ClipDuplicated, InTrack
<1>2. PICK track, edited : TrackEdited(song, t, new, track, edited) /\ edited \in Copies(track)
  <2> HIDE DEF Copies
  <2> QED
    BY <1>1 DEF TrackEdited
<1>3. /\ TrackEdited(song, t, new, track, edited)
      /\ \E j \in At(track.clips, c) :
            /\ Len(noteIds) = Len(track.clips[j].notes)
            /\ id \notin Ids(track.clips)
            /\ ClipSound(Copy(track.clips[j]))
            /\ edited = [track EXCEPT !.clips = Append(track.clips, Copy(track.clips[j]))]
  <2> HIDE DEF Copy
  <2> QED
    BY <1>2
<1>4. track \in SoundTracks /\ track.id = t
  BY <1>3, TrackEditedSound
<1>5. PICK j \in At(track.clips, c) :
          /\ Len(noteIds) = Len(track.clips[j].notes)
          /\ id \notin Ids(track.clips)
          /\ ClipSound(Copy(track.clips[j]))
          /\ edited = [track EXCEPT !.clips = Append(track.clips, Copy(track.clips[j]))]
  BY <1>3
<1> DEFINE clip == track.clips[j]
           notes == [i \in DOMAIN clip.notes |-> [clip.notes[i] EXCEPT !.id = noteIds[i]]]
           copy == [clip EXCEPT !.id = id, !.notes = notes]
<1>6. clip \in SoundClips /\ clip.track = track.id
  <2>1. track \in Track /\ track.clips \in Seq(Clip)
    BY <1>4 DEF SoundTracks, Track
  <2>2. j \in 1..Len(track.clips)
    BY <2>1 DEF At
  <2> QED
    BY <1>4, <2>1, <2>2, SoundTrackIs DEF SoundTracks
<1>7. Copy(clip) = copy
  BY DEF Clip
<1>8. Len(noteIds) = Len(clip.notes) /\ id \notin Ids(track.clips) /\ ClipSound(copy)
      /\ edited = [track EXCEPT !.clips = Append(track.clips, copy)]
  BY <1>5, <1>7
<1> HIDE DEF clip
<1>9. notes \in Seq(Note)
  <2>1. clip.notes \in Seq(Note) /\ DOMAIN clip.notes = 1..Len(clip.notes)
    BY <1>6, NotesOf
  <2>2. ASSUME NEW i \in 1..Len(clip.notes)
        PROVE  [clip.notes[i] EXCEPT !.id = noteIds[i]] \in Note
    <3>1. noteIds[i] \in Names /\ clip.notes[i] \in Note
      BY <1>8, <2>1
    <3> QED
      BY <3>1 DEF Note
  <2> QED
    BY <2>1, <2>2
<1> HIDE DEF notes
<1>10. copy \in Clip /\ copy.id = id /\ copy.track = track.id
  BY <1>6, <1>9, NotesOf DEF Clip
<1> HIDE DEF copy
<1>11. edited \in SoundTracks /\ edited.id = track.id
  <2>1. copy \in SoundClips
    BY <1>8, <1>10 DEF SoundClips
  <2> QED
    BY <1>4, <1>8, <1>10, <2>1, ClipAppended
<1> QED
  BY <1>3, <1>11, TrackEditedSound

LEMMA ClipAddedSound ==
    ASSUME NEW song \in SoundSongs, NEW clip \in Clip, clip.notes = <<>>,
           NEW new \in ClipAdded(song, clip)
    PROVE  new \in SoundSongs
<1> DEFINE Made(track) == When(clip.length > 0 /\ clip.id \notin Ids(track.clips),
                               [track EXCEPT !.clips = Append(@, clip)])
<1>1. new \in UNION {{[song EXCEPT !.tracks[i] = track] : track \in Made(song.tracks[i])} :
                        i \in At(song.tracks, clip.track)}
  BY Zenon DEF ClipAdded, InTrack
<1>2. PICK track, edited :
          TrackEdited(song, clip.track, new, track, edited) /\ edited \in Made(track)
  <2> HIDE DEF Made
  <2> QED
    BY <1>1 DEF TrackEdited
<1>3. /\ TrackEdited(song, clip.track, new, track, edited)
      /\ clip.length > 0 /\ clip.id \notin Ids(track.clips)
      /\ edited = [track EXCEPT !.clips = Append(track.clips, clip)]
  BY <1>2 DEF When
<1>4. track \in SoundTracks /\ track.id = clip.track
  BY <1>3, TrackEditedSound
<1>5. clip \in SoundClips
  BY <1>3, SoundClipIs DEF SoundClips, OneEach
<1>6. edited \in SoundTracks /\ edited.id = track.id
  BY <1>3, <1>4, <1>5, ClipAppended
<1>7. TrackEdited(song, clip.track, new, track, edited)
  BY <1>3
<1>8. edited \in SoundTracks /\ edited.id = track.id => new \in SoundSongs
  BY <1>7, TrackEditedSound
<1> QED
  BY <1>6, <1>8

LEMMA TrackAddedSound ==
    ASSUME NEW song \in SoundSongs, NEW track \in SoundTracks,
           NEW new \in TrackAdded(song, track)
    PROVE  new \in SoundSongs
<1>1. track.id \notin Ids(song.tracks) /\ new = [song EXCEPT !.tracks = Append(song.tracks, track)]
  BY DEF TrackAdded, When
<1> DEFINE tracks == Append(song.tracks, track)
<1>2. song \in Song /\ song.tracks \in Seq(Track) /\ track \in Track
  BY DEF SoundSongs, SoundTracks, Song
<1>3. OneEach(song.tracks) /\ \A j \in 1..Len(song.tracks) : song.tracks[j] \in SoundTracks
  BY <1>2, SoundSongIs DEF SoundSongs
<1>4. /\ tracks \in Seq(Track) /\ Len(tracks) = Len(song.tracks) + 1
      /\ tracks[Len(song.tracks) + 1] = track
      /\ \A j \in 1..Len(song.tracks) : tracks[j] = song.tracks[j]
      /\ \A j \in 1..Len(tracks) : j \in 1..Len(song.tracks) \/ j = Len(song.tracks) + 1
      /\ OneEach(song.tracks) /\ track.id \notin Ids(song.tracks) => OneEach(tracks)
  BY <1>2, OneAppended
<1> HIDE DEF tracks
<1>5. new \in Song /\ new.tracks = tracks
  BY <1>1, <1>2, <1>4 DEF Song, tracks
<1>6. SongSound(new)
  BY <1>1, <1>3, <1>4, <1>5, SoundSongIs
<1> QED
  BY <1>5, <1>6 DEF SoundSongs

-----------------------------------------------------------------------------
(* The edits whose result is loaded again: they make a song, and loading   *)
(* checks it.                                                              *)

LEMMA TrackDeletedTyped ==
    ASSUME NEW song \in SoundSongs, NEW t, NEW new \in TrackDeleted(song, t)
    PROVE  new \in Song
<1>1. new = [song EXCEPT !.tracks = Without(song.tracks, t)]
  BY DEF TrackDeleted, When
<1>2. song \in Song /\ song.tracks \in Seq(Track)
  BY DEF SoundSongs, Song
<1> DEFINE tracks == Without(song.tracks, t)
<1>3. tracks \in Seq(Track)
  BY <1>2, SomeKept
<1> HIDE DEF tracks
<1> QED
  BY <1>1, <1>2, <1>3 DEF Song, tracks

LEMMA ClipDeletedTyped ==
    ASSUME NEW song \in SoundSongs, NEW t, NEW c, NEW new \in ClipDeleted(song, t, c)
    PROVE  new \in Song
<1>1. PICK track, edited :
          /\ TrackEdited(song, t, new, track, edited)
          /\ edited = [track EXCEPT !.clips = Without(track.clips, c)]
  BY DEF ClipDeleted, InTrack, When, TrackEdited
<1>2. track \in Track /\ track.clips \in Seq(Clip)
  <2>1. track \in SoundTracks
    BY <1>1, TrackEditedSound
  <2> QED
    BY <2>1 DEF SoundTracks, Track
<1> DEFINE clips == Without(track.clips, c)
<1>3. clips \in Seq(Clip)
  BY <1>2, SomeKept
<1> HIDE DEF clips
<1>4. edited \in Track
  BY <1>1, <1>2, <1>3 DEF Track, clips
<1> QED
  BY <1>1, <1>4, TrackEditedSound

LEMMA ClipResizedTyped ==
    ASSUME NEW song \in SoundSongs, NEW t, NEW c, NEW length \in Int,
           NEW new \in ClipResized(song, t, c, length)
    PROVE  new \in Song
<1>1. PICK track, edited :
          /\ TrackEdited(song, t, new, track, edited)
          /\ \E j \in At(track.clips, c) :
                edited = [track EXCEPT !.clips[j] = [track.clips[j] EXCEPT !.length = length]]
  BY DEF ClipResized, InClip, InTrack, When, TrackEdited
<1>2. PICK j \in At(track.clips, c) :
          edited = [track EXCEPT !.clips[j] = [track.clips[j] EXCEPT !.length = length]]
  BY <1>1
<1>3. track \in Track /\ track.clips \in Seq(Clip)
  <2>1. track \in SoundTracks
    BY <1>1, TrackEditedSound
  <2> QED
    BY <2>1 DEF SoundTracks, Track
<1> DEFINE clip == [track.clips[j] EXCEPT !.length = length]
           clips == [track.clips EXCEPT ![j] = clip]
<1>4. clip \in Clip /\ j \in 1..Len(track.clips)
  <2>1. track.clips[j] \in Clip /\ j \in 1..Len(track.clips)
    BY <1>3 DEF At
  <2> QED
    BY <2>1 DEF Clip
<1> HIDE DEF clip
<1>5. clips \in Seq(Clip)
  BY <1>3, <1>4
<1>6. edited = [track EXCEPT !.clips = clips]
  BY <1>2, <1>3 DEF clip, Track
<1> HIDE DEF clips
<1>7. edited \in Track
  BY <1>3, <1>5, <1>6 DEF Track
<1> QED
  BY <1>1, <1>7, TrackEditedSound

LEMMA TrackRestoredTyped ==
    ASSUME NEW song \in SoundSongs, NEW track \in Track, NEW position \in Nat,
           NEW new \in TrackRestored(song, track, position)
    PROVE  new \in Song
<1> DEFINE others == Without(song.tracks, track.id)
           place == Min({position, Len(others)}) + 1
           tracks == InsertAt(others, place, track)
<1>1. new = [song EXCEPT !.tracks = tracks]
  BY DEF TrackRestored, When
<1>2. song \in Song /\ song.tracks \in Seq(Track)
  BY DEF SoundSongs, Song
<1>3. others \in Seq(Track)
  BY <1>2, SomeKept
<1> HIDE DEF others
<1>4. place \in Nat \ {0} /\ place <= Len(others) + 1
  <2>1. position \in Int /\ Len(others) \in Int /\ position >= 0 /\ Len(others) >= 0
    BY <1>3
  <2> DEFINE least == Min({position, Len(others)})
  <2>2. least \in {position, Len(others)} /\ least <= Len(others)
    BY <2>1, MinOfTwo, Zenon
  <2> HIDE DEF least
  <2>3. least + 1 \in Nat \ {0} /\ least + 1 <= Len(others) + 1
    BY <2>1, <2>2
  <2> QED
    BY <2>3 DEF least
<1> HIDE DEF place
<1>5. tracks \in Seq(Track)
  <2>1. SubSeq(others, 1, place - 1) \in Seq(Track)
    BY <1>3, <1>4, SubSeqProperties
  <2>2. SubSeq(others, place, Len(others)) \in Seq(Track)
    BY <1>3, <1>4, SubSeqProperties
  <2>3. <<track>> \in Seq(Track)
    OBVIOUS
  <2> QED
    BY <2>1, <2>2, <2>3, ConcatProperties DEF InsertAt
<1> HIDE DEF tracks
<1> QED
  BY <1>1, <1>2, <1>5 DEF Song

-----------------------------------------------------------------------------
(* Commands.                                                               *)

LEMMA EditedSound ==
    ASSUME NEW song \in SoundSongs, NEW cmd \in Commands, cmd.type # "CreateSong",
           NEW new \in Edited(song, cmd)
    PROVE  new \in SoundSongs
<1>1. CASE cmd.type = "CreateTrack"
  <2> DEFINE track == [id |-> cmd.track, clips |-> <<>>]
  <2>1. cmd.track \in Names
    BY <1>1 DEF Commands, OfTrack
  <2>2. new \in TrackAdded(song, track)
    BY <1>1 DEF Edited
  <2>3. track \in Track
    BY <2>1 DEF Track
  <2>4. track \in SoundTracks
    BY <2>3, SoundTrackIs DEF SoundTracks, OneEach
  <2> HIDE DEF track
  <2> QED
    BY <2>2, <2>4, TrackAddedSound
<1>2. CASE cmd.type \in {"SetTrackInstrument", "RenameTrack"}
  BY <1>2 DEF Edited, When
<1>3. CASE cmd.type = "CreateClip"
  <2> DEFINE clip == [id |-> cmd.clip, track |-> cmd.track, length |-> cmd.length, notes |-> <<>>]
  <2>1. cmd.clip \in Names /\ cmd.track \in Names /\ cmd.length \in Int
    BY <1>3 DEF Commands, OfTrack
  <2>2. clip \in Clip /\ clip.notes = <<>>
    BY <2>1 DEF Clip
  <2>3. new \in ClipAdded(song, clip)
    BY <1>3 DEF Edited
  <2> HIDE DEF clip
  <2> QED
    BY <2>2, <2>3, ClipAddedSound
<1>4. CASE cmd.type = "AddNote"
  <2>1. cmd.note \in Note
    BY <1>4 DEF Commands, OfTrack
  <2>2. new \in NoteAdded(song, cmd.track, cmd.clip, cmd.note)
    BY <1>4 DEF Edited
  <2> QED
    BY <2>1, <2>2, NoteAddedSound
<1>5. CASE cmd.type = "UpdateNote"
  <2>1. cmd.changes \in Changes
    BY <1>5 DEF Commands, OfTrack
  <2>2. new \in NoteUpdated(song, cmd.track, cmd.clip, cmd.id, cmd.changes)
    BY <1>5 DEF Edited
  <2> QED
    BY <2>1, <2>2, NoteUpdatedSound
<1>6. CASE cmd.type = "RemoveNote"
  <2>1. new \in NoteRemoved(song, cmd.track, cmd.clip, cmd.id)
    BY <1>6 DEF Edited
  <2> QED
    BY <2>1, NoteRemovedSound
<1>7. CASE cmd.type = "DuplicateClip"
  <2>1. cmd.clip \in Names /\ cmd.notes \in Seq(Names)
    BY <1>7 DEF Commands, OfTrack
  <2>2. new \in ClipDuplicated(song, cmd.track, cmd.source, cmd.clip, cmd.notes)
    BY <1>7 DEF Edited
  <2> QED
    BY <2>1, <2>2, ClipDuplicatedSound
<1>8. CASE cmd.type = "QuantizeClip"
  <2>1. cmd.grid \in Nat \ {0}
    BY <1>8 DEF Commands, OfTrack
  <2>2. new \in ClipQuantized(song, cmd.track, cmd.clip, cmd.grid)
    BY <1>8 DEF Edited
  <2> QED
    BY <2>1, <2>2, ClipQuantizedSound
<1>9. CASE cmd.type = "TransposeClip"
  <2>1. cmd.semitones \in Int
    BY <1>9 DEF Commands, OfTrack
  <2>2. new \in ClipTransposed(song, cmd.track, cmd.clip, cmd.semitones)
    BY <1>9 DEF Edited
  <2> QED
    BY <2>1, <2>2, ClipTransposedSound
<1>10. CASE cmd.type = "DeleteTrack"
  <2>1. new \in TrackDeleted(song, cmd.track) /\ SongSound(new)
    BY <1>10 DEF Edited, Normalized
  <2> QED
    BY <2>1, TrackDeletedTyped DEF SoundSongs
<1>11. CASE cmd.type = "DeleteClip"
  <2>1. new \in ClipDeleted(song, cmd.track, cmd.clip) /\ SongSound(new)
    BY <1>11 DEF Edited, Normalized
  <2> QED
    BY <2>1, ClipDeletedTyped DEF SoundSongs
<1>12. CASE cmd.type = "UpdateClip"
  <2>1. new \in ClipResized(song, cmd.track, cmd.clip, cmd.length) /\ SongSound(new)
    BY <1>12 DEF Edited, Normalized
  <2>2. cmd.length \in Int
    BY <1>12 DEF Commands, OfTrack
  <2> QED
    BY <2>1, <2>2, ClipResizedTyped DEF SoundSongs
<1>13. CASE cmd.type = "RestoreTrack"
  <2>1. new \in TrackRestored(song, cmd.restored, cmd.position) /\ SongSound(new)
    BY <1>13 DEF Edited, Normalized
  <2>2. cmd.restored \in Track /\ cmd.position \in Nat
    BY <1>13 DEF Commands, OfTrack
  <2> QED
    BY <2>1, <2>2, TrackRestoredTyped DEF SoundSongs
<1>14. CASE cmd.type = "SetTransport"
  <2>1. new = [song EXCEPT !.transport = cmd.value]
    BY <1>14 DEF Edited
  <2>2. cmd.value \in Int
    BY <1>14 DEF Commands, OfTrack
  <2>3. song \in Song /\ SongSound(song)
    BY DEF SoundSongs
  <2>4. new \in Song /\ new.tracks = song.tracks
    BY <2>1, <2>2, <2>3 DEF Song
  <2>5. SongSound(new)
    BY <2>3, <2>4 DEF SongSound
  <2> QED
    BY <2>4, <2>5 DEF SoundSongs
<1> QED
  BY <1>1, <1>2, <1>3, <1>4, <1>5, <1>6, <1>7, <1>8, <1>9, <1>10, <1>11, <1>12, <1>13, <1>14
  DEF Commands, OfTrack

(***************************************************************************)
(* A state of the command engine: its song, if it has one, is sound.       *)
(***************************************************************************)
SoundOrNone == SoundSongs \cup {None}

SoundState(s) == s.song \in SoundOrNone /\ s.sel \in Selections

LEMMA NewSongSound ==
    ASSUME NEW id \in Names
    PROVE  NewSong(id) \in SoundSongs
<1>1. NewSong(id) \in Song /\ NewSong(id).tracks = <<>>
  BY DEF NewSong, Song
<1> QED
  BY <1>1, SoundSongIs DEF SoundSongs, OneEach

LEMMA SelectsTyped ==
    ASSUME NEW cmd \in Commands, NEW sel \in Selections
    PROVE  Selects(cmd, sel) \in Selections
<1>1. CASE cmd.type \in {"CreateTrack", "SetTrackInstrument"}
  <2>1. cmd.track \in Names
    BY <1>1 DEF Commands, OfTrack
  <2> QED
    BY <1>1, <2>1 DEF Selects, Selections
<1>2. CASE cmd.type \in {"CreateClip", "AddNote", "UpdateNote", "RemoveNote",
                         "DuplicateClip", "QuantizeClip", "TransposeClip"}
  <2>1. cmd.track \in Names /\ cmd.clip \in Names
    BY <1>2 DEF Commands, OfTrack
  <2> QED
    BY <1>2, <2>1 DEF Selects, Selections
<1>3. CASE cmd.type = "SetTransport"
  BY <1>3 DEF Selects
<1>4. CASE cmd.type \notin {"CreateTrack", "SetTrackInstrument", "CreateClip", "AddNote",
                            "UpdateNote", "RemoveNote", "DuplicateClip", "QuantizeClip",
                            "TransposeClip", "SetTransport"}
  BY <1>4 DEF Selects, Selections, Nowhere
<1> QED
  BY <1>1, <1>2, <1>3, <1>4

LEMMA AppliedSound ==
    ASSUME NEW state, SoundState(state), NEW cmd \in Commands, NEW o \in Applied(state, cmd)
    PROVE  o.song \in SoundSongs /\ o.sel \in Selections
<1>1. CASE cmd.type = "CreateSong"
  <2>1. cmd.id \in Names
    BY <1>1 DEF Commands, OfTrack
  <2>2. o.song = NewSong(cmd.id) /\ o.sel = Nowhere
    BY <1>1 DEF Applied
  <2> QED
    BY <2>1, <2>2, NewSongSound DEF Selections, Nowhere
<1>2. CASE cmd.type # "CreateSong"
  <2>1. /\ state.song # None
        /\ o.song \in Edited(state.song, cmd)
        /\ o.sel = Selects(cmd, state.sel)
    BY <1>2 DEF Applied
  <2>2. state.song \in SoundSongs /\ state.sel \in Selections
    BY <2>1 DEF SoundState, SoundOrNone
  <2> QED
    BY <1>2, <2>1, <2>2, EditedSound, SelectsTyped
<1> QED
  BY <1>1, <1>2

(***************************************************************************)
(* Whatever batch is applied, the song it leads to is sound.               *)
(***************************************************************************)
LEMMA OutcomesUnfold ==
    ASSUME NEW state, NEW cmds, Len(cmds) \in Nat
    PROVE  \E after :
              /\ after = [n \in 0..Len(cmds) |->
                             IF n = 0 THEN {state}
                             ELSE UNION {Applied(s, cmds[n]) : s \in after[n - 1]}]
              /\ Outcomes(state, cmds) = IF cmds = <<>> THEN {} ELSE after[Len(cmds)]
<1> DEFINE Step(before, n) == UNION {Applied(s, cmds[n]) : s \in before}
           Runs(f, k) == f = [n \in 0..k |-> IF n = 0 THEN {state} ELSE Step(f[n - 1], n)]
           A == {k \in Nat : \E f : Runs(f, k)}
<1>1. A = Nat
  <2> HIDE DEF Step
  <2>1. 0 \in A
    <3> DEFINE f == [n \in 0..0 |-> {state}]
    <3>1. Runs(f, 0)
      OBVIOUS
    <3> QED
      BY <3>1
  <2>2. ASSUME NEW k \in A
        PROVE  k + 1 \in A
    <3>1. PICK f : Runs(f, k)
      OBVIOUS
    <3> DEFINE g == [n \in 0..(k + 1) |-> IF n = k + 1 THEN Step(f[k], k + 1) ELSE f[n]]
    <3>2. ASSUME NEW n \in 0..(k + 1)
          PROVE  g[n] = IF n = 0 THEN {state} ELSE Step(g[n - 1], n)
      <4>1. CASE n = k + 1
        BY <4>1
      <4>2. CASE n # k + 1 /\ n # 0
        <5>1. n \in 0..k /\ n - 1 \in 0..(k + 1) /\ n - 1 # k + 1
          BY <4>2
        <5>2. g[n] = f[n] /\ g[n - 1] = f[n - 1]
          BY <4>2, <5>1
        <5> QED
          BY <3>1, <4>2, <5>1, <5>2
      <4>3. CASE n # k + 1 /\ n = 0
        BY <3>1, <4>3
      <4> QED
        BY <4>1, <4>2, <4>3
    <3>3. g = [n \in 0..(k + 1) |-> g[n]]
      OBVIOUS
    <3> HIDE DEF g
    <3>4. Runs(g, k + 1)
      BY <3>2, <3>3
    <3> QED
      BY <3>4
  <2> HIDE DEF A
  <2>3. A \in SUBSET Nat
    BY DEF A
  <2> QED
    BY <2>1, <2>2, <2>3, SetInduction
<1>2. \E f : Runs(f, Len(cmds))
  BY <1>1
<1> DEFINE after == CHOOSE f : Runs(f, Len(cmds))
<1>3. Runs(after, Len(cmds))
  BY <1>2, Zenon
<1>4. Outcomes(state, cmds) = IF cmds = <<>> THEN {} ELSE after[Len(cmds)]
  BY DEF Outcomes
<1> QED
  BY <1>3, <1>4

LEMMA OutcomesSound ==
    ASSUME NEW state, SoundState(state), NEW cmds \in Seq(Commands),
           NEW o \in Outcomes(state, cmds)
    PROVE  o.song \in SoundSongs /\ o.sel \in Selections
<1> DEFINE N == Len(cmds)
<1>1. N \in Nat /\ \A n \in 1..N : cmds[n] \in Commands
  OBVIOUS
<1>2. PICK f : /\ f = [n \in 0..N |->
                          IF n = 0 THEN {state}
                          ELSE UNION {Applied(s, cmds[n]) : s \in f[n - 1]}]
               /\ Outcomes(state, cmds) = IF cmds = <<>> THEN {} ELSE f[N]
  BY <1>1, OutcomesUnfold
<1>3. N > 0 /\ o \in f[N]
  BY <1>2
<1> HIDE DEF N
<1>4. f[0] = {state}
  BY <1>1, <1>2
<1>5. \A n \in 0..N : n + 1 \in 0..N =>
          f[n + 1] = UNION {Applied(s, cmds[n + 1]) : s \in f[n]}
  <2>1. ASSUME NEW n \in 0..N, n + 1 \in 0..N
        PROVE  f[n + 1] = UNION {Applied(s, cmds[n + 1]) : s \in f[n]}
    <3>1. n + 1 # 0 /\ (n + 1) - 1 = n
      OBVIOUS
    <3> QED
      BY <1>2, <2>1, <3>1
  <2> QED
    BY <2>1
<1> DEFINE Made(s) == s.song \in SoundSongs /\ s.sel \in Selections
           Good(n) == \A s \in f[n] : SoundState(s) /\ (n > 0 => Made(s))
           A == {n \in Nat : n \in 0..N => Good(n)}
<1>6. A = Nat
  <2> HIDE DEF Made
  <2>1. 0 \in A
    BY <1>4
  <2>2. ASSUME NEW n \in A
        PROVE  n + 1 \in A
    <3>1. SUFFICES ASSUME n + 1 \in 0..N, NEW s \in f[n + 1]
                   PROVE  SoundState(s) /\ Made(s)
      OBVIOUS
    <3>2. n \in 0..N /\ n + 1 \in 1..N
      BY <1>1, <3>1
    <3>3. PICK before \in f[n] : s \in Applied(before, cmds[n + 1])
      BY <1>5, <3>1, <3>2
    <3>4. SoundState(before) /\ cmds[n + 1] \in Commands
      BY <1>1, <3>2, <3>3
    <3>5. Made(s)
      BY <3>3, <3>4, AppliedSound DEF Made
    <3> QED
      BY <3>5 DEF Made, SoundState, SoundOrNone
  <2> HIDE DEF A
  <2>3. A \in SUBSET Nat
    BY DEF A
  <2> QED
    BY <2>1, <2>2, <2>3, SetInduction
<1>7. Good(N)
  BY <1>1, <1>6
<1> QED
  BY <1>3, <1>7

-----------------------------------------------------------------------------
(* What the store reads off the song that is shown.                        *)

LEMMA MinIn ==
    ASSUME NEW A \in SUBSET Nat, A # {}
    PROVE  Min(A) \in A
<1>1. PICK x \in A : \A y \in A : ~(y < x)
  BY Least
<1>2. \A y \in A : x =< y
  BY <1>1
<1> QED
  BY <1>2 DEF Min

LEMMA NamedIn ==
    ASSUME NEW S, NEW items \in Seq(S), NEW id \in Ids(items)
    PROVE  ClipNamed(items, id) \in S
<1>1. At(items, id) \in SUBSET Nat /\ At(items, id) # {}
  BY DEF At, Ids
<1>2. Min(At(items, id)) \in At(items, id)
  BY <1>1, MinIn
<1> HIDE DEF At
<1>3. Min(At(items, id)) \in 1..Len(items)
  BY <1>2 DEF At
<1> QED
  BY <1>3 DEF ClipNamed

LEMMA FirstOrIn ==
    ASSUME NEW S, NEW items \in Seq(S), NEW id, NEW item \in FirstOr(items, id)
    PROVE  item \in S
<1>1. CASE id \in Ids(items)
  BY <1>1, NamedIn DEF FirstOr
<1>2. CASE id \notin Ids(items)
  BY <1>2 DEF FirstOr
<1> QED
  BY <1>1, <1>2

LEMMA TracksTyped ==
    ASSUME NEW song \in SoundOrNone
    PROVE  /\ Tracks(song) \in Seq(Track)
           /\ Ids(Tracks(song)) \subseteq Names
<1>1. Tracks(song) \in Seq(Track)
  BY DEF Tracks, SoundOrNone, SoundSongs, Song
<1>2. \A i \in DOMAIN Tracks(song) : Tracks(song)[i] \in Track
  BY <1>1
<1> QED
  BY <1>1, <1>2 DEF Ids, Track

LEMMA ClipsTyped ==
    ASSUME NEW track \in Track
    PROVE  /\ track.id \in Names /\ track.clips \in Seq(Clip)
           /\ Ids(track.clips) \subseteq Names
<1>1. track.id \in Names /\ track.clips \in Seq(Clip)
  BY DEF Track
<1>2. \A i \in DOMAIN track.clips : track.clips[i] \in Clip
  BY <1>1
<1> QED
  BY <1>1, <1>2 DEF Ids, Clip

LEMMA NotesTyped ==
    ASSUME NEW clip \in Clip
    PROVE  /\ clip.id \in Names /\ clip.notes \in Seq(Note) /\ clip.length \in Int
           /\ Ids(clip.notes) \subseteq Names
<1>1. clip.id \in Names /\ clip.notes \in Seq(Note) /\ clip.length \in Int
  BY DEF Clip
<1>2. \A i \in DOMAIN clip.notes : clip.notes[i] \in Note
  BY <1>1
<1> QED
  BY <1>1, <1>2 DEF Ids, Note

LEMMA ClipsOfTyped ==
    ASSUME NEW song \in SoundOrNone, NEW clip \in ClipsOf(song)
    PROVE  clip \in Selections
<1>1. PICK track \in ToSet(Tracks(song)) : \E c \in Ids(track.clips) : clip = <<track.id, c>>
  BY DEF ClipsOf
<1>2. track \in Track
  <2>1. PICK i \in DOMAIN Tracks(song) : track = Tracks(song)[i]
    BY DEF ToSet
  <2> QED
    BY <2>1, TracksTyped
<1> QED
  BY <1>1, <1>2, ClipsTyped DEF Selections

LEMMA SelectedTrackTyped ==
    ASSUME shown.song \in SoundOrNone, NEW track \in SelectedTrack
    PROVE  /\ track \in Track
           /\ \A clip \in FirstOr(track.clips, selected[2]) : clip \in Clip
<1>1. track \in Track
  BY TracksTyped, FirstOrIn DEF SelectedTrack
<1> QED
  BY <1>1, ClipsTyped, FirstOrIn

LEMMA TargetTyped ==
    ASSUME shown.song \in SoundOrNone, NEW target \in Target
    PROVE  target.track \in Names /\ target.clip \in Clip
<1> DEFINE tracks == Tracks(shown.song)
           holders == {i \in DOMAIN tracks : selected[2] \in Ids(tracks[i].clips)}
<1>1. tracks \in Seq(Track) /\ \A i \in DOMAIN tracks : tracks[i] \in Track /\ i \in Nat
  BY TracksTyped
<1>2. CASE holders # {}
  <2> DEFINE i == Min(holders)
  <2>1. i \in holders
    BY <1>1, <1>2, MinIn
  <2>2. target = [track |-> tracks[i].id, clip |-> ClipNamed(tracks[i].clips, selected[2])]
    BY <1>2 DEF Target
  <2> HIDE DEF i
  <2>3. tracks[i] \in Track /\ selected[2] \in Ids(tracks[i].clips)
    BY <1>1, <2>1
  <2> HIDE DEF tracks, holders
  <2>4. ClipNamed(tracks[i].clips, selected[2]) \in Clip /\ tracks[i].id \in Names
    BY <2>3, ClipsTyped, NamedIn
  <2> QED
    BY <2>2, <2>4
<1>3. CASE holders = {}
  <2>1. PICK i : /\ i \in DOMAIN tracks /\ tracks[i].clips # <<>>
                 /\ target = [track |-> tracks[i].id, clip |-> tracks[i].clips[1]]
    BY <1>3 DEF Target, At
  <2> HIDE DEF tracks, holders
  <2>2. tracks[i].id \in Names /\ tracks[i].clips \in Seq(Clip)
    BY <1>1, <2>1, ClipsTyped
  <2>3. tracks[i].clips[1] \in Clip
    BY <2>1, <2>2
  <2> QED
    BY <2>1, <2>2, <2>3
<1> QED
  BY <1>2, <1>3

LEMMA UnusedTyped ==
    /\ NewSongs \in Seq(Names) /\ NewTracks \in Seq(Names)
    /\ NewClips \in Seq(Names) /\ NewNotes \in Seq(Names)
<1>1. /\ SongIds \in Seq(Names) /\ TrackIds \in Seq(Names)
      /\ ClipIds \in Seq(Names) /\ NoteIds \in Seq(Names)
  BY StoreAssumption
<1>2. ASSUME NEW pool \in Seq(Names), NEW used
      PROVE  Unused(pool, used) \in Seq(Names)
  BY KeptPicks DEF Unused
<1> QED
  BY <1>1, <1>2 DEF NewSongs, NewTracks, NewClips, NewNotes

-----------------------------------------------------------------------------
(* The commands that the handlers build.                                   *)

Draft == [start : Int, length : Int, pitch : Int]

LEMMA AddTrackTyped ==
    ASSUME NEW id \in Names
    PROVE  AddTrackCommand(id) \in Commands
BY DEF AddTrackCommand, Commands, OfTrack

LEMMA AddClipTyped ==
    ASSUME NEW t \in Names, NEW id \in Names, NEW length \in Int
    PROVE  AddClipCommand(t, id, length) \in Commands
BY DEF AddClipCommand, Commands

LEMMA AddNoteTyped ==
    ASSUME NEW t \in Names, NEW c \in Names, NEW id \in Names, NEW draft,
           draft.start \in Int, draft.length \in Int, draft.pitch \in Int
    PROVE  AddNoteCommand(t, c, id, draft) \in Commands
<1> DEFINE note == [id |-> id, pitch |-> draft.pitch, start |-> draft.start,
                    length |-> draft.length]
<1>1. note \in Note
  BY DEF Note
<1>2. AddNoteCommand(t, c, id, draft) = [type |-> "AddNote", track |-> t, clip |-> c, note |-> note]
  BY DEF AddNoteCommand
<1> HIDE DEF note
<1> QED
  BY <1>1, <1>2 DEF Commands

LEMMA RemoveNoteTyped ==
    ASSUME NEW t \in Names, NEW c \in Names, NEW n \in Names
    PROVE  RemoveNoteCommand(t, c, n) \in Commands
BY DEF RemoveNoteCommand, Commands

LEMMA UpdateNoteTyped ==
    ASSUME NEW t \in Names, NEW c \in Names, NEW n \in Names, NEW changes \in Changes
    PROVE  [type |-> "UpdateNote", track |-> t, clip |-> c, id |-> n, changes |-> changes]
              \in Commands
BY DEF Commands

(***************************************************************************)
(* A set as a sequence.                                                    *)
(***************************************************************************)
LEMMA SetToSeqTyped ==
    ASSUME NEW S, IsFiniteSet(S)
    PROVE  SetToSeq(S) \in Seq(S)
<1> DEFINE n == Cardinality(S)
<1>1. n \in Nat /\ ExistsBijection(1..n, S)
  BY FS_CardinalityType
<1> HIDE DEF n
<1>2. PICK f \in [1..n -> S] : IsInjective(f)
  BY <1>1 DEF ExistsBijection, Bijection, Injection
<1>3. SetToSeq(S) \in [1..n -> S]
  BY <1>2 DEF SetToSeq, n
<1> QED
  BY <1>1, <1>3

LEMMA StepTyped ==
    ASSUME NEW t \in Names, NEW clip \in Clip, NEW draft \in Draft,
           NEW cmds \in StepCommands(t, clip, draft)
    PROVE  cmds \in Seq(Commands)
<1> DEFINE there == {i \in DOMAIN clip.notes :
                        /\ clip.notes[i].start = draft.start
                        /\ clip.notes[i].pitch = draft.pitch}
           Accent(n) == [type |-> "UpdateNote", track |-> t, clip |-> clip.id,
                         id |-> n, changes |-> <<>>]
           Clear(n) == RemoveNoteCommand(t, clip.id, n)
           Accents == {Accent(clip.notes[i].id) : i \in there}
           Clears == {Clear(clip.notes[i].id) : i \in there}
<1>1. /\ clip.id \in Names /\ clip.notes \in Seq(Note)
      /\ \A i \in DOMAIN clip.notes : clip.notes[i].id \in Names
  BY NotesTyped DEF Ids
<1>2. \/ there # {} /\ cmds = SetToSeq(Accents)
      \/ there # {} /\ cmds = SetToSeq(Clears)
      \/ \E i \in {1} \cap DOMAIN NewNotes : cmds = <<AddNoteCommand(t, clip.id, NewNotes[i], draft)>>
  BY DEF StepCommands
<1>3. IsFiniteSet(there)
  <2>1. DOMAIN clip.notes = 1..Len(clip.notes) /\ Len(clip.notes) \in Nat
    BY <1>1
  <2>2. IsFiniteSet(DOMAIN clip.notes)
    BY <2>1, FS_Interval
  <2>3. there \subseteq DOMAIN clip.notes
    OBVIOUS
  <2> HIDE DEF there
  <2> QED
    BY <2>2, <2>3, FS_Subset
<1>4. \A i \in there : clip.notes[i].id \in Names
  BY <1>1
<1> HIDE DEF there
<1>5. Accents \subseteq Commands /\ IsFiniteSet(Accents)
  <2>1. \A i \in there : Accent(clip.notes[i].id) \in Commands
    BY <1>1, <1>4, UpdateNoteTyped DEF Changes
  <2> DEFINE f == [i \in there |-> Accent(clip.notes[i].id)]
  <2>2. f \in Surjection(there, Accents)
    BY DEF Surjection
  <2> HIDE DEF f
  <2>3. IsFiniteSet(Accents)
    BY <1>3, <2>2, FS_Surjection
  <2> QED
    BY <2>1, <2>3
<1>6. Clears \subseteq Commands /\ IsFiniteSet(Clears)
  <2>1. \A i \in there : Clear(clip.notes[i].id) \in Commands
    BY <1>1, <1>4, RemoveNoteTyped
  <2> DEFINE f == [i \in there |-> Clear(clip.notes[i].id)]
  <2>2. f \in Surjection(there, Clears)
    BY DEF Surjection
  <2> HIDE DEF f
  <2>3. IsFiniteSet(Clears)
    BY <1>3, <2>2, FS_Surjection
  <2> QED
    BY <2>1, <2>3
<1>7. ASSUME NEW i \in {1} \cap DOMAIN NewNotes
      PROVE  <<AddNoteCommand(t, clip.id, NewNotes[i], draft)>> \in Seq(Commands)
  <2>1. NewNotes[i] \in Names
    BY UnusedTyped
  <2>2. draft.start \in Int /\ draft.length \in Int /\ draft.pitch \in Int
    BY DEF Draft
  <2>3. AddNoteCommand(t, clip.id, NewNotes[i], draft) \in Commands
    BY <1>1, <2>1, <2>2, AddNoteTyped
  <2> QED
    BY <2>3
<1> HIDE DEF Accents, Clears
<1>8. SetToSeq(Accents) \in Seq(Commands) /\ SetToSeq(Clears) \in Seq(Commands)
  <2>1. SetToSeq(Accents) \in Seq(Accents) /\ SetToSeq(Clears) \in Seq(Clears)
    BY <1>5, <1>6, SetToSeqTyped
  <2> HIDE DEF SetToSeq
  <2> QED
    BY <1>5, <1>6, <2>1
<1> QED
  BY <1>2, <1>7, <1>8

-----------------------------------------------------------------------------
(* The invariant.                                                          *)

SoundEntries == [song : SoundOrNone, sel : Selections, revision : Nat]

StoreSound ==
    /\ shown \in SoundEntries
    /\ undo \in Seq(SoundEntries) /\ redo \in Seq(SoundEntries)
    /\ saved \in SoundOrNone
    /\ selected \in Selections
    /\ StatusHonest

EditingTyped == editing # None => editing.note \in Names

PlayedNotes == [start : Int, end : Int]

SInv ==
    /\ StoreSound
    /\ EditingTyped
    /\ take # None => take \in Takes

LEMMA EntryIs ==
    ASSUME NEW e \in SoundEntries
    PROVE  /\ SoundState(e)
           /\ e.revision \in Nat
           /\ \A n \in Nat : [e EXCEPT !.revision = n] \in SoundEntries
           /\ \A n \in Nat : [e EXCEPT !.revision = n].song = e.song
BY DEF SoundEntries, SoundState

LEMMA SoundIsSong ==
    ASSUME NEW song \in SoundSongs
    PROVE  song \in SoundOrNone /\ song # None
BY NoneAssumption DEF SoundOrNone, SoundSongs

LEMMA CommitSound ==
    ASSUME StoreSound, NEW o, o.song \in SoundSongs, o.sel \in Selections,
           NEW selection \in Selections, Commit(o, selection)
    PROVE  StoreSound'
<1>1. o.song \in SoundOrNone /\ o.song # None
  BY SoundIsSong
<1>2. shown' \in SoundEntries /\ shown'.song = o.song
  BY <1>1, EntryIs DEF Commit, StoreSound, SoundEntries
<1>3. undo' \in Seq(SoundEntries) /\ redo' \in Seq(SoundEntries) /\ selected' \in Selections
  BY DEF Commit, StoreSound
<1>4. saved' \in SoundOrNone /\ StatusHonest'
  <2>1. CASE saved' = o.song /\ status' = [phase |-> "saved", stored |-> o.song # None]
    BY <1>1, <1>2, <2>1 DEF StatusHonest
  <2>2. CASE Refused
    BY <2>2 DEF Refused, StatusHonest, StoreSound
  <2> QED
    BY <2>1, <2>2 DEF Commit, Stored
<1> QED
  BY <1>2, <1>3, <1>4 DEF StoreSound

LEMMA DispatchSound ==
    ASSUME StoreSound, NEW cmds \in Seq(Commands), DispatchAll(cmds)
    PROVE  StoreSound'
<1>1. PICK o \in Outcomes(shown, cmds) : Commit(o, o.sel)
  BY DEF DispatchAll
<1>2. o.song \in SoundSongs /\ o.sel \in Selections
  BY EntryIs, OutcomesSound DEF StoreSound
<1> QED
  BY <1>1, <1>2, CommitSound

LEMMA DispatchOneSound ==
    ASSUME StoreSound, NEW cmd \in Commands, Dispatch(cmd)
    PROVE  StoreSound'
<1>1. <<cmd>> \in Seq(Commands) /\ DispatchAll(<<cmd>>)
  BY DEF Dispatch
<1> QED
  BY <1>1, DispatchSound

LEMMA OpenSound ==
    ASSUME StoreSound, NEW song \in SoundSongs, Open(song), saved' = song,
           status' = [phase |-> "loaded", stored |-> TRUE]
    PROVE  StoreSound'
<1>1. song \in SoundOrNone /\ song # None
  BY SoundIsSong
<1>2. shown' \in SoundEntries /\ shown'.song = song
  BY <1>1, EntryIs DEF Open, StoreSound, SoundEntries, Selections, Nowhere
<1>3. undo' \in Seq(SoundEntries) /\ redo' \in Seq(SoundEntries)
  BY DEF Open, StoreSound
<1>4. selected' \in Selections
  <2> DEFINE first == song.tracks[1]
  <2>1. song.tracks \in Seq(Track)
    BY DEF SoundSongs, Song
  <2>2. CASE song.tracks = <<>>
    BY <2>2 DEF Open, Selections, Nowhere
  <2>3. CASE song.tracks # <<>>
    <3>1. first \in Track
      BY <2>1, <2>3
    <3>2. selected' = <<first.id, IF first.clips = <<>> THEN None ELSE first.clips[1].id>>
      BY <2>3 DEF Open
    <3> HIDE DEF first
    <3>3. first.id \in Names /\ first.clips \in Seq(Clip)
      BY <3>1, ClipsTyped
    <3>4. first.clips # <<>> => first.clips[1].id \in Names
      <4>1. first.clips # <<>> => first.clips[1] \in Clip
        BY <3>3
      <4> QED
        BY <4>1, NotesTyped
    <3> QED
      BY <3>2, <3>3, <3>4 DEF Selections
  <2> QED
    BY <2>2, <2>3
<1>5. StatusHonest'
  BY <1>1, <1>2 DEF StatusHonest
<1> QED
  BY <1>1, <1>2, <1>3, <1>4, <1>5 DEF StoreSound

LEMMA RestoreSound ==
    ASSUME StoreSound, NEW state \in SoundEntries, Restore(state),
           undo' \in Seq(SoundEntries), redo' \in Seq(SoundEntries)
    PROVE  StoreSound'
<1>1. /\ shown' = [state EXCEPT !.revision = shown.revision + 1]
      /\ selected' = state.sel
      /\ Stored(state.song, IF state.song = None THEN "cleared" ELSE "saved")
  BY DEF Restore
<1>2. shown.revision + 1 \in Nat /\ SoundState(state)
  BY EntryIs DEF StoreSound
<1>3. shown' \in SoundEntries /\ shown'.song = state.song
  BY <1>1, <1>2, EntryIs
<1>4. state.song \in SoundOrNone /\ selected' \in Selections
  BY <1>1, <1>2 DEF SoundState
<1>5. saved' \in SoundOrNone /\ StatusHonest'
  <2>1. CASE Refused
    BY <2>1 DEF Refused, StatusHonest, StoreSound
  <2>2. CASE ~Refused /\ state.song = None
    <3>1. saved' = None /\ status' = [phase |-> "cleared", stored |-> FALSE]
      BY <1>1, <2>2 DEF Stored
    <3>2. status'.phase = "cleared" /\ status'.stored = FALSE
      BY <3>1
    <3> QED
      BY <3>1, <3>2 DEF StatusHonest, SoundOrNone
  <2>3. CASE ~Refused /\ state.song # None
    <3>1. saved' = state.song /\ status' = [phase |-> "saved", stored |-> TRUE]
      BY <1>1, <2>3 DEF Stored
    <3>2. status'.phase = "saved" /\ status'.stored = TRUE
      BY <3>1
    <3> QED
      BY <1>3, <1>4, <2>3, <3>1, <3>2 DEF StatusHonest
  <2> QED
    BY <2>1, <2>2, <2>3
<1> QED
  BY <1>3, <1>4, <1>5 DEF StoreSound

LEMMA UndoSound ==
    ASSUME StoreSound, Undo \/ Redo
    PROVE  StoreSound'
<1>1. CASE Undo
  <2>1. undo # <<>> /\ Restore(Last(undo)) /\ undo' = Front(undo) /\ redo' = <<shown>> \o redo
    BY <1>1 DEF Undo
  <2>2. undo \in Seq(SoundEntries) /\ redo \in Seq(SoundEntries) /\ shown \in SoundEntries
    BY DEF StoreSound
  <2>3. Last(undo) \in SoundEntries
    BY <2>1, <2>2 DEF Last
  <2>4. Front(undo) \in Seq(SoundEntries)
    BY <2>1, <2>2, SubSeqProperties DEF Front
  <2>5. <<shown>> \o redo \in Seq(SoundEntries)
    BY <2>2, ConcatProperties
  <2> QED
    BY <2>1, <2>3, <2>4, <2>5, RestoreSound
<1>2. CASE Redo
  <2>1. redo # <<>> /\ Restore(Head(redo)) /\ undo' = Append(undo, shown) /\ redo' = Tail(redo)
    BY <1>2 DEF Redo
  <2>2. undo \in Seq(SoundEntries) /\ redo \in Seq(SoundEntries) /\ shown \in SoundEntries
    BY DEF StoreSound
  <2>3. Head(redo) \in SoundEntries /\ Tail(redo) \in Seq(SoundEntries)
    BY <2>1, <2>2
  <2>4. Append(undo, shown) \in Seq(SoundEntries)
    BY <2>2
  <2> QED
    BY <2>1, <2>3, <2>4, RestoreSound
<1> QED
  BY <1>1, <1>2

-----------------------------------------------------------------------------
(* The handlers.                                                           *)

LEMMA NewNames ==
    /\ NewSongs # <<>> => NewSongs[1] \in Names
    /\ NewTracks # <<>> => NewTracks[1] \in Names
    /\ NewClips # <<>> => NewClips[1] \in Names
    /\ NewNotes # <<>> => NewNotes[1] \in Names
    /\ \A n \in Nat : Len(NewNotes) >= n => \A i \in 1..n : NewNotes[i] \in Names
    /\ Len(NewClips) > 1 => NewClips # <<>> /\ NewClips[2] \in Names
<1> HIDE DEF NewSongs, NewTracks, NewClips, NewNotes
<1> QED
  BY UnusedTyped

LEMMA DraftIs ==
    ASSUME NEW draft \in Drafts
    PROVE  /\ draft \in Draft /\ draft \in Changes
           /\ draft.start \in Int /\ draft.length \in Int /\ draft.pitch \in Int
<1>1. draft \in Draft
  BY StoreAssumption DEF Draft
<1> QED
  BY <1>1 DEF Draft, Changes

LEMMA CreateDemoSound ==
    ASSUME StoreSound, CreateDemo
    PROVE  StoreSound'
<1>1. PICK draft \in Drafts :
          LET t == NewTracks[1]
              cmds == <<[type |-> "CreateSong", id |-> NewSongs[1]],
                        AddTrackCommand(t),
                        AddClipCommand(t, NewClips[1], ClipLength),
                        AddNoteCommand(t, NewClips[1], NewNotes[1], draft),
                        AddClipCommand(t, NewClips[2], ClipLength)>>
          IN  \E o \in Outcomes(shown, cmds) : Commit(o, <<t, NewClips[1]>>)
  BY DEF CreateDemo
<1> DEFINE t == NewTracks[1]
           create == [type |-> "CreateSong", id |-> NewSongs[1]]
           track == AddTrackCommand(t)
           clip1 == AddClipCommand(t, NewClips[1], ClipLength)
           note == AddNoteCommand(t, NewClips[1], NewNotes[1], draft)
           clip2 == AddClipCommand(t, NewClips[2], ClipLength)
           cmds == <<create, track, clip1, note, clip2>>
<1>2. /\ NewSongs[1] \in Names /\ t \in Names /\ NewNotes[1] \in Names
      /\ NewClips[1] \in Names /\ NewClips[2] \in Names /\ ClipLength \in Int
  BY NewNames, StoreAssumption DEF CreateDemo
<1>3. create \in Commands /\ track \in Commands
  <2>1. create \in Commands
    BY <1>2 DEF Commands
  <2> QED
    BY <1>2, <2>1, AddTrackTyped
<1>4. clip1 \in Commands /\ clip2 \in Commands /\ note \in Commands
  BY <1>2, AddClipTyped, AddNoteTyped, DraftIs
<1>5. PICK o \in Outcomes(shown, cmds) : Commit(o, <<t, NewClips[1]>>)
  BY <1>1
<1>6. <<t, NewClips[1]>> \in Selections
  BY <1>2 DEF Selections
<1> HIDE DEF create, track, clip1, note, clip2
<1>7. cmds \in Seq(Commands)
  BY <1>3, <1>4
<1> HIDE DEF cmds
<1>8. o.song \in SoundSongs /\ o.sel \in Selections
  BY <1>5, <1>7, EntryIs, OutcomesSound DEF StoreSound
<1> HIDE DEF t
<1> QED
  BY <1>5, <1>6, <1>8, CommitSound

LEMMA AddFirstTrackSound ==
    ASSUME StoreSound, AddFirstTrack
    PROVE  StoreSound'
<1> DEFINE song == NewSong(NewSongs[1])
           first == [song |-> song, sel |-> Nowhere, revision |-> shown.revision + 1]
           cmd == AddTrackCommand(NewTracks[1])
<1>1. /\ NewSongs[1] \in Names /\ NewTracks[1] \in Names
      /\ shown \in SoundEntries /\ shown.revision \in Nat
  BY NewNames, EntryIs DEF AddFirstTrack, StoreSound
<1>2. cmd \in Commands /\ song \in SoundSongs
  BY <1>1, AddTrackTyped, NewSongSound
<1>3. PICK o \in Outcomes(first, <<cmd>>) :
          /\ shown' = [song |-> o.song, sel |-> o.sel, revision |-> shown.revision + 2]
          /\ selected' = o.sel
          /\ \/ Stored(o.song, "saved")
             \/ saved' = song /\ status' = [phase |-> "error", stored |-> TRUE]
  BY DEF AddFirstTrack
<1>4. undo' = undo \o <<shown, first>> /\ redo' = <<>>
  BY DEF AddFirstTrack
<1> HIDE DEF song, cmd
<1>5. song \in SoundOrNone /\ song # None
  BY <1>2, SoundIsSong
<1>6. first \in SoundEntries
  BY <1>1, <1>5 DEF SoundEntries, Selections, Nowhere
<1> HIDE DEF first
<1>7. <<cmd>> \in Seq(Commands) /\ SoundState(first)
  BY <1>2, <1>6, EntryIs
<1>8. o.song \in SoundSongs /\ o.sel \in Selections
  BY <1>3, <1>7, OutcomesSound
<1>9. o.song \in SoundOrNone /\ o.song # None
  BY <1>8, SoundIsSong
<1>10. shown' \in SoundEntries /\ shown'.song = o.song /\ selected' \in Selections
  BY <1>1, <1>3, <1>8, <1>9 DEF SoundEntries
<1>11. undo' \in Seq(SoundEntries) /\ redo' \in Seq(SoundEntries)
  <2>1. <<shown, first>> \in Seq(SoundEntries)
    BY <1>1, <1>6
  <2>2. undo \in Seq(SoundEntries)
    BY DEF StoreSound
  <2> QED
    BY <1>4, <2>1, <2>2, ConcatProperties
<1>12. saved' \in SoundOrNone /\ StatusHonest'
  <2>1. CASE saved' = o.song /\ status' = [phase |-> "saved", stored |-> o.song # None]
    BY <1>9, <1>10, <2>1 DEF StatusHonest
  <2>2. CASE Refused
    BY <2>2 DEF Refused, StatusHonest, StoreSound
  <2>3. CASE saved' = song /\ status' = [phase |-> "error", stored |-> TRUE]
    BY <1>5, <2>3 DEF StatusHonest
  <2> QED
    BY <1>3, <2>1, <2>2, <2>3 DEF Stored
<1> QED
  BY <1>10, <1>11, <1>12 DEF StoreSound

LEMMA AddSound ==
    ASSUME StoreSound, AddTrack \/ AddClip \/ SetTransport \/ SetSelectedTrackInstrument
    PROVE  StoreSound'
<1>1. CASE AddTrack
  BY <1>1, NewNames, AddTrackTyped, DispatchOneSound DEF AddTrack
<1>2. CASE AddClip
  <2>1. PICK t \in IF selected[1] # None THEN {selected[1]}
                   ELSE {Tracks(shown.song)[i].id : i \in {1} \cap DOMAIN Tracks(shown.song)} :
            Dispatch(AddClipCommand(t, NewClips[1], ClipLength))
    BY <1>2 DEF AddClip
  <2>2. t \in Names
    <3>1. CASE selected[1] # None
      BY <2>1, <3>1 DEF StoreSound, Selections
    <3>2. CASE selected[1] = None
      <4>1. shown.song \in SoundOrNone
        BY DEF StoreSound, SoundEntries
      <4>2. t \in Ids(Tracks(shown.song))
        BY <2>1, <3>2 DEF Ids
      <4> QED
        BY <4>1, <4>2, TracksTyped
    <3> QED
      BY <3>1, <3>2
  <2>3. NewClips[1] \in Names /\ ClipLength \in Int
    BY <1>2, NewNames, StoreAssumption DEF AddClip
  <2> QED
    BY <2>1, <2>2, <2>3, AddClipTyped, DispatchOneSound
<1>3. CASE SetTransport
  <2>1. [type |-> "SetTransport", value |-> 0] \in Commands
    BY DEF Commands
  <2> QED
    BY <1>3, <2>1, DispatchOneSound DEF SetTransport
<1>4. CASE SetSelectedTrackInstrument
  <2>1. shown.song \in SoundOrNone
    BY DEF StoreSound, SoundEntries
  <2>2. selected[1] \in Names
    BY <1>4, <2>1, TracksTyped DEF SetSelectedTrackInstrument
  <2>3. [type |-> "SetTrackInstrument", track |-> selected[1]] \in Commands
    BY <2>2 DEF Commands, OfTrack
  <2> QED
    BY <1>4, <2>3, DispatchOneSound DEF SetSelectedTrackInstrument
<1> QED
  BY <1>1, <1>2, <1>3, <1>4

LEMMA DuplicateSound ==
    ASSUME StoreSound, DuplicateSelectedClip \/ ReshapeSelectedClip
    PROVE  StoreSound'
<1>1. shown.song \in SoundOrNone
  BY DEF StoreSound, SoundEntries
<1>2. CASE DuplicateSelectedClip
  <2>1. PICK target \in Target :
            /\ NewClips # <<>> /\ Len(NewNotes) >= Len(target.clip.notes)
            /\ Dispatch([type |-> "DuplicateClip", track |-> target.track,
                         source |-> target.clip.id, clip |-> NewClips[1],
                         notes |-> SubSeq(NewNotes, 1, Len(target.clip.notes))])
    BY <1>2 DEF DuplicateSelectedClip
  <2>2. target.track \in Names /\ target.clip.id \in Names /\ Len(target.clip.notes) \in Nat
    BY <1>1, TargetTyped, NotesTyped
  <2>3. NewClips[1] \in Names
    BY <2>1, NewNames
  <2> DEFINE notes == SubSeq(NewNotes, 1, Len(target.clip.notes))
  <2>4. notes \in Seq(Names)
    BY <2>1, <2>2, UnusedTyped, SubSeqProperties
  <2> HIDE DEF notes
  <2>5. [type |-> "DuplicateClip", track |-> target.track, source |-> target.clip.id,
         clip |-> NewClips[1], notes |-> notes] \in Commands
    BY <2>2, <2>3, <2>4 DEF Commands
  <2> QED
    BY <2>1, <2>5, DispatchOneSound DEF notes
<1>3. CASE ReshapeSelectedClip
  <2>1. PICK target \in Target :
            \/ \E g \in Grids :
                  Dispatch([type |-> "QuantizeClip", track |-> target.track,
                            clip |-> target.clip.id, grid |-> g])
            \/ \E n \in Semitones :
                  Dispatch([type |-> "TransposeClip", track |-> target.track,
                            clip |-> target.clip.id, semitones |-> n])
    BY <1>3 DEF ReshapeSelectedClip
  <2>2. target.track \in Names /\ target.clip.id \in Names
    BY <1>1, TargetTyped, NotesTyped
  <2>3. ASSUME NEW g \in Grids
        PROVE  [type |-> "QuantizeClip", track |-> target.track,
                clip |-> target.clip.id, grid |-> g] \in Commands
    BY <2>2, StoreAssumption DEF Commands
  <2>4. ASSUME NEW n \in Semitones
        PROVE  [type |-> "TransposeClip", track |-> target.track,
                clip |-> target.clip.id, semitones |-> n] \in Commands
    BY <2>2, StoreAssumption DEF Commands
  <2> QED
    BY <2>1, <2>3, <2>4, DispatchOneSound
<1> QED
  BY <1>2, <1>3

LEMMA NotesSound ==
    ASSUME StoreSound, EditingTyped, CommitNoteDraft \/ RemoveNoteFromSelection \/ EditStep
    PROVE  StoreSound' /\ EditingTyped'
<1>1. shown.song \in SoundOrNone
  BY DEF StoreSound, SoundEntries
<1>2. CASE CommitNoteDraft
  <2>1. editing' = None
    BY <1>2 DEF CommitNoteDraft
  <2>2. PICK target \in Target, draft \in Drafts :
          IF editing = None
          THEN /\ NewNotes # <<>>
               /\ Dispatch(AddNoteCommand(target.track, target.clip.id, NewNotes[1], draft))
          ELSE Dispatch([type |-> "UpdateNote", track |-> target.track,
                         clip |-> target.clip.id, id |-> editing.note, changes |-> draft])
    BY <1>2 DEF CommitNoteDraft
  <2>3. target.track \in Names /\ target.clip.id \in Names
    BY <1>1, TargetTyped, NotesTyped
  <2>4. CASE editing = None
    <3>1. AddNoteCommand(target.track, target.clip.id, NewNotes[1], draft) \in Commands
      BY <2>2, <2>3, <2>4, NewNames, DraftIs, AddNoteTyped
    <3> QED
      BY <2>1, <2>2, <2>4, <3>1, DispatchOneSound DEF EditingTyped
  <2>5. CASE editing # None
    <3>1. [type |-> "UpdateNote", track |-> target.track,
           clip |-> target.clip.id, id |-> editing.note, changes |-> draft] \in Commands
      BY <2>3, <2>5, DraftIs, UpdateNoteTyped DEF EditingTyped
    <3> QED
      BY <2>1, <2>2, <2>5, <3>1, DispatchOneSound DEF EditingTyped
  <2> QED
    BY <2>4, <2>5
<1>3. CASE RemoveNoteFromSelection
  <2>1. PICK target, n :
            /\ target \in Target /\ n \in Ids(target.clip.notes)
            /\ Dispatch(RemoveNoteCommand(target.track, target.clip.id, n))
            /\ editing' = IF editing # None /\ editing.note = n THEN None ELSE editing
    BY <1>3 DEF RemoveNoteFromSelection
  <2>2. target.track \in Names /\ target.clip.id \in Names /\ n \in Names
    BY <1>1, <2>1, TargetTyped, NotesTyped
  <2>3. RemoveNoteCommand(target.track, target.clip.id, n) \in Commands
    BY <2>2, RemoveNoteTyped
  <2> QED
    BY <2>1, <2>3, DispatchOneSound DEF EditingTyped
<1>4. CASE EditStep
  <2>1. PICK track, clip, draft, cmds :
            /\ track \in SelectedTrack /\ clip \in FirstOr(track.clips, selected[2])
            /\ draft \in Drafts /\ cmds \in StepCommands(track.id, clip, draft)
            /\ IF Len(cmds) = 1 THEN Dispatch(cmds[1]) /\ UNCHANGED editing
               ELSE DispatchBatch(cmds)
    BY <1>4 DEF EditStep
  <2>2. track.id \in Names /\ clip \in Clip /\ draft \in Draft
    BY <1>1, <2>1, SelectedTrackTyped, ClipsTyped, DraftIs
  <2>3. cmds \in Seq(Commands)
    BY <2>1, <2>2, StepTyped
  <2>4. CASE Len(cmds) = 1
    <3>1. cmds[1] \in Commands
      BY <2>3, <2>4
    <3> QED
      BY <2>1, <2>4, <3>1, DispatchOneSound DEF EditingTyped
  <2>5. CASE Len(cmds) # 1
    BY <2>1, <2>3, <2>5, DispatchSound DEF DispatchBatch, EditingTyped
  <2> QED
    BY <2>4, <2>5
<1> QED
  BY <1>2, <1>3, <1>4

LEMMA LoadSound ==
    ASSUME StoreSound, EditingTyped, LoadSavedSong \/ ImportSong
    PROVE  StoreSound' /\ EditingTyped'
<1>1. ASSUME Reported("error") \/ Refused, UNCHANGED <<shown, undo, redo, selected, editing>>
      PROVE  StoreSound' /\ EditingTyped'
  <2>1. saved' = saved /\ status' = [phase |-> "error", stored |-> saved # None]
    BY <1>1 DEF Reported, Refused
  <2>2. StatusHonest'
    BY <2>1 DEF StatusHonest
  <2> QED
    BY <1>1, <2>1, <2>2 DEF StoreSound, EditingTyped
<1>2. ASSUME NEW song \in SoundSongs, Open(song), saved' = song,
             status' = [phase |-> "loaded", stored |-> TRUE]
      PROVE  StoreSound' /\ EditingTyped'
  BY <1>2, OpenSound DEF Open, EditingTyped
<1>3. CASE LoadSavedSong
  <2>1. CASE saved = None
    BY <1>1, <1>3, <2>1 DEF LoadSavedSong
  <2>2. CASE saved # None
    <3>1. saved \in SoundSongs
      BY <2>2 DEF StoreSound, SoundOrNone
    <3> QED
      BY <1>2, <1>3, <2>2, <3>1 DEF LoadSavedSong, Reported
  <2> QED
    BY <2>1, <2>2
<1>4. CASE ImportSong
  <2>1. PICK song \in Importable :
            \/ Open(song) /\ saved' = song /\ status' = [phase |-> "loaded", stored |-> TRUE]
            \/ Refused /\ UNCHANGED <<shown, undo, redo, selected, editing, live>>
    BY <1>4 DEF ImportSong
  <2>2. song \in SoundSongs
    BY StoreAssumption DEF SoundSongs
  <2> QED
    BY <1>1, <1>2, <2>1, <2>2
<1> QED
  BY <1>3, <1>4

LEMMA EditsSound ==
    ASSUME StoreSound, EditingTyped, Edits
    PROVE  StoreSound' /\ EditingTyped'
<1>1. CASE CreateDemo
  BY <1>1, CreateDemoSound DEF CreateDemo, EditingTyped
<1>2. CASE AddFirstTrack
  BY <1>2, AddFirstTrackSound DEF AddFirstTrack, EditingTyped
<1>3. CASE AddTrack \/ AddClip \/ SetTransport \/ SetSelectedTrackInstrument
  BY <1>3, AddSound
     DEF AddTrack, AddClip, SetTransport, SetSelectedTrackInstrument, EditingTyped
<1>4. CASE DuplicateSelectedClip \/ ReshapeSelectedClip
  BY <1>4, DuplicateSound DEF DuplicateSelectedClip, ReshapeSelectedClip, EditingTyped
<1>5. CASE CommitNoteDraft \/ RemoveNoteFromSelection \/ EditStep
  BY <1>5, NotesSound
<1>6. CASE Undo \/ Redo
  BY <1>6, UndoSound DEF Undo, Redo, Restore, EditingTyped
<1>7. CASE LoadSavedSong \/ ImportSong
  BY <1>7, LoadSound
<1> QED
  BY <1>1, <1>2, <1>3, <1>4, <1>5, <1>6, <1>7 DEF Edits

(***************************************************************************)
(* A handler that leaves the song and the storage alone.                   *)
(***************************************************************************)
LEMMA UnchangedSound ==
    ASSUME StoreSound, UNCHANGED <<shown, undo, redo, saved, status>>, selected' \in Selections
    PROVE  StoreSound'
BY DEF StoreSound, StatusHonest

LEMMA PlayerSound ==
    ASSUME StoreSound, EditingTyped, PlayerStep
    PROVE  StoreSound' /\ EditingTyped'
<1>1. shown.song \in SoundOrNone /\ selected \in Selections
  BY DEF StoreSound, SoundEntries
<1>2. CASE Edits
  BY <1>2, EditsSound
<1>3. CASE EditNote
  <2>1. PICK target, n :
            /\ target \in Target /\ n \in Ids(target.clip.notes)
            /\ editing' = [note |-> n, track |-> target.track, clip |-> target.clip.id]
    BY <1>3 DEF EditNote
  <2>2. n \in Names
    BY <1>1, <2>1, TargetTyped, NotesTyped
  <2>3. EditingTyped'
    BY <2>1, <2>2 DEF EditingTyped
  <2> QED
    BY <1>1, <1>3, <2>3, UnchangedSound DEF EditNote
<1>4. CASE CancelNoteEdit
  BY <1>1, <1>4, UnchangedSound DEF CancelNoteEdit, EditingTyped
<1>5. CASE SelectTrack
  <2>1. PICK t \in Ids(Tracks(shown.song)) : Select(<<t, None>>)
    BY <1>5 DEF SelectTrack
  <2>2. <<t, None>> \in Selections
    BY <1>1, <2>1, TracksTyped DEF Selections
  <2> QED
    BY <2>1, <2>2, UnchangedSound DEF Select, EditingTyped
<1>6. CASE SelectClip
  <2>1. PICK clip \in ClipsOf(shown.song) : Select(clip)
    BY <1>6 DEF SelectClip
  <2>2. clip \in Selections
    BY <1>1, <2>1, ClipsOfTyped
  <2> QED
    BY <2>1, <2>2, UnchangedSound DEF Select, EditingTyped
<1>7. CASE SaveSong
  <2>1. UNCHANGED <<shown, undo, redo, selected, editing>>
    BY <1>7 DEF SaveSong
  <2>2. saved' \in SoundOrNone /\ StatusHonest'
    <3>1. CASE saved' = saved /\ status' = [phase |-> "error", stored |-> saved # None]
      BY <3>1 DEF StatusHonest, StoreSound
    <3>2. CASE /\ shown.song # None /\ saved' = shown.song
               /\ status' = [phase |-> "saved", stored |-> shown.song # None]
      BY <1>1, <2>1, <3>2 DEF StatusHonest
    <3> QED
      BY <1>7, <3>1, <3>2 DEF SaveSong, Reported, Stored, Refused
  <2> QED
    BY <2>1, <2>2 DEF StoreSound, EditingTyped
<1>8. CASE ClearSavedSong
  <2>1. UNCHANGED <<shown, undo, redo, selected, editing>>
    BY <1>8 DEF ClearSavedSong
  <2>2. saved' \in SoundOrNone /\ StatusHonest'
    <3>1. CASE saved' = saved /\ status' = [phase |-> "error", stored |-> saved # None]
      BY <3>1 DEF StatusHonest, StoreSound
    <3>2. CASE saved' = None /\ status' = [phase |-> "cleared", stored |-> None # None]
      BY <3>2 DEF StatusHonest, SoundOrNone
    <3> QED
      BY <1>8, <3>1, <3>2 DEF ClearSavedSong, Stored, Refused
  <2> QED
    BY <2>1, <2>2 DEF StoreSound, EditingTyped
<1>9. CASE StartLive \/ ClipStarts \/ StopLive
  BY <1>1, <1>9, UnchangedSound DEF StartLive, ClipStarts, StopLive, EditingTyped
<1> QED
  BY <1>2, <1>3, <1>4, <1>5, <1>6, <1>7, <1>8, <1>9 DEF PlayerStep

(***************************************************************************)
(* The recorder.                                                           *)
(***************************************************************************)
LEMMA ReleasedTyped ==
    ASSUME NEW work \in Takes, NEW beat \in Int
    PROVE  T!Released(work, beat) \in Takes
<1>1. CASE work.held = None
  BY <1>1 DEF T!Released
<1>2. CASE work.held # None
  <2> DEFINE note == [start |-> work.held, end |-> beat]
             notes == Append(work.notes, note)
  <2>1. note \in PlayedNotes /\ work.notes \in Seq(PlayedNotes)
    BY <1>2 DEF Takes, PlayedNotes
  <2> HIDE DEF note
  <2>2. notes \in Seq(PlayedNotes)
    BY <2>1
  <2>3. T!Released(work, beat) = [work EXCEPT !.held = None, !.notes = notes]
    BY <1>2 DEF T!Released, Takes, note
  <2> HIDE DEF notes
  <2> QED
    BY <2>2, <2>3 DEF Takes, PlayedNotes
<1> QED
  BY <1>1, <1>2

LEMMA TakeMovesTyped ==
    ASSUME NEW work \in Takes, NEW beat \in Int
    PROVE  /\ T!Advanced(work, beat) \in Takes
           /\ T!Struck(work, beat) \in Takes
<1>1. T!Released(work, beat) \in Takes /\ T!Released(work, Loop) \in Takes
  BY ReleasedTyped, LoopAssumption
<1>2. ASSUME NEW moved \in Takes
      PROVE  /\ [moved EXCEPT !.at = beat] \in Takes
             /\ [moved EXCEPT !.held = beat] \in Takes
  BY <1>2 DEF Takes
<1>3. T!Advanced(work, beat) \in Takes
  BY <1>1, <1>2 DEF T!Advanced
<1>4. T!Struck(work, beat) \in Takes
  BY <1>1, <1>2 DEF T!Struck
<1> QED
  BY <1>3, <1>4

LEMMA QuantizedTyped ==
    ASSUME NEW note \in PlayedNotes
    PROVE  /\ T!Quantized(note).start \in Int
           /\ T!Quantized(note).length \in Int
           /\ T!Quantized(note).pitch \in Int
<1>1. /\ note.start \in Int /\ note.end \in Int /\ Grid \in Nat \ {0} /\ Loop \in Nat \ {0}
  BY LoopAssumption DEF PlayedNotes
<1> DEFINE start == (((2 * note.start + Grid) \div (2 * Grid)) * Grid) % Loop
           played == IF note.end - note.start < Grid THEN Grid ELSE note.end - note.start
<1>2. start \in Int /\ played \in Int
  BY <1>1
<1>3. T!Quantized(note) =
          [start |-> start, pitch |-> 0,
           length |-> IF played < Loop - start THEN played ELSE Loop - start]
  BY DEF T!Quantized
<1> HIDE DEF start, played
<1> QED
  BY <1>1, <1>2, <1>3

LEMMA TakeCommandsTyped ==
    ASSUME NEW done \in Takes, Len(NewNotes) >= Len(done.notes)
    PROVE  TakeCommands(done) \in Seq(Commands)
<1> DEFINE notes == [i \in DOMAIN done.notes |->
                        AddNoteCommand(done.track, done.clip, NewNotes[i], T!TakeNotes(done)[i])]
           clip == IF done.mode = "record"
                   THEN <<AddClipCommand(done.track, done.clip, Loop)>> ELSE <<>>
<1>1. /\ done.track \in Names /\ done.clip \in Names /\ done.notes \in Seq(PlayedNotes)
      /\ Loop \in Int
  BY LoopAssumption DEF Takes, PlayedNotes
<1>2. DOMAIN done.notes = 1..Len(done.notes) /\ Len(done.notes) \in Nat
  BY <1>1
<1>3. ASSUME NEW i \in 1..Len(done.notes)
      PROVE  notes[i] \in Commands
  <2>1. NewNotes[i] \in Names
    BY <1>2, NewNames
  <2>2. done.notes[i] \in PlayedNotes
    BY <1>1
  <2>3. T!TakeNotes(done)[i] = T!Quantized(done.notes[i])
    BY <1>2 DEF T!TakeNotes
  <2> DEFINE draft == T!TakeNotes(done)[i]
  <2>4. draft.start \in Int /\ draft.length \in Int /\ draft.pitch \in Int
    BY <2>2, <2>3, QuantizedTyped
  <2>5. notes[i] = AddNoteCommand(done.track, done.clip, NewNotes[i], draft)
    BY <1>2
  <2> HIDE DEF draft, notes
  <2> QED
    BY <1>1, <2>1, <2>4, <2>5, AddNoteTyped
<1>4. notes = [i \in 1..Len(done.notes) |-> notes[i]]
  BY <1>2
<1> HIDE DEF notes
<1>5. notes \in Seq(Commands)
  BY <1>2, <1>3, <1>4
<1>6. AddClipCommand(done.track, done.clip, Loop) \in Commands
  BY <1>1, AddClipTyped
<1>7. clip \in Seq(Commands)
  BY <1>6
<1>8. TakeCommands(done) = clip \o notes
  BY DEF TakeCommands, notes
<1> HIDE DEF clip
<1> QED
  BY <1>5, <1>7, <1>8, ConcatProperties

(***************************************************************************)
(* A take that went on is for the same clip of the same song.              *)
(***************************************************************************)
SameTake(work, next) ==
    /\ next \in Takes
    /\ next.mode = work.mode /\ next.track = work.track /\ next.clip = work.clip
    /\ next.revision = work.revision /\ next.song = work.song

LEMMA TakeKeeps ==
    ASSUME NEW work \in Takes, NEW beat \in Int
    PROVE  /\ SameTake(work, T!Released(work, beat))
           /\ SameTake(work, T!Advanced(work, beat))
           /\ SameTake(work, T!Struck(work, beat))
<1>1. ASSUME NEW b \in Int
      PROVE  SameTake(work, T!Released(work, b))
  <2>1. T!Released(work, b) \in Takes
    BY ReleasedTyped
  <2>2. CASE T!Released(work, b) = work
    BY <2>1, <2>2 DEF SameTake
  <2>3. CASE T!Released(work, b) =
                 [work EXCEPT !.held = None,
                              !.notes = Append(@, [start |-> work.held, end |-> b])]
    BY <2>1, <2>3 DEF SameTake, Takes
  <2> QED
    BY <2>2, <2>3 DEF T!Released
<1>2. ASSUME NEW moved, SameTake(work, moved)
      PROVE  /\ SameTake(work, [moved EXCEPT !.at = beat])
             /\ SameTake(work, [moved EXCEPT !.held = beat])
  BY <1>2 DEF SameTake, Takes
<1>3. SameTake(work, work)
  BY DEF SameTake
<1>4. SameTake(work, T!Advanced(work, beat))
  BY <1>1, <1>2, <1>3, LoopAssumption DEF T!Advanced
<1>5. SameTake(work, T!Struck(work, beat))
  BY <1>1, <1>2 DEF T!Struck
<1> QED
  BY <1>1, <1>4, <1>5

(***************************************************************************)
(* What a step of the recorder comes to.                                   *)
(***************************************************************************)
LEMMA RecorderCases ==
    ASSUME SInv, RecorderStep
    PROVE  /\ take # None /\ take \in Takes
           /\ \/ CancelTake
              \/ \E next : SameTake(take, next) /\ (FinishTake(next) \/ Follow(next))
<1>1. take # None /\ take \in Takes /\ take.at \in Int /\ Loop \in Int
  BY LoopAssumption DEF RecorderStep, ObserveTake, CaptureInput, DiscardTake, SInv, Takes
<1>2. CASE ObserveTake /\ ~CancelTake
  <2>1. PICK beat \in (take.at + 1)..Loop : Follow(T!Advanced(take, beat))
    BY <1>2 DEF ObserveTake
  <2>2. beat \in Int
    BY <1>1
  <2> QED
    BY <1>1, <2>1, <2>2, TakeKeeps
<1>3. CASE CaptureInput /\ ~CancelTake
  <2>1. PICK beat \in IF live.phase # "idle" THEN take.at..Loop ELSE {take.at} :
            LET ready == T!Advanced(take, beat)
            IN  \/ FinishTake(ready)
                \/ Follow(T!Struck(ready, beat))
                \/ Follow(T!Released(ready, beat))
    BY <1>3 DEF CaptureInput
  <2>2. beat \in Int
    BY <1>1, <2>1
  <2> DEFINE ready == T!Advanced(take, beat)
  <2>3. SameTake(take, ready)
    BY <1>1, <2>2, TakeKeeps
  <2>4. FinishTake(ready) \/ Follow(T!Struck(ready, beat)) \/ Follow(T!Released(ready, beat))
    BY <2>1
  <2> HIDE DEF ready
  <2>5. SameTake(ready, T!Struck(ready, beat)) /\ SameTake(ready, T!Released(ready, beat))
    BY <2>2, <2>3, TakeKeeps DEF SameTake
  <2>6. SameTake(take, T!Struck(ready, beat)) /\ SameTake(take, T!Released(ready, beat))
    BY <2>3, <2>5 DEF SameTake
  <2> QED
    BY <1>1, <2>3, <2>4, <2>6
<1>4. CASE DiscardTake
  BY <1>1, <1>4 DEF DiscardTake
<1> QED
  BY <1>1, <1>2, <1>3, <1>4 DEF RecorderStep

LEMMA CancelSound ==
    ASSUME SInv, CancelTake
    PROVE  SInv'
BY UnchangedSound DEF SInv, CancelTake, NotEdited, EditingTyped, StoreSound

LEMMA FinishSound ==
    ASSUME SInv, NEW done \in Takes, FinishTake(done)
    PROVE  SInv'
<1>1. CASE CancelTake
  BY <1>1, CancelSound
<1>2. CASE TakeApplies(done) /\ ~CancelTake
  <2>1. PICK o \in Outcomes(shown, TakeCommands(done)) : Commit(o, o.sel)
    BY <1>2 DEF FinishTake
  <2>2. editing' = None /\ take' = None
    BY <1>2 DEF FinishTake
  <2>3. TakeCommands(done) \in Seq(Commands)
    BY <1>2, TakeCommandsTyped DEF TakeApplies
  <2>4. o.song \in SoundSongs /\ o.sel \in Selections
    BY <2>1, <2>3, EntryIs, OutcomesSound DEF SInv, StoreSound
  <2>5. StoreSound'
    BY <2>1, <2>4, CommitSound DEF SInv
  <2> QED
    BY <2>2, <2>5 DEF SInv, EditingTyped
<1> QED
  BY <1>1, <1>2 DEF FinishTake

LEMMA FollowSound ==
    ASSUME SInv, NEW next \in Takes, Follow(next)
    PROVE  SInv'
<1>1. CASE FinishTake(next)
  BY <1>1, FinishSound
<1>2. CASE CancelTake
  BY <1>2, CancelSound
<1>3. CASE Continue(next)
  BY <1>3, UnchangedSound DEF SInv, Continue, NotEdited, EditingTyped, StoreSound
<1> QED
  BY <1>1, <1>2, <1>3 DEF Follow

LEMMA RecorderSongs ==
    ASSUME SInv, RecorderStep
    PROVE  SInv'
<1>1. CASE CancelTake
  BY <1>1, CancelSound
<1>2. CASE \E next : SameTake(take, next) /\ (FinishTake(next) \/ Follow(next))
  BY <1>2, FinishSound, FollowSound DEF SameTake
<1> QED
  BY <1>1, <1>2, RecorderCases

(***************************************************************************)
(* A take as it is queued.                                                 *)
(***************************************************************************)
LEMMA PreparedTake ==
    ASSUME NEW mode, NEW t, NEW c
    PROVE  Prepared(T!NewTake(mode, t, c)) =
               [mode |-> mode, track |-> t, clip |-> c, at |-> -1, held |-> None, notes |-> <<>>,
                revision |-> shown.revision, song |-> shown.song]
<1> DEFINE new == T!NewTake(mode, t, c)
<1>1. new = [mode |-> mode, track |-> t, clip |-> c, at |-> -1, held |-> None, notes |-> <<>>]
  BY DEF T!NewTake
<1>2. /\ DOMAIN new = {"mode", "track", "clip", "at", "held", "notes"}
      /\ DOMAIN Now = {"revision", "song"}
      /\ Now.revision = shown.revision /\ Now.song = shown.song
      /\ new.mode = mode /\ new.track = t /\ new.clip = c /\ new.at = -1
      /\ new.held = None /\ new.notes = <<>>
  BY <1>1 DEF Now
<1> HIDE DEF new
<1>3. Prepared(new) =
          [f \in DOMAIN new \cup DOMAIN Now |-> IF f \in DOMAIN Now THEN Now[f] ELSE new[f]]
  BY DEF Prepared
<1> HIDE DEF Now
<1>4. Prepared(new) =
          [mode |-> mode, track |-> t, clip |-> c, at |-> -1, held |-> None, notes |-> <<>>,
           revision |-> shown.revision, song |-> shown.song]
  BY <1>2, <1>3
<1> QED
  BY <1>4 DEF new

LEMMA QueueTyped ==
    ASSUME SInv, QueueTake
    PROVE  take' \in Takes
<1>1. shown.song \in SoundOrNone
  BY DEF SInv, StoreSound, SoundEntries
<1>2. ASSUME NEW mode \in {"record", "overdub"}, NEW t \in Names, NEW c \in Names,
             take' = Prepared(T!NewTake(mode, t, c))
      PROVE  take' \in Takes
  <2>1. take' = [mode |-> mode, track |-> t, clip |-> c, at |-> -1, held |-> None,
                 notes |-> <<>>, revision |-> shown.revision, song |-> shown.song]
    BY <1>2, PreparedTake
  <2>2. shown.revision \in Nat /\ shown.song \in Song \cup {None}
    BY <1>1, EntryIs DEF SInv, StoreSound, SoundOrNone, SoundSongs
  <2> QED
    BY <1>2, <2>1, <2>2 DEF Takes
<1>3. PICK track \in LauncherTrack :
          \/ \E clip \in SelectedSlot(track) : Queue(T!NewTake("overdub", track.id, clip.id), clip.id)
          \/ /\ NewClips # <<>>
             /\ Queue(T!NewTake("record", track.id, NewClips[1]), None)
  BY DEF QueueTake
<1>4. track \in SelectedTrack
  BY DEF LauncherTrack
<1>5. track \in Track /\ \A clip \in FirstOr(track.clips, selected[2]) : clip \in Clip
  BY <1>1, <1>4, SelectedTrackTyped
<1>6. CASE \E clip \in SelectedSlot(track) :
              Queue(T!NewTake("overdub", track.id, clip.id), clip.id)
  <2>1. PICK clip \in SelectedSlot(track) : take' = Prepared(T!NewTake("overdub", track.id, clip.id))
    BY <1>6 DEF Queue
  <2>2. clip \in Clip
    BY <1>5 DEF SelectedSlot
  <2>3. track.id \in Names /\ clip.id \in Names
    BY <1>5, <2>2, ClipsTyped, NotesTyped
  <2> QED
    BY <1>2, <2>1, <2>3
<1>7. CASE NewClips # <<>> /\ Queue(T!NewTake("record", track.id, NewClips[1]), None)
  <2>1. track.id \in Names /\ NewClips[1] \in Names
    BY <1>5, <1>7, ClipsTyped, NewNames
  <2> QED
    BY <1>2, <1>7, <2>1 DEF Queue
<1> QED
  BY <1>3, <1>6, <1>7

LEMMA QueueSound ==
    ASSUME SInv, QueueTake
    PROVE  SInv'
<1>1. StoreSound' /\ EditingTyped'
  BY UnchangedSound DEF SInv, QueueTake, NotEdited, EditingTyped, StoreSound
<1> QED
  BY <1>1, QueueTyped DEF SInv

LEMMA ImportTyped ==
    ASSUME NEW draft \in Drafts,
           NewSongs # <<>>, NewTracks # <<>>, NewClips # <<>>, NewNotes # <<>>
    PROVE  ImportCommands(draft) \in Seq(Commands)
<1> DEFINE create == IF shown.song = None
                     THEN <<[type |-> "CreateSong", id |-> NewSongs[1]]>> ELSE <<>>
           track == AddTrackCommand(NewTracks[1])
           clip == AddClipCommand(NewTracks[1], NewClips[1], ClipLength)
           note == AddNoteCommand(NewTracks[1], NewClips[1], NewNotes[1], draft)
<1>1. NewSongs[1] \in Names /\ NewTracks[1] \in Names /\ NewClips[1] \in Names
      /\ NewNotes[1] \in Names /\ ClipLength \in Int
  BY NewNames, StoreAssumption
<1>2. create \in Seq(Commands)
  <2>1. [type |-> "CreateSong", id |-> NewSongs[1]] \in Commands
    BY <1>1 DEF Commands
  <2> QED
    BY <2>1
<1>3. track \in Commands /\ clip \in Commands /\ note \in Commands
  BY <1>1, AddTrackTyped, AddClipTyped, AddNoteTyped, DraftIs
<1>4. ImportCommands(draft) = create \o <<track, clip, note>>
  BY DEF ImportCommands
<1> HIDE DEF create, track, clip, note
<1>5. <<track, clip, note>> \in Seq(Commands)
  BY <1>3
<1> QED
  BY <1>2, <1>4, <1>5, ConcatProperties

(***************************************************************************)
(* Every step keeps the invariant.                                         *)
(***************************************************************************)
LEMMA InitSInv == Init => SInv
<1> SUFFICES ASSUME Init PROVE SInv
  OBVIOUS
<1> USE DEF Init, StoreInit
<1>1. Nowhere \in Selections /\ None \in SoundOrNone
  BY DEF Nowhere, Selections, SoundOrNone
<1>2. saved \in SoundOrNone
  BY StoreAssumption DEF SoundOrNone, SoundSongs
<1>3. shown \in SoundEntries /\ selected \in Selections
  BY <1>1 DEF SoundEntries
<1>4. StatusHonest
  BY DEF StatusHonest
<1> QED
  BY <1>2, <1>3, <1>4 DEF SInv, StoreSound, EditingTyped

LEMMA NextSInv == SInv /\ [Next]_vars => SInv'
<1> SUFFICES ASSUME SInv, [Next]_vars PROVE SInv'
  OBVIOUS
<1>1. CASE UNCHANGED vars
  BY <1>1 DEF vars, storeVars, SInv, StoreSound, StatusHonest, EditingTyped
<1>2. CASE PlayerStep
  BY <1>2, PlayerSound DEF PlayerStep, SInv
<1>3. CASE QueueTake
  BY <1>3, QueueSound
<1>4. CASE ObserveTake \/ CaptureInput \/ DiscardTake
  BY <1>4, RecorderSongs DEF RecorderStep
<1>5. CASE UndoLastTake
  BY <1>5, UndoSound DEF UndoLastTake, Undo, Restore, SInv, EditingTyped
<1>6. CASE ChooseMidiFile \/ MidiFileRead \/ DiscardMidiImport \/ InspectRemoteSession
  BY <1>6, UnchangedSound
     DEF ChooseMidiFile, MidiFileRead, DiscardMidiImport, InspectRemoteSession, storeVars,
         SInv, StoreSound, EditingTyped
<1>7. CASE AcceptMidiImport
  <2>1. PICK draft \in Drafts : DispatchAll(ImportCommands(draft))
    BY <1>7 DEF AcceptMidiImport
  <2>2. ImportCommands(draft) \in Seq(Commands)
    BY <1>7, ImportTyped DEF AcceptMidiImport
  <2>3. StoreSound'
    BY <2>1, <2>2, DispatchSound DEF SInv
  <2> QED
    BY <1>7, <2>3 DEF AcceptMidiImport, SInv, EditingTyped
<1>8. CASE ExecuteRemoteCommandBatch
  <2>1. PICK cmds \in Batches : DispatchBatch(cmds) \/ UNCHANGED storeVars
    BY <1>8 DEF ExecuteRemoteCommandBatch
  <2>2. cmds \in Seq(Commands) /\ take' = take
    BY <1>8, StoreAssumption DEF ExecuteRemoteCommandBatch
  <2>3. CASE DispatchBatch(cmds)
    BY <2>2, <2>3, DispatchSound DEF DispatchBatch, SInv, EditingTyped
  <2>4. CASE UNCHANGED storeVars
    BY <2>2, <2>4, UnchangedSound DEF storeVars, SInv, StoreSound, EditingTyped
  <2> QED
    BY <2>1, <2>3, <2>4
<1>9. CASE ReloadPage
  <2>1. Nowhere \in Selections /\ None \in SoundOrNone
    BY DEF Nowhere, Selections, SoundOrNone
  <2>2. /\ shown' \in SoundEntries /\ selected' \in Selections
        /\ undo' \in Seq(SoundEntries) /\ redo' \in Seq(SoundEntries)
        /\ saved' = saved /\ editing' = None /\ take' = None
    BY <1>9, <2>1 DEF ReloadPage, ReloadStore, SoundEntries
  <2>3. StatusHonest'
    BY <1>9, <2>2 DEF ReloadPage, ReloadStore, StatusHonest
  <2> QED
    BY <2>2, <2>3 DEF SInv, StoreSound, EditingTyped
<1> QED
  BY <1>1, <1>2, <1>3, <1>4, <1>5, <1>6, <1>7, <1>8, <1>9 DEF Next

(***************************************************************************)
(* Every state has sound songs wherever it keeps one, and says truly what  *)
(* the storage holds.                                                      *)
(***************************************************************************)
THEOREM SoundInvariance == Spec => []SInv
<1>1. Init => SInv
  BY InitSInv
<1>2. SInv /\ [Next]_vars => SInv'
  BY NextSInv
<1> QED
  BY <1>1, <1>2, PTL DEF Spec

(***************************************************************************)
(* Property SongsSound: whatever sequence of edits led to it, every song   *)
(* that is shown, saved or can come back by undo and redo is one that      *)
(* deserializeSong accepts.                                                *)
(***************************************************************************)
LEMMA SInvSongs == SInv => SongsSound
<1> SUFFICES ASSUME SInv, NEW song \in (ToSet(Line) \cup {saved}) \ {None}
             PROVE  SongSound(song)
  BY DEF SongsSound
<1>1. /\ shown \in SoundEntries /\ saved \in SoundOrNone
      /\ undo \in Seq(SoundEntries) /\ redo \in Seq(SoundEntries)
  BY DEF SInv, StoreSound
<1>2. shown.song \in SoundOrNone
  BY <1>1 DEF SoundEntries
<1>3. ASSUME NEW states \in Seq(SoundEntries)
      PROVE  Songs(states) \in Seq(SoundOrNone)
  <2>1. \A i \in 1..Len(states) : states[i] \in SoundEntries
    OBVIOUS
  <2>2. \A i \in 1..Len(states) : states[i].song \in SoundOrNone
    BY <2>1 DEF SoundEntries
  <2> QED
    BY <2>2 DEF Songs
<1>4. Songs(undo) \in Seq(SoundOrNone) /\ Songs(redo) \in Seq(SoundOrNone)
  BY <1>1, <1>3
<1>5. <<shown.song>> \in Seq(SoundOrNone)
  BY <1>2
<1>6. Line \in Seq(SoundOrNone)
  BY <1>4, <1>5, ConcatProperties DEF Line
<1>7. ToSet(Line) \subseteq SoundOrNone
  BY <1>6 DEF ToSet
<1>8. song \in SoundSongs
  BY <1>1, <1>7 DEF SoundOrNone
<1> QED
  BY <1>8 DEF SoundSongs

THEOREM SongsStaySound == Spec => []SongsSound
BY SoundInvariance, SInvSongs, PTL

(***************************************************************************)
(* Property StatusHonest: what the page says of the storage is true,       *)
(* although writes may be refused and one handler may write twice.         *)
(***************************************************************************)
THEOREM StatusIsHonest == Spec => []StatusHonest
<1>1. SInv => StatusHonest
  BY DEF SInv, StoreSound
<1> QED
  BY <1>1, SoundInvariance, PTL

-----------------------------------------------------------------------------
(* THE RECORDER                                                            *)

(***************************************************************************)
(* What the proof needs of the performance; the slot has an owner.         *)
(***************************************************************************)
LiveIs(performance) ==
    /\ {"phase", "active", "recording"} \subseteq DOMAIN performance
    /\ performance.recording # None =>
          {"phase", "track", "clip"} \subseteq DOMAIN performance.recording

Owned(performance, work) ==
    performance.recording # None => work # None /\ performance.recording.track = work.track

LInv ==
    /\ LiveIs(live)
    /\ Owned(live, take)

LEMMA NotLiveIs == LiveIs(NotLive) /\ NotLive.recording = None
BY DEF LiveIs, NotLive

(***************************************************************************)
(* What an edit or a handler leaves of the slot: the slot, or nothing.     *)
(***************************************************************************)
SlotAtMost(performance) ==
    /\ LiveIs(performance)
    /\ performance.recording # None => performance.recording = live.recording

LEMMA SyncedSlot ==
    ASSUME LiveIs(live), NEW song, NEW force
    PROVE  SlotAtMost(Synced(song, force))
<1>1. CASE Synced(song, force) = NotLive
  BY <1>1, NotLiveIs DEF SlotAtMost
<1>2. CASE Synced(song, force) =
              [live EXCEPT !.active = @ \cap ClipsOf(song),
                           !.recording = IF StillRecordable(@, song) THEN @ ELSE None]
  BY <1>2 DEF SlotAtMost, LiveIs
<1> QED
  BY <1>1, <1>2 DEF Synced

LEMMA ReleasedSlot ==
    ASSUME LInv, take # None, NEW performance, SlotAtMost(performance)
    PROVE  /\ LiveIs(SlotReleased(performance))
           /\ SlotReleased(performance).recording = None
<1>1. performance.recording # None => performance.recording.track = take.track
  BY DEF LInv, Owned, SlotAtMost
<1>2. {"phase", "active", "recording"} \subseteq DOMAIN performance
  BY DEF SlotAtMost, LiveIs
<1>3. SlotReleased(performance) = [performance EXCEPT !.recording = None]
  <2>1. CASE performance.recording = None
    BY <2>1 DEF SlotReleased
  <2>2. CASE performance.recording # None
    BY <1>1, <2>2 DEF SlotReleased
  <2> QED
    BY <2>1, <2>2
<1> QED
  BY <1>2, <1>3 DEF LiveIs

LEMMA SlotKeeps ==
    ASSUME LInv, SlotAtMost(live'), take' = take
    PROVE  LInv'
BY DEF LInv, SlotAtMost, Owned

LEMMA EditsSlot ==
    ASSUME LInv, PlayerStep
    PROVE  SlotAtMost(live')
<1>1. LiveIs(live)
  BY DEF LInv
<1>2. ASSUME live' = live PROVE SlotAtMost(live')
  BY <1>1, <1>2 DEF SlotAtMost
<1>3. ASSUME NEW cmds, DispatchAll(cmds) PROVE SlotAtMost(live')
  BY <1>1, <1>3, SyncedSlot DEF DispatchAll
<1>4. ASSUME NEW song, Open(song) PROVE SlotAtMost(live')
  BY <1>1, <1>4, SyncedSlot DEF Open
<1>5. ASSUME live' = NotLive PROVE SlotAtMost(live')
  BY <1>5, NotLiveIs DEF SlotAtMost
<1>6. CASE CreateDemo
  BY <1>1, <1>6, SyncedSlot DEF CreateDemo
<1>7. CASE AddFirstTrack
  BY <1>5, <1>7 DEF AddFirstTrack
<1>8. CASE AddTrack \/ AddClip \/ SetTransport \/ SetSelectedTrackInstrument
  BY <1>3, <1>8 DEF AddTrack, AddClip, SetTransport, SetSelectedTrackInstrument, Dispatch
<1>9. CASE DuplicateSelectedClip \/ ReshapeSelectedClip
  BY <1>3, <1>9 DEF DuplicateSelectedClip, ReshapeSelectedClip, Dispatch
<1>10. CASE CommitNoteDraft \/ RemoveNoteFromSelection
  BY <1>3, <1>10 DEF CommitNoteDraft, RemoveNoteFromSelection, Dispatch
<1>11. CASE EditStep
  BY <1>3, <1>11 DEF EditStep, Dispatch, DispatchBatch
<1>12. CASE Undo \/ Redo
  BY <1>1, <1>12, SyncedSlot DEF Undo, Redo, Restore
<1>13. CASE LoadSavedSong \/ ImportSong
  BY <1>2, <1>4, <1>13 DEF LoadSavedSong, ImportSong
<1>14. CASE EditNote \/ CancelNoteEdit \/ SelectTrack \/ SelectClip
  BY <1>2, <1>14 DEF EditNote, CancelNoteEdit, SelectTrack, SelectClip, Select
<1>15. CASE SaveSong \/ ClearSavedSong
  BY <1>2, <1>15 DEF SaveSong, ClearSavedSong
<1>16. CASE StartLive
  BY <1>16 DEF StartLive, NotLive, SlotAtMost, LiveIs
<1>17. CASE ClipStarts
  BY <1>1, <1>17 DEF ClipStarts, SlotAtMost, LiveIs
<1>18. CASE StopLive
  BY <1>1, <1>5, <1>18 DEF StopLive, SlotAtMost, LiveIs
<1> QED
  BY <1>6, <1>7, <1>8, <1>9, <1>10, <1>11, <1>12, <1>13, <1>14, <1>15, <1>16, <1>17, <1>18
  DEF PlayerStep, Edits

LEMMA CancelSlot ==
    ASSUME LInv, take # None, CancelTake
    PROVE  LInv'
<1>1. SlotAtMost(live)
  BY DEF LInv, SlotAtMost
<1>2. live' = SlotReleased(live) /\ take' = None
  BY DEF CancelTake
<1> QED
  BY <1>1, <1>2, ReleasedSlot DEF LInv, Owned

LEMMA FinishSlot ==
    ASSUME LInv, take # None, NEW done, FinishTake(done)
    PROVE  LInv'
<1>1. CASE CancelTake
  BY <1>1, CancelSlot
<1>2. CASE ~CancelTake
  <2>1. PICK song : live' = SlotReleased(Synced(song, FALSE))
    BY <1>2 DEF FinishTake
  <2>2. SlotAtMost(Synced(song, FALSE))
    BY SyncedSlot DEF LInv
  <2>3. take' = None
    BY <1>2 DEF FinishTake
  <2> QED
    BY <2>1, <2>2, <2>3, ReleasedSlot DEF LInv, Owned
<1> QED
  BY <1>1, <1>2

LEMMA FollowSlot ==
    ASSUME LInv, take # None, NEW next, SameTake(take, next), Follow(next)
    PROVE  LInv'
<1>1. CASE FinishTake(next)
  BY <1>1, FinishSlot
<1>2. CASE CancelTake
  BY <1>2, CancelSlot
<1>3. CASE Continue(next) /\ (T!Queued(take) /\ T!Recording(next) => MayStart(next))
  <2>1. take' = next
    BY <1>3 DEF Continue
  <2>2. CASE live' = live
    BY <2>1, <2>2, NoTakeAssumption DEF LInv, Owned, SameTake
  <2>3. CASE live.recording # None /\ live' = [live EXCEPT !.recording.phase = "recording"]
    BY <2>1, <2>3, NoTakeAssumption DEF LInv, LiveIs, Owned, SameTake
  <2>4. CASE T!Queued(take) /\ T!Recording(next)
    BY <1>3, <2>3, <2>4 DEF Continue, MayStart
  <2>5. CASE ~(T!Queued(take) /\ T!Recording(next))
    BY <1>3, <2>2, <2>5 DEF Continue
  <2> QED
    BY <2>4, <2>5
<1> QED
  BY <1>1, <1>2, <1>3 DEF Follow

LEMMA RecorderSlot ==
    ASSUME SInv, LInv, RecorderStep
    PROVE  LInv'
<1>1. take # None
  BY RecorderCases
<1>2. CASE CancelTake
  BY <1>1, <1>2, CancelSlot
<1>3. CASE \E next : SameTake(take, next) /\ (FinishTake(next) \/ Follow(next))
  BY <1>1, <1>3, FinishSlot, FollowSlot
<1> QED
  BY <1>2, <1>3, RecorderCases

LEMMA QueueSlot ==
    ASSUME SInv, LInv, QueueTake
    PROVE  LInv'
<1>1. PICK mode, t, c, armed : Queue(T!NewTake(mode, t, c), armed)
  BY DEF QueueTake
<1> DEFINE new == T!NewTake(mode, t, c)
<1>2. new.track = t
  BY DEF T!NewTake
<1>3. /\ take' = Prepared(new)
      /\ live' = [live EXCEPT !.recording = [phase |-> "armed", track |-> t, clip |-> armed]]
  BY <1>1, <1>2 DEF Queue
<1>4. take'.track = t
  BY <1>3, PreparedTake
<1> HIDE DEF new
<1>5. LiveIs(live') /\ live'.recording.track = t
  BY <1>3 DEF LInv, LiveIs
<1>6. take' # None
  BY QueueTyped, NoTakeAssumption
<1> QED
  BY <1>4, <1>5, <1>6 DEF LInv, Owned

LEMMA InitLInv == Init => LInv
BY NotLiveIs DEF Init, StoreInit, LInv, Owned

LEMMA NextLInv == SInv /\ LInv /\ [Next]_vars => LInv'
<1> SUFFICES ASSUME SInv, LInv, [Next]_vars PROVE LInv'
  OBVIOUS
<1>1. LiveIs(live)
  BY DEF LInv
<1>2. ASSUME live' = live, take' = take PROVE LInv'
  BY <1>2 DEF LInv
<1>3. ASSUME NEW cmds, DispatchAll(cmds), take' = take PROVE LInv'
  BY <1>1, <1>3, SyncedSlot, SlotKeeps DEF DispatchAll
<1>4. CASE UNCHANGED vars
  BY <1>2, <1>4 DEF vars, storeVars
<1>5. CASE PlayerStep
  BY <1>5, EditsSlot, SlotKeeps DEF PlayerStep
<1>6. CASE QueueTake
  BY <1>6, QueueSlot
<1>7. CASE ObserveTake \/ CaptureInput \/ DiscardTake
  BY <1>7, RecorderSlot DEF RecorderStep
<1>8. CASE UndoLastTake
  <2>1. take' = take /\ SlotAtMost(live')
    BY <1>1, <1>8, SyncedSlot DEF UndoLastTake, Undo, Restore
  <2> QED
    BY <2>1, SlotKeeps
<1>9. CASE ChooseMidiFile \/ MidiFileRead \/ DiscardMidiImport \/ InspectRemoteSession
  BY <1>2, <1>9 DEF ChooseMidiFile, MidiFileRead, DiscardMidiImport, InspectRemoteSession, storeVars
<1>10. CASE AcceptMidiImport
  BY <1>3, <1>10 DEF AcceptMidiImport
<1>11. CASE ExecuteRemoteCommandBatch
  BY <1>2, <1>3, <1>11 DEF ExecuteRemoteCommandBatch, DispatchBatch, storeVars
<1>12. CASE ReloadPage
  BY <1>12, NotLiveIs DEF ReloadPage, ReloadStore, LInv, Owned
<1> QED
  BY <1>4, <1>5, <1>6, <1>7, <1>8, <1>9, <1>10, <1>11, <1>12 DEF Next

(***************************************************************************)
(* The first half of property RecorderSound: while the recording slot of   *)
(* the performance is taken, the recorder holds the take that armed it,    *)
(* for the same track.                                                     *)
(***************************************************************************)
THEOREM SlotStaysOwned == Spec => []SlotOwned
<1>1. Init => LInv
  BY InitLInv
<1>2. SInv /\ LInv /\ [Next]_vars => LInv'
  BY NextLInv
<1>3. LInv => SlotOwned
  BY DEF LInv, Owned, SlotOwned
<1> QED
  BY <1>1, <1>2, <1>3, SoundInvariance, PTL DEF Spec


-----------------------------------------------------------------------------
(* What a take needs of a song.                                            *)

(***************************************************************************)
(* The song has the clip, as long as the loop, and none of these notes.    *)
(***************************************************************************)
HasLoop(song, t, c, ids) ==
    \E i \in At(song.tracks, t) : \E j \in At(song.tracks[i].clips, c) :
        /\ song.tracks[i].clips[j].length = Loop
        /\ Ids(song.tracks[i].clips[j].notes) \cap ids = {}

(***************************************************************************)
(* The song has the track, with room for a clip of this id.                *)
(***************************************************************************)
HasSlot(song, t, c) ==
    \E i \in At(song.tracks, t) : c \notin Ids(song.tracks[i].clips)

LEMMA AppendedAt ==
    ASSUME NEW S, NEW items \in Seq(S), NEW item \in S
    PROVE  LET new == Append(items, item)
           IN  /\ Len(items) + 1 \in At(new, item.id)
               /\ new[Len(items) + 1] = item
               /\ Ids(new) = Ids(items) \cup {item.id}
<1> DEFINE new == Append(items, item)
<1>1. /\ new \in Seq(S) /\ Len(new) = Len(items) + 1 /\ DOMAIN new = 1..(Len(items) + 1)
      /\ new[Len(items) + 1] = item
      /\ \A j \in 1..Len(items) : new[j] = items[j]
      /\ Len(items) \in Nat /\ DOMAIN items = 1..Len(items)
  OBVIOUS
<1> HIDE DEF new
<1>2. Len(items) + 1 \in At(new, item.id)
  BY <1>1 DEF At
<1>3. \A j \in 1..(Len(items) + 1) : j \in 1..Len(items) \/ j = Len(items) + 1
  BY <1>1
<1>4. \A j \in 1..Len(items) : j \in 1..(Len(items) + 1)
  BY <1>1
<1>5. Len(items) + 1 \in 1..(Len(items) + 1)
  BY <1>1
<1>6. Ids(new) = Ids(items) \cup {item.id}
  <2>1. ASSUME NEW id \in Ids(new) PROVE id \in Ids(items) \cup {item.id}
    BY <1>1, <1>3, <2>1 DEF Ids
  <2>2. ASSUME NEW id \in Ids(items) PROVE id \in Ids(new)
    BY <1>1, <1>4, <2>2 DEF Ids
  <2>3. item.id \in Ids(new)
    BY <1>1, <1>5 DEF Ids
  <2> QED
    BY <2>1, <2>2, <2>3
<1> QED
  BY <1>1, <1>2, <1>6 DEF new

(***************************************************************************)
(* Replacing a part of the same id moves no other.                         *)
(***************************************************************************)
LEMMA ReplacedAt ==
    ASSUME NEW S, NEW items \in Seq(S), NEW id, NEW i \in At(items, id), NEW item \in S,
           item.id = id
    PROVE  LET new == [items EXCEPT ![i] = item]
           IN  i \in At(new, id) /\ new[i] = item
BY DEF At

LEMMA TrackStays ==
    ASSUME NEW song \in SoundSongs, NEW t, NEW i \in At(song.tracks, t), NEW track \in Track,
           track.id = t
    PROVE  LET new == [song EXCEPT !.tracks[i] = track]
           IN  i \in At(new.tracks, t) /\ new.tracks[i] = track
<1> DEFINE tracks == [song.tracks EXCEPT ![i] = track]
           new == [song EXCEPT !.tracks[i] = track]
<1>1. song \in Song /\ song.tracks \in Seq(Track)
  BY DEF SoundSongs, Song
<1>2. i \in At(tracks, t) /\ tracks[i] = track
  BY <1>1, ReplacedAt
<1>3. new.tracks = tracks
  BY <1>1 DEF Song
<1> QED
  BY <1>2, <1>3

(***************************************************************************)
(* A new clip of the loop's length takes the slot.                         *)
(***************************************************************************)
LEMMA ClipFits ==
    ASSUME NEW song \in SoundSongs, NEW clip \in Clip, clip.notes = <<>>, clip.length = Loop,
           HasSlot(song, clip.track, clip.id), NEW ids
    PROVE  \E new \in ClipAdded(song, clip) : HasLoop(new, clip.track, clip.id, ids)
<1>1. PICK i \in At(song.tracks, clip.track) : clip.id \notin Ids(song.tracks[i].clips)
  BY DEF HasSlot
<1> DEFINE track == song.tracks[i]
           edited == [track EXCEPT !.clips = Append(@, clip)]
           new == [song EXCEPT !.tracks[i] = edited]
<1>2. /\ track \in Track /\ track.clips \in Seq(Clip) /\ track.id = clip.track
  <2>1. track \in SoundTracks /\ track.id = clip.track
    BY PartsSound
  <2> QED
    BY <2>1 DEF SoundTracks, Track
<1>3. new \in ClipAdded(song, clip)
  <2>1. clip.length > 0
    BY LoopAssumption
  <2> DEFINE Made(work) == When(clip.length > 0 /\ clip.id \notin Ids(work.clips),
                                [work EXCEPT !.clips = Append(@, clip)])
  <2>2. edited \in Made(track)
    BY <1>1, <2>1 DEF When
  <2>3. ClipAdded(song, clip) =
            UNION {{[song EXCEPT !.tracks[k] = work] : work \in Made(song.tracks[k])} :
                      k \in At(song.tracks, clip.track)}
    BY Zenon DEF ClipAdded, InTrack
  <2> HIDE DEF Made, edited
  <2>4. new \in {[song EXCEPT !.tracks[i] = work] : work \in Made(song.tracks[i])}
    BY <2>2
  <2> HIDE DEF new
  <2> QED
    BY <2>3, <2>4
<1> HIDE DEF track
<1>4. /\ edited.clips = Append(track.clips, clip) /\ edited.id = clip.track
      /\ edited \in Track
  BY <1>2 DEF Track
<1> DEFINE j == Len(track.clips) + 1
<1>5. j \in At(edited.clips, clip.id) /\ edited.clips[j] = clip
  BY <1>2, <1>4, AppendedAt
<1>6. i \in At(new.tracks, clip.track) /\ new.tracks[i] = edited
  <2> HIDE DEF edited
  <2> QED
    BY <1>4, TrackStays
<1> HIDE DEF new, edited, j
<1>7. Ids(clip.notes) = {}
  BY DEF Ids
<1>8. HasLoop(new, clip.track, clip.id, ids)
  BY <1>5, <1>6, <1>7 DEF HasLoop
<1> QED
  BY <1>3, <1>8 DEF new, edited, track

(***************************************************************************)
(* A note that fits the loop goes into its clip.                           *)
(***************************************************************************)
LEMMA NoteGoesIn ==
    ASSUME NEW song \in SoundSongs, NEW t, NEW c, NEW note \in Note, NoteFits(note, Loop),
           NEW ids, note.id \in ids, HasLoop(song, t, c, ids)
    PROVE  \E new \in NoteAdded(song, t, c, note) : HasLoop(new, t, c, ids \ {note.id})
<1>1. PICK i, j : /\ i \in At(song.tracks, t) /\ j \in At(song.tracks[i].clips, c)
                  /\ song.tracks[i].clips[j].length = Loop
                  /\ Ids(song.tracks[i].clips[j].notes) \cap ids = {}
  BY DEF HasLoop
<1> DEFINE track == song.tracks[i]
           clip == track.clips[j]
           edited == [clip EXCEPT !.notes = Append(@, note)]
           changed == [track EXCEPT !.clips[j] = edited]
           new == [song EXCEPT !.tracks[i] = changed]
<1>2. track \in Track /\ track.clips \in Seq(Clip) /\ track.id = t
  <2>1. track \in SoundTracks /\ track.id = t
    BY <1>1, PartsSound
  <2> QED
    BY <2>1 DEF SoundTracks, Track
<1>3. clip \in Clip /\ clip.id = c /\ clip.notes \in Seq(Note) /\ clip.length = Loop
      /\ Ids(clip.notes) \cap ids = {}
  <2>1. j \in 1..Len(track.clips) /\ clip.id = c
    BY <1>1, <1>2 DEF At
  <2>2. clip \in Clip
    BY <1>2, <2>1
  <2> QED
    BY <1>1, <2>1, <2>2, NotesTyped
<1>4. new \in NoteAdded(song, t, c, note)
  <2> DEFINE Made(work) == When(NoteFits(note, work.length) /\ note.id \notin Ids(work.notes),
                                [work EXCEPT !.notes = Append(@, note)])
  <2>1. edited \in Made(clip)
    BY <1>3 DEF When
  <2> DEFINE TracksOf(k) == UNION {{[song.tracks[k] EXCEPT !.clips[l] = part] :
                                       part \in Made(song.tracks[k].clips[l])} :
                                     l \in At(song.tracks[k].clips, c)}
  <2>2. NoteAdded(song, t, c, note) =
            UNION {{[song EXCEPT !.tracks[k] = work] : work \in TracksOf(k)} :
                      k \in At(song.tracks, t)}
    BY Zenon DEF NoteAdded, InClip, InTrack
  <2> HIDE DEF Made, edited
  <2>3. changed \in TracksOf(i)
    BY <1>1, <2>1
  <2> HIDE DEF TracksOf, changed
  <2> QED
    BY <1>1, <2>2, <2>3
<1> HIDE DEF track
<1> HIDE DEF clip
<1>5. /\ edited \in Clip /\ edited.id = c /\ edited.length = Loop
      /\ edited.notes = Append(clip.notes, note)
  BY <1>3 DEF Clip
<1>6. Ids(edited.notes) \cap (ids \ {note.id}) = {}
  <2>1. Ids(edited.notes) = Ids(clip.notes) \cup {note.id}
    BY <1>3, <1>5, AppendedAt
  <2> QED
    BY <1>3, <2>1
<1> HIDE DEF edited
<1>7. /\ j \in At(changed.clips, c) /\ changed.clips[j] = edited
      /\ changed.id = t /\ changed \in Track
  <2> DEFINE clips == [track.clips EXCEPT ![j] = edited]
  <2>1. j \in At(track.clips, c)
    BY <1>1 DEF track
  <2>2. j \in At(clips, c) /\ clips[j] = edited
    BY <1>2, <1>5, <2>1, ReplacedAt
  <2>3. clips \in Seq(Clip)
    BY <1>2, <1>5, <2>1 DEF At
  <2>4. changed.clips = clips /\ changed.id = t
    BY <1>2 DEF Track
  <2>5. changed = [track EXCEPT !.clips = clips]
    BY <1>2 DEF Track
  <2> HIDE DEF clips, changed
  <2>6. changed \in Track
    BY <1>2, <2>3, <2>5 DEF Track
  <2> QED
    BY <2>2, <2>4, <2>6
<1> HIDE DEF changed
<1>8. i \in At(new.tracks, t) /\ new.tracks[i] = changed
  BY <1>1, <1>7, TrackStays
<1> HIDE DEF new
<1>9. HasLoop(new, t, c, ids \ {note.id})
  BY <1>5, <1>6, <1>7, <1>8 DEF HasLoop
<1> QED
  BY <1>4, <1>9 DEF new, changed, edited, clip, track

-----------------------------------------------------------------------------
(* New ids.                                                                *)

LEMMA UnusedAre ==
    ASSUME NEW pool \in Seq(Names), IsInjective(pool), NEW used
    PROVE  LET new == Unused(pool, used)
           IN  /\ \A j \in 1..Len(new) : new[j] \notin used
               /\ \A j, k \in 1..Len(new) : new[j] = new[k] => j = k
<1> DEFINE positions == {i \in DOMAIN pool : pool[i] \notin used}
           new == Kept(pool, positions)
<1>1. Unused(pool, used) = new
  BY DEF Unused
<1>2. PICK at : Picks(at, new, pool, positions, Len(pool))
  BY KeptPicks
<1>3. new \in Seq(Names)
  BY KeptPicks
<1>4. \A i \in positions : i \in DOMAIN pool /\ pool[i] \notin used
  OBVIOUS
<1> HIDE DEF positions, new
<1>5. /\ \A k \in 1..Len(new) : at[k] \in positions /\ new[k] = pool[at[k]]
      /\ \A j, k \in 1..Len(new) : j < k => at[j] < at[k]
      /\ at \in [1..Len(new) -> 1..Len(pool)]
      /\ Len(pool) \in Nat /\ Len(new) \in Nat
  BY <1>2, <1>3 DEF Picks
<1>6. ASSUME NEW j \in 1..Len(new), NEW k \in 1..Len(new), new[j] = new[k]
      PROVE  j = k
  <2>1. at[j] = at[k]
    BY <1>4, <1>5, <1>6 DEF IsInjective
  <2>2. at[j] \in Nat /\ at[k] \in Nat /\ j \in Nat /\ k \in Nat
    BY <1>5
  <2>3. ~(j < k) /\ ~(k < j)
    BY <1>5, <2>1, <2>2
  <2> QED
    BY <2>2, <2>3
<1> QED
  BY <1>1, <1>4, <1>5, <1>6

LEMMA OnThePage ==
    ASSUME shown.song \in SoundSongs, NEW i \in DOMAIN shown.song.tracks
    PROVE  /\ shown.song.tracks[i] \in PageTracks
           /\ \A j \in DOMAIN shown.song.tracks[i].clips :
                 shown.song.tracks[i].clips[j] \in PageClips
<1>1. shown.song \in PageSongs
  BY SoundIsSong DEF PageSongs
<1>2. shown.song.tracks[i] \in PageTracks
  BY <1>1 DEF PageTracks, ToSet
<1> QED
  BY <1>2 DEF PageClips, ToSet

LEMMA NewNotesAre ==
    /\ \A j, k \in 1..Len(NewNotes) : NewNotes[j] = NewNotes[k] => j = k
    /\ \A k \in 1..Len(NewNotes) : \A clip \in PageClips : NewNotes[k] \notin Ids(clip.notes)
<1> DEFINE used == UNION {Ids(c.notes) : c \in PageClips}
<1>1. NewNotes = Unused(NoteIds, used)
  BY DEF NewNotes
<1>2. NoteIds \in Seq(Names) /\ IsInjective(NoteIds)
  BY StoreAssumption
<1>3. \A clip \in PageClips : Ids(clip.notes) \subseteq used
  OBVIOUS
<1> HIDE DEF used
<1>4. /\ \A j \in 1..Len(NewNotes) : NewNotes[j] \notin used
      /\ \A j, k \in 1..Len(NewNotes) : NewNotes[j] = NewNotes[k] => j = k
  BY <1>1, <1>2, UnusedAre
<1> QED
  BY <1>3, <1>4

LEMMA NewClipIs ==
    ASSUME NewClips # <<>>
    PROVE  \A clip \in PageClips : NewClips[1] # clip.id
<1> DEFINE used == {c.id : c \in PageClips}
<1>1. NewClips = Unused(ClipIds, used)
  BY DEF NewClips
<1>2. ClipIds \in Seq(Names) /\ IsInjective(ClipIds)
  BY StoreAssumption
<1>3. \A clip \in PageClips : clip.id \in used
  OBVIOUS
<1>4. NewClips \in Seq(Names)
  BY UnusedTyped
<1> HIDE DEF used
<1>5. 1 \in 1..Len(NewClips)
  <2> HIDE DEF NewClips
  <2> QED
    BY <1>4
<1>6. \A j \in 1..Len(NewClips) : NewClips[j] \notin used
  BY <1>1, <1>2, UnusedAre
<1> QED
  BY <1>3, <1>5, <1>6

-----------------------------------------------------------------------------
(* The commands of a take.                                                 *)

LEMMA QuantizedFits ==
    ASSUME NEW note \in PlayedNotes, NEW id \in Names
    PROVE  LET quantized == T!Quantized(note)
               new == [id |-> id, pitch |-> quantized.pitch, start |-> quantized.start,
                       length |-> quantized.length]
           IN  new \in Note /\ NoteFits(new, Loop)
<1>1. /\ note.start \in Int /\ note.end \in Int /\ Grid \in Nat \ {0} /\ Loop \in Nat \ {0}
  BY LoopAssumption DEF PlayedNotes
<1> DEFINE near == ((2 * note.start + Grid) \div (2 * Grid)) * Grid
           start == near % Loop
           played == IF note.end - note.start < Grid THEN Grid ELSE note.end - note.start
           length == IF played < Loop - start THEN played ELSE Loop - start
<1>2. near \in Int /\ played \in Int /\ played > 0
  BY <1>1
<1> HIDE DEF near, played
<1>3. start \in 0..(Loop - 1)
  BY <1>1, <1>2
<1> HIDE DEF start
<1>4. length \in Int /\ length > 0 /\ start + length =< Loop
  BY <1>1, <1>2, <1>3
<1>5. T!Quantized(note) = [start |-> start, pitch |-> 0, length |-> length]
  BY DEF T!Quantized, start, near, played
<1> HIDE DEF length
<1>6. 0 \in 0..MaxPitch
  BY MaxPitchAssumption
<1> QED
  BY <1>3, <1>4, <1>5, <1>6 DEF Note, NoteFits, NoteSound

TakesClip(done) == IF done.mode = "record" THEN 1 ELSE 0

LEMMA TakeCommandsAre ==
    ASSUME NEW done \in Takes
    PROVE  LET cmds == TakeCommands(done)
               m == TakesClip(done)
           IN  /\ Len(cmds) = m + Len(done.notes)
               /\ done.mode = "record" =>
                     cmds[1] = AddClipCommand(done.track, done.clip, Loop)
               /\ \A k \in 1..Len(done.notes) :
                     cmds[m + k] = AddNoteCommand(done.track, done.clip, NewNotes[k],
                                                  T!Quantized(done.notes[k]))
<1> DEFINE notes == [i \in DOMAIN done.notes |->
                        AddNoteCommand(done.track, done.clip, NewNotes[i], T!TakeNotes(done)[i])]
           add == AddClipCommand(done.track, done.clip, Loop)
           clip == IF done.mode = "record" THEN <<add>> ELSE <<>>
           K == Len(done.notes)
           m == TakesClip(done)
<1>1. done.notes \in Seq(PlayedNotes)
  BY DEF Takes, PlayedNotes
<1>2. DOMAIN done.notes = 1..K /\ K \in Nat
  BY <1>1
<1>3. \A k \in 1..K : T!TakeNotes(done)[k] = T!Quantized(done.notes[k])
  BY <1>2 DEF T!TakeNotes
<1>4. TakeCommands(done) = clip \o notes
  BY DEF TakeCommands
<1> DEFINE All == {notes[k] : k \in 1..K} \cup {add}
<1> HIDE DEF add
<1>5. notes = [k \in 1..K |-> notes[k]]
  BY <1>2
<1>6. \A k \in 1..K :
          notes[k] = AddNoteCommand(done.track, done.clip, NewNotes[k], T!Quantized(done.notes[k]))
  BY <1>2, <1>3
<1> HIDE DEF notes, K
<1>7. notes \in Seq(All) /\ Len(notes) = K
  BY <1>2, <1>5
<1>8. clip \in Seq(All) /\ Len(clip) = m /\ (done.mode = "record" => clip[1] = add) /\ m \in {0, 1}
      /\ (done.mode = "record" => m = 1)
  <2>1. CASE done.mode = "record"
    <3>1. clip = <<add>> /\ m = 1 /\ add \in All
      BY <2>1 DEF TakesClip
    <3> HIDE DEF All, clip, m
    <3> QED
      BY <3>1
  <2>2. CASE done.mode # "record"
    BY <2>2 DEF TakesClip
  <2> QED
    BY <2>1, <2>2
<1> HIDE DEF clip, All, m
<1>9. /\ Len(clip \o notes) = m + K
      /\ done.mode = "record" => (clip \o notes)[1] = add
      /\ \A k \in 1..K : (clip \o notes)[m + k] = notes[k]
  <2>1. /\ Len(clip \o notes) = Len(clip) + Len(notes)
        /\ \A i \in 1..(Len(clip) + Len(notes)) :
              (clip \o notes)[i] = IF i <= Len(clip) THEN clip[i] ELSE notes[i - Len(clip)]
    BY <1>7, <1>8, ConcatProperties
  <2> QED
    BY <1>2, <1>7, <1>8, <2>1
<1> QED
  BY <1>4, <1>6, <1>9 DEF K, m, add

(***************************************************************************)
(* Less is asked of the loop's clip when fewer notes are still to come.    *)
(***************************************************************************)
LEMMA FewerNotes ==
    ASSUME NEW song, NEW t, NEW c, NEW ids, NEW fewer \in SUBSET ids, HasLoop(song, t, c, ids)
    PROVE  HasLoop(song, t, c, fewer)
BY DEF HasLoop

LEMMA LoopIsFree ==
    ASSUME shown.song \in SoundSongs, NEW t, NEW c, HasLoop(shown.song, t, c, {}),
           NEW ids \in SUBSET {NewNotes[k] : k \in 1..Len(NewNotes)}
    PROVE  HasLoop(shown.song, t, c, ids)
<1>1. PICK i, j : /\ i \in At(shown.song.tracks, t) /\ j \in At(shown.song.tracks[i].clips, c)
                  /\ shown.song.tracks[i].clips[j].length = Loop
  BY DEF HasLoop
<1>2. shown.song.tracks[i].clips[j] \in PageClips
  BY <1>1, OnThePage DEF At
<1> HIDE DEF NewNotes
<1>3. Ids(shown.song.tracks[i].clips[j].notes) \cap ids = {}
  BY <1>2, NewNotesAre
<1> QED
  BY <1>1, <1>3 DEF HasLoop

LEMMA CommandGoes ==
    ASSUME NEW s, SoundState(s), s.song \in SoundSongs, NEW cmd \in Commands,
           cmd.type # "CreateSong", NEW song \in Edited(s.song, cmd)
    PROVE  \E o \in Applied(s, cmd) :
              o.song = song /\ o.song \in SoundSongs /\ SoundState(o)
<1> DEFINE o == [song |-> song, sel |-> Selects(cmd, s.sel)]
<1>1. s.song # None
  BY SoundIsSong
<1>2. o \in Applied(s, cmd)
  BY <1>1 DEF Applied
<1>3. o.song \in SoundSongs /\ o.sel \in Selections
  BY <1>2, AppliedSound
<1> QED
  BY <1>2, <1>3 DEF SoundState, SoundOrNone

(***************************************************************************)
(* The batch of a take whose loop or slot is there goes through.           *)
(***************************************************************************)
LEMMA TakeCommits ==
    ASSUME SInv, shown.song \in SoundSongs, NEW done \in Takes,
           done.notes # <<>>, Len(NewNotes) >= Len(done.notes),
           done.mode = "overdub" => HasLoop(shown.song, done.track, done.clip, {}),
           done.mode = "record" => HasSlot(shown.song, done.track, done.clip)
    PROVE  Outcomes(shown, TakeCommands(done)) # {}
<1> DEFINE t == done.track
           c == done.clip
           K == Len(done.notes)
           m == TakesClip(done)
           cmds == TakeCommands(done)
           N == Len(cmds)
           left(n) == {NewNotes[k] : k \in (n + 1)..K}
<1>1. K \in Nat /\ K > 0 /\ m \in {0, 1} /\ N = m + K
  <2>1. done.notes \in Seq(PlayedNotes)
    BY DEF Takes, PlayedNotes
  <2>2. Len(TakeCommands(done)) = m + Len(done.notes)
    BY TakeCommandsAre
  <2> QED
    BY <2>1, <2>2 DEF TakesClip
<1>2. \A n \in 1..N : cmds[n] \in Commands
  BY TakeCommandsTyped
<1>3. /\ done.mode = "record" => cmds[1] = AddClipCommand(t, c, Loop)
      /\ \A k \in 1..K :
            cmds[m + k] = AddNoteCommand(t, c, NewNotes[k], T!Quantized(done.notes[k]))
  BY TakeCommandsAre
<1>4. Len(cmds) \in Nat
  BY <1>1
<1>5. cmds # <<>>
  BY <1>1
<1> HIDE DEF cmds, K
<1>6. PICK f : /\ f = [n \in 0..N |->
                          IF n = 0 THEN {shown}
                          ELSE UNION {Applied(s, cmds[n]) : s \in f[n - 1]}]
               /\ Outcomes(shown, cmds) = IF cmds = <<>> THEN {} ELSE f[N]
  BY <1>4, OutcomesUnfold
<1> HIDE DEF N
<1>7. f[0] = {shown}
  BY <1>1, <1>6
<1>8. ASSUME NEW n \in Nat, n + 1 \in 0..N, NEW s \in f[n], NEW o \in Applied(s, cmds[n + 1])
      PROVE  o \in f[n + 1]
  <2>1. n + 1 # 0 /\ (n + 1) - 1 = n
    OBVIOUS
  <2>2. f[n + 1] = UNION {Applied(r, cmds[n + 1]) : r \in f[n]}
    BY <1>6, <1>8, <2>1
  <2> QED
    BY <1>8, <2>2
<1>9. SoundState(shown)
  BY EntryIs DEF SInv, StoreSound
<1>10. t \in Names /\ c \in Names
  BY DEF Takes
<1>11. \A n \in 0..K : left(n) \subseteq {NewNotes[k] : k \in 1..Len(NewNotes)}
  <2>1. Len(NewNotes) \in Nat
    BY UnusedTyped
  <2> HIDE DEF NewNotes
  <2> QED
    BY <1>1, <2>1 DEF K
<1> DEFINE Ready(s, n) == SoundState(s) /\ s.song \in SoundSongs /\ HasLoop(s.song, t, c, left(n))
<1>12. \E s \in f[m] : Ready(s, 0)
  <2>1. CASE done.mode = "overdub"
    <3>1. m = 0 /\ 0 \in 0..K
      BY <1>1, <2>1 DEF TakesClip
    <3> HIDE DEF left, m
    <3>2. HasLoop(shown.song, t, c, left(0))
      BY <1>11, <2>1, <3>1, LoopIsFree
    <3> QED
      BY <1>7, <1>9, <3>1, <3>2
  <2>2. CASE done.mode = "record"
    <3>1. m = 1
      BY <2>2 DEF TakesClip
    <3> DEFINE clip == [id |-> c, track |-> t, length |-> Loop, notes |-> <<>>]
               cmd == AddClipCommand(t, c, Loop)
    <3>2. clip \in Clip /\ clip.id = c /\ clip.track = t /\ clip.length = Loop /\ clip.notes = <<>>
      BY <1>10, LoopAssumption DEF Clip
    <3>3. Edited(shown.song, cmd) = ClipAdded(shown.song, clip)
      BY DEF Edited, AddClipCommand
    <3>4. cmd.type # "CreateSong"
      BY DEF AddClipCommand
    <3>5. cmds[1] = cmd /\ cmd \in Commands /\ 1 \in 0..N
      BY <1>1, <1>2, <1>3, <2>2
    <3> HIDE DEF clip, cmd, left, m
    <3>6. PICK song \in Edited(shown.song, cmd) : HasLoop(song, t, c, left(0))
      BY <2>2, <3>2, <3>3, ClipFits
    <3>7. PICK s \in {shown} : SoundState(s) /\ s.song \in SoundSongs /\ song \in Edited(s.song, cmd)
      BY <1>9, <3>6
    <3>8. cmd \in Commands
      BY <3>5
    <3>9. PICK o \in Applied(s, cmd) :
              o.song = song /\ o.song \in SoundSongs /\ SoundState(o)
      BY <3>4, <3>7, <3>8, CommandGoes
    <3>10. o \in f[1]
      <4>1. 0 \in Nat /\ 0 + 1 = 1 /\ s \in f[0]
        BY <1>7, <3>7
      <4> QED
        BY <1>8, <3>5, <3>9, <4>1
    <3> QED
      BY <3>1, <3>6, <3>9, <3>10
  <2> QED
    BY <2>1, <2>2 DEF Takes
<1>13. ASSUME NEW n \in Nat, n + 1 \in 0..K, NEW s \in f[m + n], Ready(s, n)
       PROVE  \E o \in f[m + n + 1] : Ready(o, n + 1)
  <2> DEFINE cmd == cmds[m + (n + 1)]
             id == NewNotes[n + 1]
             quantized == T!Quantized(done.notes[n + 1])
             note == [id |-> id, pitch |-> quantized.pitch, start |-> quantized.start,
                      length |-> quantized.length]
  <2>1. n + 1 \in 1..K /\ m + (n + 1) = m + n + 1 /\ m + n + 1 \in 0..N /\ m + n + 1 \in 1..N
        /\ m + n \in Nat
    BY <1>1, <1>13
  <2>2. id \in Names
    BY <1>1, <2>1, NewNames DEF K
  <2>3. note \in Note /\ NoteFits(note, Loop) /\ note.id = id
    <3>1. done.notes[n + 1] \in PlayedNotes
      <4>1. done.notes \in Seq(PlayedNotes)
        BY DEF Takes, PlayedNotes
      <4> QED
        BY <2>1, <4>1 DEF K
    <3> HIDE DEF id
    <3> QED
      BY <2>2, <3>1, QuantizedFits
  <2>4. cmd = AddNoteCommand(t, c, id, quantized)
    BY <1>3, <2>1
  <2> HIDE DEF quantized, id
  <2>5. cmd = [type |-> "AddNote", track |-> t, clip |-> c, note |-> note]
    BY <2>4 DEF AddNoteCommand
  <2> HIDE DEF note
  <2>6. Edited(s.song, cmd) = NoteAdded(s.song, t, c, note) /\ cmd.type # "CreateSong"
    BY <2>5 DEF Edited
  <2>7. cmd \in Commands
    BY <1>2, <2>1
  <2> HIDE DEF cmd
  <2>8. id \in left(n) /\ left(n + 1) \subseteq left(n) \ {id}
    <3>1. Len(NewNotes) \in Nat /\ Len(NewNotes) >= K
      BY UnusedTyped DEF K
    <3>2. \A j, k \in 1..Len(NewNotes) : NewNotes[j] = NewNotes[k] => j = k
      BY NewNotesAre
    <3> HIDE DEF NewNotes
    <3>3. \A k \in (n + 2)..K : NewNotes[k] # id /\ k \in (n + 1)..K
      <4>1. ASSUME NEW k \in (n + 2)..K
            PROVE  k \in 1..Len(NewNotes) /\ n + 1 \in 1..Len(NewNotes) /\ k # n + 1 /\ k \in (n + 1)..K
        BY <1>1, <1>13, <3>1
      <4> QED
        BY <3>2, <4>1 DEF id
    <3>4. n + 1 \in (n + 1)..K /\ (n + 1) + 1 = n + 2
      BY <2>1
    <3> QED
      BY <3>3, <3>4 DEF id
  <2> HIDE DEF left
  <2>9. PICK song \in NoteAdded(s.song, t, c, note) : HasLoop(song, t, c, left(n) \ {id})
    BY <1>13, <2>3, <2>8, NoteGoesIn
  <2>10. HasLoop(song, t, c, left(n + 1))
    BY <2>8, <2>9, FewerNotes
  <2>11. PICK o \in Applied(s, cmd) : o.song = song /\ o.song \in SoundSongs /\ SoundState(o)
    BY <1>13, <2>6, <2>7, <2>9, CommandGoes
  <2>12. o \in f[(m + n) + 1]
    BY <1>8, <2>1, <2>11 DEF cmd
  <2> QED
    BY <2>10, <2>11, <2>12
<1> DEFINE A == {n \in Nat : n \in 0..K => \E s \in f[m + n] : Ready(s, n)}
<1> HIDE DEF Ready, left
<1>14. A = Nat
  <2>1. 0 \in A
    <3>1. m + 0 = m
      BY <1>1
    <3> QED
      BY <1>12, <3>1
  <2>2. ASSUME NEW n \in A
        PROVE  n + 1 \in A
    <3>1. SUFFICES ASSUME n + 1 \in 0..K
                   PROVE  \E s \in f[m + (n + 1)] : Ready(s, n + 1)
      OBVIOUS
    <3>2. n \in 0..K /\ m + (n + 1) = m + n + 1
      BY <1>1, <3>1
    <3>3. PICK s \in f[m + n] : Ready(s, n)
      BY <3>2
    <3> QED
      BY <1>13, <3>1, <3>2, <3>3
  <2> HIDE DEF A
  <2>3. A \in SUBSET Nat
    BY DEF A
  <2> QED
    BY <2>1, <2>2, <2>3, SetInduction
<1>15. \E s \in f[m + K] : Ready(s, K)
  BY <1>1, <1>14
<1>16. Outcomes(shown, cmds) = f[m + K]
  BY <1>1, <1>6, <1>5
<1> QED
  BY <1>15, <1>16 DEF cmds

-----------------------------------------------------------------------------
(* What the recorder may count on.                                         *)

LEMMA FirstOrAt ==
    ASSUME NEW S, NEW items \in Seq(S), NEW id, NEW item \in FirstOr(items, id)
    PROVE  \E i \in DOMAIN items : item = items[i]
<1>1. CASE id \in Ids(items)
  <2>1. At(items, id) \in SUBSET Nat /\ At(items, id) # {}
    BY <1>1 DEF At, Ids
  <2>2. Min(At(items, id)) \in At(items, id)
    BY <2>1, MinIn
  <2>3. item = items[Min(At(items, id))]
    BY <1>1 DEF FirstOr, ClipNamed
  <2>4. At(items, id) \subseteq DOMAIN items
    BY DEF At
  <2> QED
    BY <2>2, <2>3, <2>4
<1>2. CASE id \notin Ids(items)
  BY <1>2 DEF FirstOr
<1> QED
  BY <1>1, <1>2

(***************************************************************************)
(* The song a take was queued on has the clip that is recorded over, or    *)
(* the slot that is recorded into.                                         *)
(***************************************************************************)
Landing(work) ==
    /\ work.song \in SoundSongs
    /\ work.mode = "overdub" => HasLoop(work.song, work.track, work.clip, {})
    /\ work.mode = "record" => HasSlot(work.song, work.track, work.clip)

FInv == take # None => Landing(take)

LEMMA QueueLands ==
    ASSUME SInv, QueueTake
    PROVE  Landing(take')
<1>1. shown.song \in SoundOrNone
  BY DEF SInv, StoreSound, SoundEntries
<1>2. PICK track \in LauncherTrack :
          \/ \E clip \in SelectedSlot(track) : Queue(T!NewTake("overdub", track.id, clip.id), clip.id)
          \/ /\ NewClips # <<>>
             /\ Queue(T!NewTake("record", track.id, NewClips[1]), None)
  BY DEF QueueTake
<1>3. track \in FirstOr(Tracks(shown.song), selected[1])
  BY DEF LauncherTrack, SelectedTrack
<1>4. PICK i \in DOMAIN Tracks(shown.song) : track = Tracks(shown.song)[i]
  BY <1>1, <1>3, TracksTyped, FirstOrAt
<1>5. shown.song \in SoundSongs /\ Tracks(shown.song) = shown.song.tracks
  BY <1>1, <1>4 DEF Tracks, SoundOrNone
<1>6. i \in At(shown.song.tracks, track.id) /\ track = shown.song.tracks[i]
  BY <1>4, <1>5 DEF At
<1>7. track \in Track
  BY <1>1, <1>4, TracksTyped
<1>8. CASE \E clip \in SelectedSlot(track) :
              Queue(T!NewTake("overdub", track.id, clip.id), clip.id)
  <2>1. PICK clip \in SelectedSlot(track) : take' = Prepared(T!NewTake("overdub", track.id, clip.id))
    BY <1>8 DEF Queue
  <2>2. clip \in FirstOr(track.clips, selected[2]) /\ clip.length = Loop
    BY DEF SelectedSlot
  <2>3. PICK j \in DOMAIN track.clips : clip = track.clips[j]
    BY <1>7, <2>2, ClipsTyped, FirstOrAt
  <2>4. HasLoop(shown.song, track.id, clip.id, {})
    BY <1>6, <2>2, <2>3 DEF HasLoop, At
  <2>5. /\ take'.mode = "overdub" /\ take'.track = track.id /\ take'.clip = clip.id
        /\ take'.song = shown.song
    BY <2>1, PreparedTake
  <2> QED
    BY <1>5, <2>4, <2>5 DEF Landing
<1>9. CASE NewClips # <<>> /\ Queue(T!NewTake("record", track.id, NewClips[1]), None)
  <2>1. /\ take'.mode = "record" /\ take'.track = track.id /\ take'.clip = NewClips[1]
        /\ take'.song = shown.song
    BY <1>9, PreparedTake DEF Queue
  <2>2. \A j \in DOMAIN track.clips : track.clips[j] \in PageClips
    <3>1. i \in DOMAIN shown.song.tracks
      BY <1>4, <1>5
    <3> QED
      BY <1>5, <1>6, <3>1, OnThePage
  <2> HIDE DEF NewClips
  <2>3. NewClips[1] \notin Ids(track.clips)
    BY <1>9, <2>2, NewClipIs DEF Ids
  <2>4. HasSlot(shown.song, track.id, NewClips[1])
    BY <1>6, <2>3 DEF HasSlot
  <2> QED
    BY <1>5, <2>1, <2>4 DEF Landing
<1> QED
  BY <1>2, <1>8, <1>9

LEMMA RecorderTakes ==
    ASSUME SInv, RecorderStep
    PROVE  take' = None \/ SameTake(take, take')
<1>1. ASSUME NEW next, FinishTake(next) PROVE take' = None
  BY <1>1 DEF FinishTake, CancelTake
<1>2. ASSUME NEW next, Follow(next) PROVE take' = None \/ take' = next
  BY <1>1, <1>2 DEF Follow, CancelTake, Continue
<1> QED
  BY <1>1, <1>2, RecorderCases DEF CancelTake

LEMMA NextFInv == SInv /\ FInv /\ [Next]_vars => FInv'
<1> SUFFICES ASSUME SInv, FInv, [Next]_vars PROVE FInv'
  OBVIOUS
<1>1. ASSUME take' = take \/ take' = None PROVE FInv'
  BY <1>1 DEF FInv
<1>2. CASE UNCHANGED vars \/ PlayerStep \/ UndoLastTake \/ ExecuteRemoteCommandBatch
  BY <1>1, <1>2 DEF vars, PlayerStep, UndoLastTake, ExecuteRemoteCommandBatch
<1>3. CASE QueueTake
  BY <1>3, QueueLands DEF FInv
<1>4. CASE RecorderStep
  <2>1. take # None
    BY <1>4 DEF RecorderStep, ObserveTake, CaptureInput, DiscardTake
  <2>2. CASE SameTake(take, take')
    BY <2>1, <2>2 DEF FInv, Landing, SameTake
  <2> QED
    BY <1>1, <1>4, <2>2, RecorderTakes
<1>5. CASE ChooseMidiFile \/ MidiFileRead \/ AcceptMidiImport \/ DiscardMidiImport
           \/ InspectRemoteSession
  BY <1>1, <1>5
     DEF ChooseMidiFile, MidiFileRead, AcceptMidiImport, DiscardMidiImport, InspectRemoteSession
<1>6. CASE ReloadPage
  BY <1>1, <1>6 DEF ReloadPage
<1> QED
  BY <1>2, <1>3, <1>4, <1>5, <1>6 DEF Next, RecorderStep

LEMMA LandingFits == IInv /\ SInv /\ FInv => TakeFits
<1> SUFFICES ASSUME IInv, SInv, FInv PROVE TakeFits
  OBVIOUS
<1> DEFINE done == T!Advanced(take, Loop)
<1>1. SUFFICES ASSUME take # None, take.revision = shown.revision,
                      done.notes # <<>>, Len(NewNotes) >= Len(done.notes)
               PROVE  Outcomes(shown, TakeCommands(done)) # {}
  BY DEF TakeFits
<1>2. SameTake(take, done)
  BY <1>1, TakeKeeps, LoopAssumption DEF SInv
<1> HIDE DEF done
<1>3. take.song = shown.song
  BY <1>1 DEF IInv, Based
<1>4. Landing(take)
  BY <1>1 DEF FInv
<1> QED
  BY <1>1, <1>2, <1>3, <1>4, TakeCommits DEF SameTake, Landing

(***************************************************************************)
(* Property RecorderSound: the recording slot of the performance is never  *)
(* left behind, and a take that was not disturbed can always be committed  *)
(* when its loop ends, for any songs, loops, grids and numbers of notes.   *)
(***************************************************************************)
THEOREM RecorderStaysSound == Spec => []RecorderSound
<1>1. Init => FInv
  BY DEF Init, FInv
<1>2. SInv /\ FInv /\ [Next]_vars => FInv'
  BY NextFInv
<1>3. IInv /\ SInv /\ FInv => TakeFits
  BY LandingFits
<1>4. SlotOwned /\ TakeFits => RecorderSound
  BY DEF RecorderSound
<1> QED
  BY <1>1, <1>2, <1>3, <1>4, Invariance, SoundInvariance, SlotStaysOwned, PTL DEF Spec
=============================================================================

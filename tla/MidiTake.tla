------------------------------ MODULE MidiTake ------------------------------
(***************************************************************************)
(* A recorded take (midiRecording.ts): notes struck and released while a   *)
(* loop of the transport passes, turned into notes of a clip when it ends. *)
(*                                                                         *)
(* Beats are counted from the start of the loop: -1 is the count-in, the   *)
(* phase of the take follows from the last beat observed. One key of one   *)
(* source is played; takes are one loop of Loop ticks long.                *)
(***************************************************************************)
EXTENDS Integers, Sequences

CONSTANTS Loop,     \* ticks of the loop
          Grid,     \* MIDI_RECORDING_GRID_BEATS and _MIN_NOTE_BEATS
          NoKey     \* nothing is held

(* held is the beat at which the key was struck. *)
NewTake(mode, track, clip) ==
    [mode |-> mode, track |-> track, clip |-> clip, at |-> -1, held |-> NoKey, notes |-> <<>>]

Queued(take) == take.at < 0
Recording(take) == take.at \in 0..(Loop - 1)
Completed(take) == take.at = Loop

(* closeHeldNote *)
Released(take, beat) ==
    IF take.held = NoKey THEN take
    ELSE [take EXCEPT !.held = NoKey,
                      !.notes = Append(@, [start |-> take.held, end |-> beat])]

(* advanceMidiTake: the end of the loop releases what is held.             *)
Advanced(take, beat) ==
    [IF beat = Loop THEN Released(take, Loop) ELSE take EXCEPT !.at = beat]

(* captureMidiInputEvent: a key struck again is released first.            *)
Struck(take, beat) == [Released(take, beat) EXCEPT !.held = beat]

(* materializeMidiTakeNotes: the start to the grid, around the loop; the   *)
(* length as played, within the loop.                                      *)
Quantized(note) ==
    LET start == (((2 * note.start + Grid) \div (2 * Grid)) * Grid) % Loop
        played == IF note.end - note.start < Grid THEN Grid ELSE note.end - note.start
    IN  [start |-> start, pitch |-> 0,
         length |-> IF played < Loop - start THEN played ELSE Loop - start]

TakeNotes(take) == [i \in DOMAIN take.notes |-> Quantized(take.notes[i])]
=============================================================================

----------------------------- MODULE SongHistory -----------------------------
(***************************************************************************)
(* What the song page promises about the past: the songs of this page load *)
(* form one line; undo and redo walk along it and an edit cuts off what    *)
(* was ahead. Every step to another song takes a revision that no song of  *)
(* the line had before. (docs/SPRINT-6-UNDO-REDO.md.)                      *)
(***************************************************************************)
EXTENDS Naturals, Sequences

CONSTANT None

VARIABLES line,       \* the songs, from the empty page on
          at,         \* which of them is shown
          revision

vars == <<line, at, revision>>

Init == line = <<None>> /\ at = 1 /\ revision = 0

(* One or more edits of one handler, each with a place and a revision.     *)
Edit ==
    /\ at' > at /\ at' = Len(line')
    /\ SubSeq(line', 1, at) = SubSeq(line, 1, at)
    /\ revision' = revision + (at' - at)

Walk ==
    /\ line' = line
    /\ at' \in {at - 1, at + 1} \cap DOMAIN line
    /\ revision' = revision + 1

(* The page is loaded again. *)
Reload == line' = <<None>> /\ at' = 1 /\ revision' = 0

Next == Edit \/ Walk \/ Reload

Spec == Init /\ [][Next]_vars
=============================================================================

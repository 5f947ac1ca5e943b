-------------------------- MODULE BitwigController --------------------------
(***************************************************************************)
(* The controller script that runs inside Bitwig Studio: which launcher    *)
(* slot is the target, the generation that revokes bindings when it        *)
(* changes, and the barriers that close the bridge while Bitwig catches up *)
(* with a command.                                                         *)
(*                                                                         *)
(* The script is single threaded, so its state is a record and a callback  *)
(* or a request an operator on it. The proxies of the Bitwig API show what *)
(* their last callback said: picked, the selected slots of the bank, and   *)
(* cursor, the slot the cursor clip is on.                                 *)
(***************************************************************************)
EXTENDS Naturals, Sequences, FiniteSets

CONSTANTS Slots, None

NewController(instance, picked, cursor) ==
    [instance |-> instance, generation |-> 0, last |-> None, barrier |-> None, gui |-> 0,
     picked |-> picked, cursor |-> cursor]

(* requireSettledBank *)
Settled(c) == c.barrier = None /\ c.gui = 0

(* currentTargetState: the selected slot, or the one the cursor is on.     *)
Target(c) ==
    IF ~Settled(c) \/ Cardinality(c.picked) > 1 THEN None
    ELSE IF c.picked = {} THEN c.cursor
    ELSE CHOOSE s \in c.picked : TRUE

(* boundedCursorMatches *)
CursorMatches(c) == Target(c) # None /\ c.cursor = Target(c)

(* targetGeneration += 1: every binding that was handed out is revoked.    *)
Revoked(c) == [c EXCEPT !.generation = @ + 1]

(* refreshTargetGeneration, which every observer of the target calls; what *)
(* changes under a barrier starts its quiet period again.                  *)
Unquiet(c) == IF c.barrier = None THEN c ELSE [c EXCEPT !.barrier.quiet = FALSE]

Refreshed(c) ==
    LET d == Unquiet(c)
    IN  IF d.last \in {None, <<Target(d)>>}
        THEN [d EXCEPT !.last = <<Target(d)>>]
        ELSE [Revoked(d) EXCEPT !.last = <<Target(d)>>]

(* currentTargetBinding, after the refresh it makes                        *)
Binding(c) == [instance |-> c.instance, generation |-> c.generation, slot |-> Target(c)]

(* Mutant: the notes are read wherever the cursor is. *)
AnyNotes(c, clips) == IF clips[c.cursor] = None THEN {} ELSE clips[c.cursor]

(* readTargetNotes: through the cursor, which may lag behind the selection *)
(* clips: what each slot holds, None or the notes of its clip.             *)
TargetNotes(c, clips) ==
    IF CursorMatches(c) /\ clips[Target(c)] # None THEN clips[c.cursor] ELSE {}

(* inspectBoundTarget *)
Inspection(c, clips) ==
    LET s == Target(c)
    IN  [binding |-> Binding(c),
         hasContent |-> s # None /\ clips[s] # None,
         clipExists |-> CursorMatches(c) /\ clips[s] # None,
         notes |-> TargetNotes(c, clips)]

(* Mutant: only the slot is compared, which may have been left meanwhile. *)
SameSlot(c, binding) == Settled(c) /\ Target(c) # None /\ binding.slot = Target(c)

(* requireCurrentTarget *)
Current(c, binding) == Settled(c) /\ Target(c) # None /\ binding = Binding(c)

(* The guard of target.set_note, which writes through the cursor too.      *)
Writable(c, clips) == clips[Target(c)] # None /\ CursorMatches(c)

-----------------------------------------------------------------------------
(* Barriers. One is pending at a time, because each asks for none.         *)

(* beginBankNavigation, beginConstruction: bindings are revoked before any *)
(* proxy is touched. expected is the slot whose clip is to disappear, or   *)
(* None when the position of the bank is awaited.                          *)
Barred(c, expected, thrown) ==
    [Revoked(c) EXCEPT !.barrier =
        [expected |-> expected, observed |-> FALSE, quiet |-> FALSE, failed |-> thrown]]

(* dispatchGlobalUi: there is nothing to observe, two updates are awaited. *)
UiDispatched(c) == [Revoked(c) EXCEPT !.gui = 2]

(* constructionMatches. The bank is one window, whose position is left out *)
(* here: an awaited position is reached once anything of it is observed,   *)
(* so the barrier of a navigation may open earlier than the code's.        *)
Matches(c, clips) == c.barrier.expected = None \/ clips[c.barrier.expected] = None

(* observeBankNavigationPosition, observeConstructionChange                *)
Noticed(c, clips) == [Unquiet(c) EXCEPT !.barrier.observed = Matches(c, clips)]

(* flush: the second of two updates without a change opens the barrier.    *)
Flushed(c, clips) ==
    LET d == [c EXCEPT !.gui = IF @ > 0 THEN @ - 1 ELSE 0]
    IN  IF d.barrier = None \/ ~d.barrier.observed \/ d.barrier.failed THEN d
        ELSE IF Matches(d, clips) /\ d.barrier.quiet THEN Refreshed([d EXCEPT !.barrier = None])
        ELSE [d EXCEPT !.barrier.quiet = TRUE]
=============================================================================

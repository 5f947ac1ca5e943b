------------------------- MODULE PerformanceRuntime -------------------------
(***************************************************************************)
(* The pure reducer of the live performance (performanceRuntime.ts): what  *)
(* the player asked for, per track and for the transport, and what became  *)
(* of it. An action of the reducer is a pair of operators: the condition   *)
(* under which it does not throw, and the state it returns.                *)
(*                                                                         *)
(* Left out: the resolution that is kept for display, levels, mutes,       *)
(* macros and the recording target, none of which the audio engine sees.   *)
(***************************************************************************)
EXTENDS Naturals, FiniteSets

CONSTANTS Tracks, Clips, None,
          BeatsPerBar,
          IdCapacity   \* transitionIdCapacity

(* clip and pending per track; ids are reserved until the next reset.      *)
NewPerformance ==
    [phase |-> "idle", beat |-> 0, stop |-> None, ids |-> {},
     clip |-> [t \in Tracks |-> None], pending |-> [t \in Tracks |-> None]]

(* A stop of the transport, a transition, and a performance with these ids *)
Stops(ids) ==
    [id : ids, requested : Nat, target : Nat, status : {"pending", "scheduled"}]
Transitions(ids) ==
    [id : ids, kind : {"launch", "stop"}, clip : Clips \cup {None},
     requested : Nat, target : Nat, group : ids \cup {None},
     status : {"pending", "scheduled"}]
Performances(ids) ==
    [phase : {"idle", "playing", "stopping"}, beat : Nat,
     stop : Stops(ids) \cup {None}, ids : SUBSET ids,
     clip : [Tracks -> Clips \cup {None}], pending : [Tracks -> Transitions(ids) \cup {None}]]

Quantizations == {"immediate", "beat", "bar"}

(* A quantized target is strictly ahead, also when the beat is a boundary. *)
LaunchTarget(beat, quantization) ==
    CASE quantization = "immediate" -> beat
      [] quantization = "beat" -> beat + 1
      [] quantization = "bar" -> (beat \div BeatsPerBar + 1) * BeatsPerBar

-----------------------------------------------------------------------------
(* Transport and clock.                                                    *)

Advanced(r, beat) == [r EXCEPT !.beat = IF beat > @ THEN beat ELSE @]

TransportStarted(r, at) ==
    IF r.phase = "idle" THEN [r EXCEPT !.phase = "playing", !.beat = at] ELSE r

StopRequestable(r, id) ==
    /\ r.phase # "idle" /\ r.stop = None
    /\ id \notin r.ids /\ Cardinality(r.ids) < IdCapacity

StopRequested(r, id, target) ==
    [r EXCEPT !.phase = "stopping", !.ids = @ \cup {id},
              !.stop = [id |-> id, requested |-> r.beat, target |-> target,
                        status |-> "pending"]]

StopMarked(r) == [r EXCEPT !.stop.status = "scheduled"]

(* Mutant: the phase is not restored. *)
StopForgotten(r) == [r EXCEPT !.stop = None]

StopCancelled(r) == [r EXCEPT !.phase = "playing", !.stop = None]

(* ObserveTransportStopped: the runtime forgets every clip and transition. *)
TransportStopped(r, beat) ==
    [NewPerformance EXCEPT !.beat = Advanced(r, beat).beat, !.ids = r.ids]

-----------------------------------------------------------------------------
(* Transitions.                                                            *)

Transition(id, kind, clip, requested, target, group) ==
    [id |-> id, kind |-> kind, clip |-> clip, requested |-> requested,
     target |-> target, group |-> group, status |-> "pending"]

(* sameTransition and isExactPendingRetry: everything but the status.      *)
Same(pending, transition) ==
    pending # None /\ [pending EXCEPT !.status = transition.status] = transition

Queueable(r, t, transition) ==
    /\ transition.requested >= r.beat
    /\ \/ Same(r.pending[t], transition)
       \/ /\ transition.id \notin r.ids
          /\ Cardinality(r.ids) < IdCapacity
          /\ r.pending[t] # None => r.pending[t].status = "pending"

(* A launch of what plays, and a stop of what does not, are dropped unless *)
(* they replace a transition that has not been scheduled yet.              *)
Queued(r, t, transition, relaunch) ==
    LET reserved == [r EXCEPT !.ids = @ \cup {transition.id}]
        idle == r.pending[t] = None /\ r.clip[t] = transition.clip /\ ~relaunch
    IN  IF Same(r.pending[t], transition) THEN r
        ELSE IF idle THEN reserved
        ELSE [reserved EXCEPT !.pending[t] = transition]

(* RefreshActiveClip: the same clip again, at a boundary strictly ahead.   *)
Refreshable(r, t, transition) ==
    /\ r.clip[t] = transition.clip
    /\ transition.target > r.beat
    /\ Queueable(r, t, transition)

(* LaunchScene: one transition for every track of the scene, or nothing.   *)
SceneTransition(group, t, clips, requested, target) ==
    Transition([group EXCEPT ![2] = t], IF clips[t] = None THEN "stop" ELSE "launch",
               clips[t], requested, target, group)

SceneQueueable(r, group, clips, target) ==
    /\ group \notin r.ids
    /\ Cardinality(r.ids) + Cardinality(DOMAIN clips) < IdCapacity
    /\ \A t \in DOMAIN clips : Queueable(r, t, SceneTransition(group, t, clips, r.beat, target))

SceneQueued(r, group, clips, target) ==
    LET After(t) == Queued(r, t, SceneTransition(group, t, clips, r.beat, target), FALSE)
    IN  [r EXCEPT
           !.ids = @ \cup {group} \cup {[group EXCEPT ![2] = t] : t \in DOMAIN clips},
           !.pending = [t \in Tracks |-> IF t \in DOMAIN clips THEN After(t).pending[t] ELSE @[t]]]

Members(r, group) == {t \in Tracks : r.pending[t] # None /\ r.pending[t].group = group}

(* The tracks that change together with one of them.                       *)
Unit(r, t) ==
    IF r.pending[t].group = None THEN {t} ELSE Members(r, r.pending[t].group)

WithStatus(r, tracks, status) ==
    [r EXCEPT !.pending = [t \in Tracks |->
        IF t \in tracks THEN [@[t] EXCEPT !.status = status] ELSE @[t]]]

(* MarkTransitionScheduled and MarkSceneScheduled; the requeue of either.  *)
Markable(r, tracks) ==
    \A t \in tracks : r.pending[t].status = "pending" /\ r.beat <= r.pending[t].target
Marked(r, tracks) == WithStatus(r, tracks, "scheduled")

Requeueable(r, tracks) ==
    \A t \in tracks : r.pending[t].status = "scheduled" /\ r.beat < r.pending[t].target
Requeued(r, tracks) == WithStatus(r, tracks, "pending")

(* Failed or cancelled, and gone: a scene with all of its open members.    *)
Withdrawn(r, tracks) ==
    [r EXCEPT !.pending = [t \in Tracks |-> IF t \in tracks THEN None ELSE @[t]]]

(* ObserveTransitionExecuted *)
Executed(r, t) ==
    [r EXCEPT !.clip[t] = r.pending[t].clip, !.pending[t] = None]

-----------------------------------------------------------------------------
(* reconcilePerformanceMaterial: what refers to a clip that is gone is     *)
(* dropped, and with it the whole scene it belonged to. clips: the clips   *)
(* of each track (clipIdsByTrack); gone: the tracks it has no entry for,   *)
(* whose stops are dropped as well.                                        *)

Dangling(r, clips, gone, t) ==
    /\ r.pending[t] # None
    /\ \/ t \in gone
       \/ r.pending[t].kind = "launch" /\ r.pending[t].clip \notin clips[t]

Orphaned(r, clips, gone, t) ==
    r.pending[t] # None /\ \E u \in Unit(r, t) : Dangling(r, clips, gone, u)

MaterialReconciled(r, clips, gone) ==
    [Withdrawn(r, {t \in Tracks : Orphaned(r, clips, gone, t)}) EXCEPT
        !.clip = [t \in Tracks |->
                     IF @[t] # None /\ @[t] \notin clips[t] THEN None ELSE @[t]]]
=============================================================================

-------------------------- MODULE LivePerformance --------------------------
(***************************************************************************)
(* The live session of the browser: the launcher's gestures go to the      *)
(* performance runtime, liveAudioController carries them to the audio      *)
(* engine and the engine's observations back, while the song is edited.    *)
(*                                                                         *)
(* Everything runs on one JavaScript thread. A gesture, an edit, a timer   *)
(* or an audio callback is one action, with the observations it causes and *)
(* the reconciliation that is called in its stack. The drain loop of       *)
(* syncPending takes several actions; it yields to the others only while   *)
(* the engine prepares materials.                                          *)
(***************************************************************************)
EXTENDS LiveEngineState, SequencesExt

CONSTANTS Clips, Materials,
          Loaded,         \* the songs the page may begin with
          BeatsPerBar, IdCapacity,
          LoopLength,     \* lengthBeats of every clip
          MaxRequests,    \* bounds: gestures that take a transition id,
          MaxEdits,       \* edits of the song,
          MaxSessions     \* sessions that are started

INSTANCE PerformanceRuntime

(* A transition is named by a number, its track (None for a scene or for a *)
(* stop of the transport) and what made it.                                *)
Ids == Nat \X (Tracks \cup {None}) \X {"gesture", "refresh"}

(* What the controller asks the engine for also names the material.        *)
SessionRequests ==
    [id : Ids, track : Tracks, kind : {"launch", "stop"}, target : Nat,
     material : Materials \cup {None}]
SessionSources ==
    [request : SessionRequests, voice : Voices \cup {None}, armed : BOOLEAN,
     cutoff : Nat \cup {None}]
SessionJobs ==
    [requests : Seq(SessionRequests), held : Seq(Voices \cup {None}), fresh : BOOLEAN]

SessionEngines ==
    [phase : {"new", "initialized", "blocked", "ready", "running", "stopped"},
     unlocked : BOOLEAN, running : BOOLEAN, beat : Nat,
     buses : SUBSET Tracks, voices : SUBSET Voices,
     active : [Tracks -> SessionSources \cup {None}],
     pending : [Tracks -> SessionSources \cup {None}],
     stop : [id : Ids, target : Nat] \cup {None},
     unlocking : [Callers -> {"no", "fresh", "stale"}],
     batch : [Callers -> SessionJobs \cup {None}]]

Songs == [Tracks -> [Clips -> Materials \cup {None}]]

ASSUME PerformanceAssumption ==
    /\ None \notin Clips \cup Materials \cup Ids
    /\ None \notin SessionSources \cup SessionJobs \cup [id : Ids, target : Nat]
    /\ None \notin Transitions(Ids) \cup Stops(Ids)
    /\ Loaded \subseteq Songs /\ Callers # {}
    /\ {BeatsPerBar, LoopLength} \subseteq Nat \ {0}
    /\ {IdCapacity, MaxRequests, MaxEdits, MaxSessions} \subseteq Nat

VARIABLES
    runtime,   \* PerformanceRuntime
    song,      \* the material of each clip, None when there is no such clip
    session,   \* "none", "starting", "outdated", "active"
    sync,      \* the drain loop: pc, dirty, and the units left to schedule
    made       \* counters behind the bounds; refreshSequence

vars == <<engine, runtime, song, session, sync, made>>

ClipsIn(s) == [t \in Tracks |-> {c \in Clips : s[t][c] # None}]
InSong(t, c) == c \in ClipsIn(song)[t]

Caller == CHOOSE c \in Callers : TRUE

Init ==
    /\ engine = NewEngine /\ runtime = NewPerformance
    /\ song \in Loaded
    /\ session = "none"
    /\ sync = [pc |-> "idle", dirty |-> FALSE, units |-> << >>]
    /\ made = [requests |-> 0, edits |-> 0, sessions |-> 0, refreshes |-> 0]

(* The loop runs in microtasks, before any other task.                     *)
Yielded == sync.pc \in {"idle", "failed", "preparing"}

-----------------------------------------------------------------------------
(* reconcileMaterial. p holds the state of both sides; done is set when    *)
(* the rest is skipped, by a reset or by an error that is thrown.          *)

Both == [engine |-> engine, runtime |-> runtime, refreshes |-> made.refreshes,
         done |-> "no"]

MaterialOf(s, t, clip) == IF clip = None THEN None ELSE s[t][clip]

(* failSafeResetRuntime *)
FailSafe(p) ==
    [p EXCEPT !.engine = IF Usable(@) THEN Stopped(@) ELSE @,
              !.runtime = NewPerformance, !.done = "reset"]

(* The engine has exactly this transition, with the material of today.     *)
Owned(p, s, t) ==
    /\ p.engine.pending[t] # None
    /\ p.engine.pending[t].request.id = p.runtime.pending[t].id
    /\ p.engine.pending[t].request.material = MaterialOf(s, t, p.runtime.pending[t].clip)

ScheduledOn(r) == {t \in Tracks : r.pending[t] # None /\ r.pending[t].status = "scheduled"}

(* cancelTransition for several tracks. Each changes its own track alone,  *)
(* so that the order does not matter.                                      *)
CancelledAll(e, tracks) ==
    LET held == {t \in tracks : e.pending[t] # None}
    IN  [e EXCEPT
           !.pending = [t \in Tracks |-> IF t \in held THEN Cancelled(e, t).pending[t] ELSE @[t]],
           !.active = [t \in Tracks |-> IF t \in held THEN Cancelled(e, t).active[t] ELSE @[t]],
           !.voices = {v \in @ : \A t \in held : v \in Cancelled(e, t).voices}]

(* A scheduled transition whose material was edited is taken back, and     *)
(* goes to the engine again if there is time; a scene as a whole.          *)
RequeueEdited(p, s) ==
    LET units == {Unit(p.runtime, t) : t \in ScheduledOn(p.runtime)}
        edited == {unit \in units : \E t \in unit : ~Owned(p, s, t)}
        again == UNION {unit \in edited : Requeueable(p.runtime, unit)}
        gone == UNION {unit \in edited : ~Requeueable(p.runtime, unit)}
    IN  [p EXCEPT !.engine = CancelledAll(@, again \cup gone),
                  !.runtime = Withdrawn(Requeued(@, again), gone)]

(* What the runtime does not know any more is cancelled.                   *)
CancelOrphans(p) ==
    LET Known(t) == /\ p.runtime.pending[t] # None
                    /\ p.runtime.pending[t].id = p.engine.pending[t].request.id
        orphans == {t \in Tracks : p.engine.pending[t] # None /\ ~Known(t)}
    IN  [p EXCEPT !.engine = CancelledAll(@, orphans)]

(* Mutant: the boundary that is reached just now counts as the next one. *)
LoopReached(source, beat) ==
    LET start == source.request.target
    IN  start + ((beat - start + LoopLength - 1) \div LoopLength) * LoopLength

(* nextActiveLoopBoundary *)
NextLoop(source, beat) ==
    LET start == source.request.target
    IN  start + ((beat - start) \div LoopLength + 1) * LoopLength

(* The loops that play what the song does not hold any more: they are      *)
(* replaced when they end, one track after the other, unless something is  *)
(* pending there already.                                                  *)
Playing(p, s, t) == MaterialOf(s, t, p.runtime.clip[t])

Outdated(p, s) ==
    {t \in Tracks : /\ p.engine.active[t] # None /\ p.runtime.pending[t] = None
                    /\ Playing(p, s, t) \notin {None, p.engine.active[t].request.material}}

Place(t) == CHOOSE i \in 1 .. Cardinality(Tracks) : SetToSeq(Tracks)[i] = t
Before(p, s, t) == {u \in Outdated(p, s) : Place(u) < Place(t)}

Refresh(p, s, t) ==
    Transition(<<p.refreshes + Cardinality(Before(p, s, t)) + 1, t, "refresh">>, "launch",
               p.runtime.clip[t], p.runtime.beat, NextLoop(p.engine.active[t], p.runtime.beat), None)

Refreshed(p, s, tracks) ==
    [p EXCEPT
       !.runtime.ids = @ \cup {Refresh(p, s, t).id : t \in tracks},
       !.runtime.pending = [t \in Tracks |->
           IF t \in tracks THEN Queued(p.runtime, t, Refresh(p, s, t), TRUE).pending[t] ELSE @[t]],
       !.refreshes = @ + Cardinality(tracks)]

(* A source that the runtime cannot account for.                           *)
Lost(p, s, t) ==
    \/ p.engine.active[t] # None /\ Playing(p, s, t) = None
    \/ t \in Outdated(p, s) /\ p.runtime.beat < p.engine.active[t].request.target

Refused(p, s, t) ==
    t \in Outdated(p, s) /\ ~Refreshable(Refreshed(p, s, Before(p, s, t)).runtime, t, Refresh(p, s, t))

(* The first track that is lost, or is refused its refresh, ends it.       *)
RefreshActive(p, s) ==
    LET ends == {t \in Tracks : Lost(p, s, t) \/ Refused(p, s, t)}
        first == CHOOSE t \in ends : \A u \in ends : Place(t) <= Place(u)
        reached == Refreshed(p, s, Before(p, s, first))
    IN  IF ends = {} THEN Refreshed(p, s, Outdated(p, s))
        ELSE IF Lost(p, s, first) THEN FailSafe(reached)
        ELSE [reached EXCEPT !.refreshes = @ + 1, !.done = "thrown"]

ClaimsMissing(p) ==
    /\ p.done = "no" /\ p.engine.phase \in {"running", "suspended"}
    /\ \E t \in Tracks : p.runtime.clip[t] # None /\ p.engine.active[t] = None

Accounted(p) == IF ClaimsMissing(p) THEN FailSafe(p) ELSE p

Reconciled(p, s) ==
    LET current == [p EXCEPT !.runtime = Advanced(@, p.engine.beat), !.done = "no"]
    IN  Accounted(RefreshActive(CancelOrphans(RequeueEdited(current, s)), s))

(* syncPending: reconcile at once, then start the loop or mark it dirty.   *)
(* When the reconciliation throws there is no loop.                        *)
LoopAsked(q, counters) ==
    /\ engine' = q.engine /\ runtime' = q.runtime
    /\ made' = [counters EXCEPT !.refreshes = q.refreshes]
    /\ sync' = IF q.done = "thrown" THEN sync
               ELSE IF sync.pc \in {"idle", "failed"} THEN [sync EXCEPT !.pc = "head"]
               ELSE [sync EXCEPT !.dirty = TRUE]

SyncPending(p, s, counters) == LoopAsked(Reconciled(p, s), counters)

-----------------------------------------------------------------------------
(* The loop of syncPending.                                                *)

(* A unit is scheduled as it was when the loop found it: the transitions   *)
(* of one scene, or of one track.                                          *)
PendingUnits(r) ==
    LET open == {t \in Tracks : r.pending[t] # None /\ r.pending[t].status = "pending"}
        units == {Unit(r, t) \cap open : t \in open}
        scenes == {unit \in units : \A t \in unit : r.pending[t].group # None}
        Found(unit) == [t \in unit |-> r.pending[t]]
    IN  SetToSeq({Found(unit) : unit \in scenes})
          \o SetToSeq({Found(unit) : unit \in units \ scenes})

Unscheduled(r) == r.stop # None /\ r.stop.status = "pending"

(* A pass of the loop, with what the reconciliation left: the stop of the  *)
(* transport goes to the engine, then the units that are open are found.   *)
Pass(p) ==
    LET stop == p.runtime.stop
        Ends(pc) == sync' = [pc |-> pc, dirty |-> FALSE, units |-> << >>]
    IN  /\ made' = [made EXCEPT !.refreshes = p.refreshes]
        /\ \/ /\ p.done = "thrown"
              /\ engine' = p.engine /\ runtime' = p.runtime
              /\ Ends("failed")
           \/ /\ p.done # "thrown" /\ Unscheduled(p.runtime)
              /\ StopRefused(p.engine, stop.id, stop.target)
              /\ engine' = p.engine /\ runtime' = p.runtime
              /\ Ends("failed")
           \/ /\ p.done # "thrown"
              /\ Unscheduled(p.runtime) => ~StopRefused(p.engine, stop.id, stop.target)
              /\ engine' = IF Unscheduled(p.runtime)
                           THEN StopScheduled(p.engine, stop.id, stop.target) ELSE p.engine
              /\ runtime' = IF Unscheduled(p.runtime) THEN StopMarked(p.runtime) ELSE p.runtime
              /\ sync' = [pc |-> "units", dirty |-> FALSE, units |-> PendingUnits(p.runtime)]

SyncHead ==
    /\ sync.pc = "head"
    /\ UNCHANGED <<song, session>>
    /\ Pass(Reconciled(Both, song))

(* transitionMatches and groupMatches                                      *)
Matches(r, unit) ==
    \A t \in DOMAIN unit : Same(r.pending[t], unit[t]) /\ r.pending[t].status = "pending"

NextUnit == sync' = [sync EXCEPT !.pc = "units", !.units = Tail(@)]
LoopFails == sync' = [sync EXCEPT !.pc = "failed", !.units = << >>]

(* failTransition, of the first member: the reducer throws when neither it *)
(* nor, for a scene, another member is still open.                         *)
FailUnit(r, unit) ==
    LET first == SetToSeq(DOMAIN unit)[1]
        group == unit[first].group
        open == IF group # None THEN Members(r, group)
                ELSE {t \in {first} : r.pending[t] # None /\ r.pending[t].id = unit[t].id}
    IN  /\ runtime' = Withdrawn(r, open)
        /\ IF open = {} THEN LoopFails ELSE NextUnit

(* Mutant: what the engine refused is left to the next loop. *)
RefusalIgnored(e, unit) == engine' = e /\ runtime' = runtime /\ NextUnit

(* The engine refused or dropped the unit: it fails, unless the runtime    *)
(* has already something else in its place.                                *)
Refusal(e, unit) ==
    /\ engine' = e
    /\ IF Matches(runtime, unit) THEN FailUnit(runtime, unit)
       ELSE runtime' = runtime /\ NextUnit

IdsOf(unit) == {unit[t].id : t \in DOMAIN unit}
CancelUnit(e, unit) ==
    CancelledAll(e, {t \in Tracks : e.pending[t] # None /\ e.pending[t].request.id \in IdsOf(unit)})

(* Mutant: the unit is marked without looking whether it is still wanted.  *)
AcknowledgeAlways(e, unit) ==
    /\ engine' = e
    /\ runtime' = Marked(runtime, {t \in DOMAIN unit : runtime.pending[t] # None})
    /\ NextUnit

(* The engine has the unit: the runtime is told, or the engine is told     *)
(* that nobody wants it any more.                                          *)
Acknowledge(e, unit) ==
    \/ /\ Matches(runtime, unit) /\ Markable(runtime, DOMAIN unit)
       /\ engine' = e /\ runtime' = Marked(runtime, DOMAIN unit)
       /\ NextUnit
    \/ /\ Matches(runtime, unit) /\ ~Markable(runtime, DOMAIN unit)
       /\ engine' = CancelUnit(e, unit) /\ runtime' = runtime
       /\ LoopFails
    \/ /\ ~Matches(runtime, unit)
       /\ engine' = CancelUnit(e, unit) /\ runtime' = runtime
       /\ NextUnit

RequestsOf(unit) ==
    LET tracks == SetToSeq(DOMAIN unit)
    IN  [i \in DOMAIN tracks |->
            LET t == tracks[i]
            IN  [id |-> unit[t].id, track |-> t, kind |-> unit[t].kind,
                 target |-> unit[t].target, material |-> MaterialOf(song, t, unit[t].clip)]]

Unplayable(unit) ==
    \E t \in DOMAIN unit : unit[t].kind = "launch" /\ ~InSong(t, unit[t].clip)

(* scheduleGroup and scheduleIndividual, until the engine prepares.        *)
ScheduleUnit ==
    LET unit == Head(sync.units)
        requests == RequestsOf(unit)
        begun == BatchBegun(engine, Caller, requests)
    IN  /\ sync.pc = "units" /\ sync.units # << >>
        /\ UNCHANGED <<song, session, made>>
        /\ \/ Unplayable(unit) /\ engine' = engine /\ FailUnit(runtime, unit)
           \/ ~Unplayable(unit) /\ BatchRefused(engine, requests) /\ Refusal(engine, unit)
           \/ /\ ~Unplayable(unit) /\ ~BatchRefused(engine, requests)
              /\ AllRetries(engine, requests) /\ Acknowledge(engine, unit)
           \/ /\ ~Unplayable(unit) /\ ~BatchRefused(engine, requests)
              /\ ~AllRetries(engine, requests)
              /\ \/ Prepared(begun, Caller) /\ Acknowledge(Committed(begun, Caller), unit)
                 \/ /\ ~Prepared(begun, Caller)
                    /\ engine' = begun /\ runtime' = runtime
                    /\ sync' = [sync EXCEPT !.pc = "preparing"]

SyncEnds ==
    /\ sync.pc = "units" /\ sync.units = << >>
    /\ sync' = [sync EXCEPT !.pc = IF sync.dirty THEN "head" ELSE "idle"]
    /\ UNCHANGED <<engine, runtime, song, session, made>>

(* The preparer answers, and the engine looks again before it commits.     *)
PrepareResolves ==
    LET unit == Head(sync.units)
        e == MaterialPrepared(engine, Caller, FreshVoice(engine))
    IN  /\ sync.pc = "preparing" /\ Voices # engine.voices
        /\ UNCHANGED <<song, session, made>>
        /\ \/ ~Prepared(e, Caller) /\ engine' = e /\ UNCHANGED <<runtime, sync>>
           \/ /\ Prepared(e, Caller) /\ Committable(e, Caller)
              /\ Acknowledge(Committed(e, Caller), unit)
           \/ /\ Prepared(e, Caller) /\ ~Committable(e, Caller)
              /\ Refusal(BatchDropped(e, Caller), unit)

PrepareRejects ==
    /\ sync.pc = "preparing"
    /\ UNCHANGED <<song, session, made>>
    /\ Refusal(BatchDropped(engine, Caller), Head(sync.units))

-----------------------------------------------------------------------------
(* The launcher. A gesture brings the clock up to date, dispatches, and    *)
(* calls syncPending; what the reducer refuses is shown and forgotten.     *)

Now == Advanced(runtime, engine.beat)
Requesting == [made EXCEPT !.requests = @ + 1]

(* An id: of a transition on t, or of a scene or a stop of the transport.  *)
Id(t) == <<made.requests + 1, t, "gesture">>

Target(q) == LaunchTarget(Now.beat, q)

Gesture(q) ==
    /\ Yielded /\ session = "active" /\ runtime.phase = "playing"
    /\ made.requests < MaxRequests /\ Target(q) <= MaxBeat
    /\ UNCHANGED <<song, session>>

Request(t, transition) ==
    /\ Queueable(Now, t, transition)
    /\ SyncPending([Both EXCEPT !.runtime = Queued(Now, t, transition, FALSE)], song, Requesting)

LaunchClip(t, c, q) ==
    /\ Gesture(q) /\ InSong(t, c)
    /\ Request(t, Transition(Id(t), "launch", c, Now.beat, Target(q), None))

StopTrack(t, q) ==
    /\ Gesture(q)
    /\ Request(t, Transition(Id(t), "stop", None, Now.beat, Target(q), None))

(* A row of the launcher, which has a clip on every track.                 *)
LaunchScene(c, q) ==
    LET clips == [t \in Tracks |-> c]
    IN  /\ Gesture(q) /\ \A t \in Tracks : InSong(t, c)
        /\ SceneQueueable(Now, Id(None), clips, Target(q))
        /\ SyncPending([Both EXCEPT !.runtime = SceneQueued(Now, Id(None), clips, Target(q))],
                       song, Requesting)

StopTransport(q) ==
    /\ Gesture(q)
    /\ StopRequestable(Now, Id(None))
    /\ SyncPending([Both EXCEPT !.runtime = StopRequested(Now, Id(None), Target(q))],
                   song, Requesting)

(* cancelTrackTransition and cancelScene: what is pending is withdrawn by  *)
(* the reducer, what is scheduled by the engine, whose observation says so *)
CancelUnitOf(t) ==
    LET unit == Unit(runtime, t)
    IN  /\ Yielded /\ session = "active" /\ runtime.pending[t] # None
        /\ \/ unit \subseteq ScheduledOn(runtime)
           \/ runtime.beat <= runtime.pending[t].target
        /\ engine' = CancelUnit(engine, [u \in unit \cap ScheduledOn(runtime) |-> runtime.pending[u]])
        /\ runtime' = Withdrawn(runtime, unit)
        /\ UNCHANGED <<song, session, sync, made>>

(* A cancellation that is observed behind its target resets the runtime.   *)
CancelTransportStop ==
    LET late == engine.beat > runtime.stop.target
    IN  /\ Yielded /\ session = "active" /\ runtime.stop # None
        /\ \/ /\ Unscheduled(runtime) /\ runtime.beat <= runtime.stop.target
              /\ engine' = engine /\ runtime' = StopCancelled(runtime)
           \/ /\ ~Unscheduled(runtime)
              /\ engine' = [engine EXCEPT !.stop = None]
              /\ runtime' = IF late THEN NewPerformance ELSE StopCancelled(runtime)
        /\ UNCHANGED <<song, session, sync, made>>

SyncClock ==
    /\ Yielded /\ session = "active" /\ runtime.beat < engine.beat
    /\ runtime' = Now
    /\ UNCHANGED <<engine, song, session, sync, made>>

-----------------------------------------------------------------------------
(* The session.                                                            *)

(* start, up to the browser's consent, which is given once.                *)
Start ==
    /\ Yielded /\ session = "none"
    /\ Initializable(engine) /\ engine.unlocking[Caller] = "no"
    /\ made.sessions < MaxSessions
    /\ LET counters == [made EXCEPT !.sessions = @ + 1, !.refreshes = 0]
           e == Opened(engine, Caller)
       IN  \/ /\ ~engine.unlocked
              /\ engine' = e /\ session' = "starting" /\ made' = counters
              /\ UNCHANGED <<runtime, sync>>
           \/ /\ engine.unlocked
              /\ session' = "active"
              /\ SyncPending([engine |-> Started(e, runtime.beat), refreshes |-> 0, done |-> "no",
                              runtime |-> TransportStarted(runtime, runtime.beat)], song, counters)
    /\ UNCHANGED song

Unlocks ==
    LET e == UnlockResolved(engine, Caller)
    IN  /\ Yielded /\ engine.unlocking[Caller] # "no"
        /\ UNCHANGED song
        /\ \/ /\ session = "starting" /\ engine.unlocking[Caller] = "fresh"
              /\ session' = "active"
              /\ SyncPending([Both EXCEPT !.engine = Started(e, runtime.beat),
                                          !.runtime = TransportStarted(runtime, runtime.beat)],
                             song, made)
           \/ /\ session = "outdated" /\ engine.unlocking[Caller] = "fresh"
              /\ engine' = Stopped(e) /\ session' = "none"
              /\ UNCHANGED <<runtime, sync, made>>
           \/ /\ engine.unlocking[Caller] = "stale"
              /\ engine' = e /\ UNCHANGED <<runtime, session, sync, made>>

(* The wrapper's dispose: an engine that is not at rest is stopped and the *)
(* runtime reset, before the lease is given back.                          *)
Disposing(e, r) ==
    /\ engine' = IF e.phase = "stopped" THEN e ELSE Stopped(e)
    /\ runtime' = IF e.phase = "stopped" THEN r ELSE NewPerformance
    /\ session' = "none"
    /\ UNCHANGED <<song, sync, made>>

UnlockFails ==
    LET e == UnlockRejected(engine, Caller)
    IN  /\ Yielded /\ engine.unlocking[Caller] # "no"
        /\ IF engine.unlocking[Caller] = "fresh" THEN Disposing(e, runtime)
           ELSE engine' = e /\ UNCHANGED <<runtime, song, session, sync, made>>

(* The session ended: the launcher closes its controller.                  *)
CloseIdle ==
    /\ Yielded /\ session = "active" /\ runtime.phase = "idle"
    /\ Disposing(engine, runtime)

(* The emergency stop, and the launcher that leaves the page.              *)
EmergencyStop ==
    /\ Yielded /\ session # "none"
    /\ Disposing(Stopped(engine), NewPerformance)

-----------------------------------------------------------------------------
(* Edits. The store reconciles the runtime with the new song, and tells    *)
(* the launcher, which reconciles the engine in the same stack.            *)

Edited(s, r) ==
    /\ song' = s
    /\ \/ /\ session = "active"
          /\ SyncPending([Both EXCEPT !.runtime = r], s, [made EXCEPT !.edits = @ + 1])
          /\ UNCHANGED session
       \/ /\ session # "active"
          /\ runtime' = r
          /\ session' = IF session = "none" THEN "none" ELSE "outdated"
          /\ made' = [made EXCEPT !.edits = @ + 1]
          /\ UNCHANGED <<engine, sync>>

(* One command batch changes or removes some clips, and removes some of    *)
(* the tracks that are left without any.                                   *)
EditSong(s) ==
    /\ Yielded /\ made.edits < MaxEdits
    /\ \E gone \in SUBSET {t \in Tracks : ClipsIn(s)[t] = {}} :
           /\ s # song \/ gone # {}
           /\ Edited(s, MaterialReconciled(runtime, ClipsIn(s), gone))

(* loadSavedSong and its like replace the document and reset the runtime.  *)
LoadSong ==
    /\ Yielded /\ made.edits < MaxEdits
    /\ Edited(song, NewPerformance)

(* The tempo of a running session is not changed: it is ended.             *)
EditTempo ==
    /\ Yielded /\ made.edits < MaxEdits
    /\ session = "active" /\ runtime.phase # "idle"
    /\ LET p == FailSafe(Both) IN SyncPending(p, song, [made EXCEPT !.edits = @ + 1])
    /\ UNCHANGED <<song, session>>

-----------------------------------------------------------------------------
(* The audio thread calls back.                                            *)

Silenced == LET p == FailSafe(Both) IN engine' = p.engine /\ runtime' = p.runtime

Expected(t) ==
    /\ runtime.pending[t] # None
    /\ runtime.pending[t].status = "scheduled"
    /\ Owned(Both, song, t)

Boundary(t) ==
    /\ Yielded /\ Due(engine, t)
    /\ IF session = "active" /\ ~Expected(t) THEN Silenced
       ELSE /\ engine' = AtBoundary(engine, t)
            /\ runtime' = IF session = "active" THEN Executed(runtime, t) ELSE runtime
    /\ UNCHANGED <<song, session, sync, made>>

TransportStop ==
    /\ Yielded /\ StopDue(engine)
    /\ engine' = Stopped(engine)
    /\ runtime' = IF session = "active" /\ runtime.stop # None /\ ~Unscheduled(runtime)
                     /\ runtime.stop.id = engine.stop.id
                  THEN TransportStopped(runtime, engine.beat) ELSE runtime
    /\ UNCHANGED <<song, session, sync, made>>

Tick ==
    /\ Yielded /\ Advancing(engine)
    /\ engine' = [engine EXCEPT !.beat = @ + 1]
    /\ UNCHANGED <<runtime, song, session, sync, made>>

-----------------------------------------------------------------------------
Microtask == SyncHead \/ ScheduleUnit \/ SyncEnds

Next ==
    \/ \E q \in Quantizations :
          \/ \E t \in Tracks : StopTrack(t, q) \/ \E c \in Clips : LaunchClip(t, c, q)
          \/ \E c \in Clips : LaunchScene(c, q)
          \/ StopTransport(q)
    \/ \E t \in Tracks : CancelUnitOf(t) \/ Boundary(t)
    \/ CancelTransportStop \/ SyncClock
    \/ Start \/ Unlocks \/ UnlockFails \/ CloseIdle \/ EmergencyStop
    \/ \E s \in Songs : EditSong(s)
    \/ LoadSong \/ EditTempo
    \/ Microtask \/ PrepareResolves \/ PrepareRejects
    \/ TransportStop \/ Tick

Spec == Init /\ [][Next]_vars

(* Microtasks run, a preparation is answered, the browser keeps the time,  *)
(* calls back and renders. No gesture and no edit has to come. (The first  *)
(* two are weak fairness: their step is enabled in exactly these states.)  *)
FairSpec ==
    /\ Spec
    /\ []<>Yielded \/ []<><<Microtask>>_vars
    /\ []<>(sync.pc # "preparing") \/ []<><<PrepareResolves \/ PrepareRejects>>_vars
    /\ WF_vars(Tick) /\ WF_vars(TransportStop) /\ WF_vars(CloseIdle)
    /\ \A t \in Tracks : WF_vars(Boundary(t))

-----------------------------------------------------------------------------
(* Properties.                                                             *)

(* Between tasks, in a session that is not about to be closed.             *)
Live == session = "active" /\ Yielded /\ runtime.phase # "idle"

(* The states are the ones the code can be in; the runtime is stopping     *)
(* exactly while it has a stop, and never ahead of the engine it follows.  *)
TypeOK ==
    /\ engine \in SessionEngines
    /\ runtime \in Performances(Ids)
    /\ runtime.phase = "stopping" <=> runtime.stop # None
    /\ Live => runtime.beat <= engine.beat
    /\ song \in Songs
    /\ session \in {"none", "starting", "outdated", "active"}
    /\ sync.pc \in {"idle", "head", "units", "preparing", "failed"} /\ sync.dirty \in BOOLEAN
    /\ made \in [requests : Nat, edits : Nat, sessions : Nat, refreshes : Nat]

(* Runtime and engine agree on who owns the transport and every track, at  *)
(* every moment another task may run: a track is scheduled in one exactly  *)
(* when its transition is pending in the other, and a clip plays in one    *)
(* exactly when it sounds in the other. So no boundary can come that the   *)
(* runtime does not expect. (handleObservation, syncPending)               *)
OwnershipAgrees ==
    Live =>
        /\ engine.running
        /\ \A t \in Tracks :
            /\ t \in ScheduledOn(runtime) <=> engine.pending[t] # None
            /\ t \in ScheduledOn(runtime) =>
                  runtime.pending[t].id = engine.pending[t].request.id
            /\ runtime.clip[t] # None <=> engine.active[t] # None

(* A scene stays together: its open members share status and target, and   *)
(* were all asked for by the same gesture. (MarkSceneScheduled,            *)
(* RequeueScheduledScene, reconcilePerformanceMaterial)                    *)
SceneTogether ==
    \A t, u \in Tracks :
        runtime.pending[t] # None /\ runtime.pending[u] # None =>
           \/ runtime.pending[t].group # runtime.pending[u].group
           \/ runtime.pending[t].group = None
           \/ /\ runtime.pending[u].status = runtime.pending[t].status
              /\ runtime.pending[u].target = runtime.pending[t].target

(* The schedules agree, with the engine's and within a scene.              *)
SchedulesAgree == OwnershipAgrees /\ SceneTogether

(* When the drain loop has ended, nothing was left behind: no transition   *)
(* waits for a loop that does not run, and what is scheduled is what the   *)
(* song holds now. (the dirty flag of syncPending)                         *)
Drained ==
    Live /\ sync.pc = "idle" =>
        \A t \in Tracks : runtime.pending[t] # None =>
            t \in ScheduledOn(runtime) /\ Owned(Both, song, t)

(* Both: while the drain loop runs and when it has ended, the runtime's    *)
(* transitions are those of the engine and of the song.                    *)
RuntimeAgrees == SchedulesAgree /\ Drained

(* An edit of a loop that plays leaves a transition on its track in the    *)
(* same stack, so that it is replaced: "active edited material is replaced *)
(* at its next exact loop boundary" (docs/NANODAW_LIVE_AUDIO_ENGINE.md).   *)
EditsReplaced ==
    [][ song' # song /\ session = "active" =>
          \A t \in Tracks :
              runtime'.clip[t] # None /\ engine'.active[t] # None
                /\ engine'.active[t].request.material # song'[t][runtime'.clip[t]]
              => runtime'.pending[t] # None ]_vars

Waiting(t) == runtime.pending[t] # None /\ t \notin ScheduledOn(runtime)
Coming(t) == t \in ScheduledOn(runtime) /\ runtime.pending[t].target <= MaxBeat

(* What the player asked for is answered: a transition does not wait for   *)
(* ever to be scheduled, unless the loop gave up with an error, and one    *)
(* that is scheduled happens or is withdrawn; a scheduled stop ends the    *)
(* session or is cancelled. (syncPending, handleObservation)               *)
RequestsAnswered ==
    /\ \A t \in Tracks : Waiting(t) ~> ~Waiting(t) \/ sync.pc = "failed"
    /\ \A t \in Tracks : Coming(t) ~> ~Coming(t)
    /\ runtime.stop # None /\ ~Unscheduled(runtime) ~> runtime.stop = None
=============================================================================

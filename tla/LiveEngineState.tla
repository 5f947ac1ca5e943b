-------------------------- MODULE LiveEngineState --------------------------
(***************************************************************************)
(* createLiveAudioEngine of packages/audio-tone: the one owner of the      *)
(* browser's transport, its per-track sources and the materials that are   *)
(* being prepared for them.                                                *)
(*                                                                         *)
(* The state is one record and a call is an operator on it, so that what a *)
(* caller does in one JavaScript task is a composition of these operators. *)
(* A request is a record with at least id, track, kind and target.         *)
(***************************************************************************)
EXTENDS Naturals, FiniteSets, Sequences, FiniteSetsExt

CONSTANTS Tracks,
          Voices,    \* identities for prepared materials, reused when disposed
          Callers,   \* concurrent calls of the asynchronous operations
          None,
          Late,      \* how many beats a transport callback may be late
          MaxBeat    \* bound: the transport is not advanced beyond it

ASSUME EngineAssumption ==
    /\ None \notin Tracks \cup Voices \cup Nat
    /\ Tracks \cap Callers = {}
    /\ Late \in Nat /\ MaxBeat \in Nat
    /\ IsFiniteSet(Tracks) /\ IsFiniteSet(Voices)

VARIABLE engine   \* the one engine of the page

(* phase, unlocked, transportStop, the tracks' active and pending sources; *)
(* buses is the domain of the tracks map. An unlock or a batch in progress *)
(* is fresh while lifecycleGeneration is the one it has captured. running  *)
(* and beat are the port's transport, voices its undisposed materials.     *)
NewEngine ==
    [phase |-> "new", unlocked |-> FALSE, running |-> FALSE, beat |-> 0,
     buses |-> {}, voices |-> {},
     active |-> [t \in Tracks |-> None], pending |-> [t \in Tracks |-> None],
     stop |-> None,
     unlocking |-> [c \in Callers |-> "no"], batch |-> [c \in Callers |-> None]]

Usable(e) == e.phase \notin {"new", "disposed"}

(* What is asked for under these ids, and the engines it may lead to.      *)
Requests(ids) ==
    [id : ids, track : Tracks, kind : {"launch", "stop"}, target : 0 .. MaxBeat]
Sources(ids) ==
    [request : Requests(ids), voice : Voices \cup {None}, armed : BOOLEAN,
     cutoff : (0 .. MaxBeat) \cup {None}]
Jobs(ids) ==
    [requests : Seq(Requests(ids)), held : Seq(Voices \cup {None}), fresh : BOOLEAN]

Engines(ids) ==
    [phase : {"new", "initialized", "blocked", "ready", "running", "suspended",
              "stopped", "disposed"},
     unlocked : BOOLEAN, running : BOOLEAN, beat : 0 .. MaxBeat,
     buses : SUBSET Tracks, voices : SUBSET Voices,
     active : [Tracks -> Sources(ids) \cup {None}],
     pending : [Tracks -> Sources(ids) \cup {None}],
     stop : [id : ids, target : 0 .. MaxBeat] \cup {None},
     unlocking : [Callers -> {"no", "fresh", "stale"}],
     batch : [Callers -> Jobs(ids) \cup {None}]]

-----------------------------------------------------------------------------
(* Sources.                                                                *)

(* A callback that is asked for behind the transport is never called.      *)
Source(e, request, voice) ==
    [request |-> request, voice |-> voice, cutoff |-> None,
     armed |-> request.target >= e.beat]

VoiceOf(source) == IF source = None THEN {} ELSE {source.voice} \ {None}
TrackVoices(e, t) == VoiceOf(e.active[t]) \cup VoiceOf(e.pending[t])
Owning(e) == {t \in Tracks : e.active[t] # None \/ e.pending[t] # None}

(* The beat at which the running source gives way, if there is one.        *)
CutActive(e, t, beat) ==
    IF e.active[t] = None THEN e ELSE [e EXCEPT !.active[t].cutoff = beat]

(* clearSource cancels the handles of a source with it, so a callback that *)
(* is still scheduled belongs to a source that is not disposed.            *)
ClearPending(e, t) ==
    [e EXCEPT !.pending[t] = None, !.voices = @ \ VoiceOf(e.pending[t])]

CleanTracks(e) ==
    [e EXCEPT !.stop = None,
              !.active = [t \in Tracks |-> None],
              !.pending = [t \in Tracks |-> None],
              !.voices = @ \ UNION {TrackVoices(e, t) : t \in Tracks}]

(* lifecycleGeneration += 1 *)
NewGeneration(e) ==
    [e EXCEPT !.unlocking = [c \in Callers |-> IF @[c] = "fresh" THEN "stale" ELSE @[c]],
              !.batch = [c \in Callers |->
                            IF @[c] = None THEN None ELSE [@[c] EXCEPT !.fresh = FALSE]]]

-----------------------------------------------------------------------------
(* The synchronous operations.                                             *)

Restored(e) == IF e.unlocked THEN "ready" ELSE "initialized"

InFlight(e) == {c \in Callers : e.batch[c] # None}

Initializable(e) ==
    /\ e.phase \notin {"disposed", "running", "suspended"}
    /\ e.stop = None /\ InFlight(e) = {} /\ Owning(e) = {}

Initialized(e) == [NewGeneration(e) EXCEPT !.phase = Restored(e)]

(* The browser has resumed its audio, or not; a call that is outdated      *)
(* changes nothing and throws.                                             *)
UnlockResolved(e, c) ==
    LET fresh == e.unlocking[c] = "fresh"
    IN  [e EXCEPT !.unlocking[c] = "no", !.unlocked = @ \/ fresh,
                  !.phase = IF fresh THEN "ready" ELSE @]

UnlockRejected(e, c) ==
    [e EXCEPT !.unlocking[c] = "no",
              !.phase = IF e.unlocking[c] = "fresh" THEN "blocked" ELSE @]

Opened(e, c) ==
    IF e.unlocked THEN Initialized(e) ELSE [Initialized(e) EXCEPT !.unlocking[c] = "fresh"]

Startable(e) == e.unlocked /\ e.phase \in {"ready", "stopped"}
Started(e, at) == [e EXCEPT !.phase = "running", !.running = TRUE, !.beat = at]

(* Mutant: the sources are cleared, but the transport is not stopped. *)
StoppedSilently(e) == [CleanTracks(NewGeneration(e)) EXCEPT !.phase = "stopped"]

(* Mutant: what was asked for before the stop is not outdated by it. *)
StoppedInPlace(e) ==
    [CleanTracks(e) EXCEPT !.phase = "stopped", !.running = FALSE, !.beat = 0]

(* stop, and the callback of a scheduled stop *)
Stopped(e) ==
    [CleanTracks(NewGeneration(e)) EXCEPT
        !.phase = "stopped", !.running = FALSE, !.beat = 0]

Reset(e) ==
    [CleanTracks(NewGeneration(e)) EXCEPT
        !.phase = Restored(e), !.running = FALSE, !.beat = 0, !.buses = {}]

Disposed(e) ==
    [CleanTracks(NewGeneration(e)) EXCEPT
        !.phase = "disposed", !.running = FALSE, !.beat = 0, !.buses = {}]

PendingAs(e, id) == {t \in Tracks : e.pending[t] # None /\ e.pending[t].request.id = id}

(* Mutant: the source that keeps playing is still cut at the old boundary. *)
CancelledOnly(e, t) == ClearPending(e, t)

(* cancelTransition, for the track on which it is pending *)
Cancelled(e, t) == ClearPending(CutActive(e, t, None), t)

StopRefused(e, id, target) ==
    IF e.stop # None THEN e.stop.id # id ELSE target < e.beat

StopScheduled(e, id, target) ==
    IF e.stop = None THEN [e EXCEPT !.stop = [id |-> id, target |-> target]] ELSE e

(* The callback at the target beat of a transition.                        *)
Due(e, t) ==
    /\ e.running /\ e.pending[t] # None
    /\ e.pending[t].armed /\ e.pending[t].request.target <= e.beat

AtBoundary(e, t) ==
    LET source == e.pending[t]
    IN  [e EXCEPT !.pending[t] = None,
                  !.active[t] = IF source.request.kind = "launch" THEN source ELSE None,
                  !.voices = @ \ VoiceOf(e.active[t])]

StopDue(e) == e.running /\ e.stop # None /\ e.stop.target <= e.beat

(* The transport goes on unless a callback would be more than Late late.   *)
Targets(e) ==
    {e.pending[t].request.target : t \in {u \in Tracks : e.pending[u] # None /\ e.pending[u].armed}}
      \cup (IF e.stop = None THEN {} ELSE {e.stop.target})

Advancing(e) ==
    /\ e.running /\ e.beat < MaxBeat
    /\ \A target \in Targets(e) : target <= e.beat => e.beat < target + Late

(* Whether the repeating callback of a source plays its event at a beat.   *)
Plays(source, beat) ==
    /\ source # None
    /\ source.request.target <= beat
    /\ source.cutoff = None \/ beat < source.cutoff

-----------------------------------------------------------------------------
(* scheduleTransitions                                                     *)

TracksOf(requests) == {requests[i].track : i \in DOMAIN requests}
Reserved(e) == UNION {TracksOf(e.batch[c].requests) : c \in InFlight(e)}

Retry(e, request) == e.pending[request.track] # None /\ e.pending[request.track].request = request

(* The track is being prepared for, or another transition is pending on it *)
Unavailable(e, request) ==
    \/ request.track \in Reserved(e)
    \/ e.pending[request.track] # None /\ ~Retry(e, request)

BatchRefused(e, requests) ==
    LET retries == {i \in DOMAIN requests : Retry(e, requests[i])}
    IN  \/ requests = << >>
        \/ \E i \in DOMAIN requests :
              \/ requests[i].target < e.beat
              \/ \E j \in 1 .. i - 1 :
                    requests[j].track = requests[i].track \/ requests[j].id = requests[i].id
              \/ Unavailable(e, requests[i])
        \/ retries # {} /\ retries # DOMAIN requests

AllRetries(e, requests) == \A i \in DOMAIN requests : Retry(e, requests[i])

(* A stop needs no material, so preparation waits at the launches only.    *)
Awaited(requests, from) ==
    Min({i \in from .. Len(requests) : requests[i].kind = "launch"} \cup {Len(requests) + 1})

WithStops(requests, held) ==
    [i \in 1 .. Awaited(requests, Len(held) + 1) - 1 |->
        IF i <= Len(held) THEN held[i] ELSE None]

(* getTrack creates the bus of the track whose material is asked for next. *)
Preparing(e, c, requests, held, fresh) ==
    [e EXCEPT !.batch[c] = [requests |-> requests, held |-> held, fresh |-> fresh],
              !.buses = IF Len(held) < Len(requests)
                        THEN @ \cup {requests[Len(held) + 1].track} ELSE @]

BatchBegun(e, c, requests) ==
    Preparing([e EXCEPT !.buses = @ \cup TracksOf(requests)],
              c, requests, WithStops(requests, << >>), TRUE)

Prepared(e, c) == Len(e.batch[c].held) = Len(e.batch[c].requests)

MaterialPrepared(e, c, voice) ==
    LET b == e.batch[c]
    IN  Preparing([e EXCEPT !.voices = @ \cup {voice}], c, b.requests,
                  WithStops(b.requests, Append(b.held, voice)), b.fresh)

HeldVoices(b) == {b.held[i] : i \in DOMAIN b.held} \ {None}
FreshVoice(e) == CHOOSE v \in Voices \ e.voices : TRUE

BatchDropped(e, c) == [e EXCEPT !.batch[c] = None, !.voices = @ \ HeldVoices(e.batch[c])]

(* Mutant: the beat that passed during the preparation is not noticed. *)
CommitWhenFresh(e, c) == e.batch[c].fresh

Committable(e, c) ==
    /\ e.batch[c].fresh
    /\ \A i \in DOMAIN e.batch[c].requests : e.batch[c].requests[i].target >= e.beat

(* The sources take their places, and what plays is cut at their target.   *)
Committed(e, c) ==
    LET b == e.batch[c]
        new == {i \in DOMAIN b.requests : ~Retry(e, b.requests[i])}
        At(t) == CHOOSE i \in new : b.requests[i].track = t
        placed == {b.requests[i].track : i \in new}
    IN  [e EXCEPT
           !.batch[c] = None,
           !.buses = @ \cup TracksOf(b.requests),
           !.pending = [t \in Tracks |->
               IF t \in placed THEN Source(e, b.requests[At(t)], b.held[At(t)]) ELSE @[t]],
           !.active = [t \in Tracks |->
               IF t \in placed /\ @[t] # None
               THEN [@[t] EXCEPT !.cutoff = b.requests[At(t)].target] ELSE @[t]]]

(* rollbackSources, when the port or a material refused in the middle: the *)
(* first n requests had their source and their cutoff already.             *)
RolledBack(e, c, n) ==
    LET b == e.batch[c]
        touched == {b.requests[i].track : i \in 1 .. n}
    IN  [BatchDropped(e, c) EXCEPT
           !.buses = @ \cup touched,
           !.active = [t \in Tracks |->
               IF t \in touched /\ @[t] # None THEN [@[t] EXCEPT !.cutoff = None] ELSE @[t]]]
=============================================================================

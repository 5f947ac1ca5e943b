-------------------------- MODULE LiveAudioEngine --------------------------
(***************************************************************************)
(* The live audio engine by itself: two callers make its calls in any      *)
(* order, while materials are prepared and the transport calls back.       *)
(***************************************************************************)
EXTENDS LiveEngineState

CONSTANTS Batches,   \* the batches that may be scheduled, targets relative
          StopIds    \* ids of transport stops

BatchIds == UNION {{batch[i].id : i \in DOMAIN batch} : batch \in Batches}
Ids == BatchIds \cup StopIds

ASSUME BatchesAssumption ==
    /\ Batches \subseteq
           Seq([id : BatchIds, track : Tracks, kind : {"launch", "stop"}, target : Nat])
    /\ None \notin Sources(Ids) \cup Jobs(Ids)

-----------------------------------------------------------------------------
(* Every caller unlocks right after initialize, as the live controller,    *)
(* the preview and the song player do.                                     *)

EngineInit == engine = NewEngine

IdleCaller(c) == engine.unlocking[c] = "no" /\ engine.batch[c] = None

Open(c) ==
    /\ IdleCaller(c)
    /\ Initializable(engine)
    /\ engine' = Opened(engine, c)

UnlockResolves(c) == engine.unlocking[c] # "no" /\ engine' = UnlockResolved(engine, c)
UnlockRejects(c) == engine.unlocking[c] # "no" /\ engine' = UnlockRejected(engine, c)

Start == Startable(engine) /\ engine' = Started(engine, engine.beat)

Suspend ==
    /\ engine.phase = "running"
    /\ engine' = [engine EXCEPT !.phase = "suspended", !.running = FALSE]

Resume ==
    /\ engine.phase = "suspended"
    /\ engine' = [engine EXCEPT !.phase = "running", !.running = TRUE]

Stop == Usable(engine) /\ engine' = Stopped(engine)
ResetEngine == Usable(engine) /\ engine' = Reset(engine)
Dispose == engine.phase # "disposed" /\ engine' = Disposed(engine)

(* Targets are given relative to the current beat.                         *)
At(batch) == [i \in DOMAIN batch |-> [batch[i] EXCEPT !.target = engine.beat + @]]

(* One transition only is under way: the rest returns without a trace,     *)
(* except for the buses of the tracks that were looked at.                 *)
Schedule(c, requests) ==
    /\ IdleCaller(c) /\ Usable(engine)
    /\ \A i \in DOMAIN requests : requests[i].target <= MaxBeat
    /\ ~BatchRefused(engine, requests) /\ ~AllRetries(engine, requests)
    /\ LET e == BatchBegun(engine, c, requests)
       IN  engine' = IF Prepared(e, c) THEN Committed(e, c) ELSE e

PrepareResolves(c) ==
    /\ c \in InFlight(engine)
    /\ Voices # engine.voices
    /\ LET e == MaterialPrepared(engine, c, FreshVoice(engine))
       IN  engine' = IF ~Prepared(e, c) THEN e
                     ELSE IF Committable(e, c) THEN Committed(e, c) ELSE BatchDropped(e, c)

PrepareRejects(c) == c \in InFlight(engine) /\ engine' = BatchDropped(engine, c)

CommitFails(c) ==
    /\ c \in InFlight(engine)
    /\ Voices # engine.voices
    /\ LET e == MaterialPrepared(engine, c, FreshVoice(engine))
       IN  /\ Prepared(e, c) /\ Committable(e, c)
           /\ \E n \in 1 .. Len(e.batch[c].requests) : engine' = RolledBack(e, c, n)

CancelTransition(id) == \E t \in PendingAs(engine, id) : engine' = Cancelled(engine, t)

ScheduleTransportStop(id, target) ==
    /\ Usable(engine)
    /\ ~StopRefused(engine, id, target)
    /\ engine' = StopScheduled(engine, id, target)

CancelTransportStop(id) ==
    /\ engine.stop # None /\ engine.stop.id = id
    /\ engine' = [engine EXCEPT !.stop = None]

Boundary(t) == Due(engine, t) /\ engine' = AtBoundary(engine, t)
TransportStop == StopDue(engine) /\ engine' = Stopped(engine)
Tick == Advancing(engine) /\ engine' = [engine EXCEPT !.beat = @ + 1]

EngineNext ==
    \/ Start \/ Suspend \/ Resume \/ Stop \/ ResetEngine \/ Dispose
    \/ TransportStop \/ Tick
    \/ \E c \in Callers :
          \/ Open(c) \/ UnlockResolves(c) \/ UnlockRejects(c)
          \/ \E batch \in Batches : Schedule(c, At(batch))
          \/ PrepareResolves(c) \/ PrepareRejects(c) \/ CommitFails(c)
    \/ \E id \in BatchIds : CancelTransition(id)
    \/ \E id \in StopIds :
          \/ \E target \in engine.beat .. MaxBeat : ScheduleTransportStop(id, target)
          \/ CancelTransportStop(id)
    \/ \E t \in Tracks : Boundary(t)

EngineSpec == EngineInit /\ [][EngineNext]_engine

(* The preparer answers, and the transport keeps calling back.             *)
EngineFairSpec ==
    /\ EngineSpec
    /\ WF_engine(Tick) /\ WF_engine(TransportStop)
    /\ \A c \in Callers : WF_engine(PrepareResolves(c) \/ PrepareRejects(c))
    /\ \A t \in Tracks : WF_engine(Boundary(t))

-----------------------------------------------------------------------------
(* Properties.                                                             *)

(* Types; the transport runs in one phase only, and a source has a bus.    *)
EngineTypeOK ==
    /\ engine \in Engines(Ids)
    /\ engine.running <=> engine.phase = "running"
    /\ Owning(engine) \subseteq engine.buses

(* A track sounds once: what plays gives way at the beat at which its      *)
(* successor is to begin, or goes on when there is none. Whatever is       *)
(* cancelled, rolled back or late, no beat is played twice, and none is    *)
(* silent unless a stop is what takes over. (cutoffBeat, set when a batch  *)
(* is committed, taken back by cancelTransition and rollbackSources)       *)
HandoverExact ==
    \A t \in Tracks : engine.active[t] # None =>
        \A beat \in engine.beat .. MaxBeat + 1 :
            LET next == engine.pending[t]
                over == next # None /\ next.request.target <= beat
            IN  Plays(engine.active[t], beat) = ~over

(* Every material that was prepared is owned once, by a track or by the    *)
(* batch that asked for it, and is released with its owner: a batch that   *)
(* is outdated, late, refused or failed leaves nothing that could sound,   *)
(* and so does a reset that comes while it waits.                          *)
VoicesOwned ==
    LET owners == Tracks \cup InFlight(engine)
        Owned(o) == IF o \in Tracks THEN TrackVoices(engine, o)
                                    ELSE HeldVoices(engine.batch[o])
    IN  /\ engine.voices = UNION {Owned(o) : o \in owners}
        /\ \A o1, o2 \in owners : o1 # o2 => Owned(o1) \cap Owned(o2) = {}

(* Both: every beat has one source, every source one owner.                *)
SourcesExact == HandoverExact /\ VoicesOwned

(* A transition that is pending while the transport runs is executed or    *)
(* withdrawn: its boundary is never missed, because what could be late was *)
(* refused when it was committed. And a disposed engine ends with no       *)
(* material, also when a preparation was in progress and answers later.    *)
TransitionsResolve ==
    /\ \A t \in Tracks :
          (engine.pending[t] # None) ~> (engine.pending[t] = None \/ ~engine.running)
    /\ (engine.phase = "disposed") ~> (engine.voices = {})
=============================================================================

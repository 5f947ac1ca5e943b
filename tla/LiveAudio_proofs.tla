-------------------------- MODULE LiveAudio_proofs --------------------------
(***************************************************************************)
(* Proofs about the live audio engine, alone and under the lease of the    *)
(* page, for any tracks, materials, callers, batches and holders.          *)
(*                                                                         *)
(* The engine: one lemma for each of its operators says that it leads from *)
(* a sound engine to a sound one, whoever calls it and when.               *)
(*                                                                         *)
(* The lease: what a holder does, and what comes late for an earlier one,  *)
(* is a composition of these operators.                                    *)
(***************************************************************************)
EXTENDS LiveAudioEngine, BrowserAudio, WellFoundedInduction, TLAPS

-----------------------------------------------------------------------------
(* THE ENGINE                                                              *)

(***************************************************************************)
(* A sound engine. A source that plays has begun and gives way when the    *)
(* pending one of its track begins; a stop has no material.                *)
(***************************************************************************)
SourceSound(e, t) ==
    /\ e.active[t] # None =>
          /\ e.active[t].request.target <= e.beat
          /\ e.active[t].cutoff =
                IF e.pending[t] = None THEN None ELSE e.pending[t].request.target
    /\ e.pending[t] # None =>
          /\ e.pending[t].cutoff = None
          /\ e.pending[t].request.kind # "launch" => e.pending[t].voice = None

(***************************************************************************)
(* A batch in progress has tracks of its own, on which nothing is pending, *)
(* and a material of its own for each launch that was prepared.            *)
(***************************************************************************)
JobSound(e, c) ==
    LET b == e.batch[c]
    IN  /\ Len(b.held) <= Len(b.requests)
        /\ \A i \in DOMAIN b.requests :
              /\ e.pending[b.requests[i].track] = None
              /\ \A j \in DOMAIN b.requests : i # j => b.requests[i].track # b.requests[j].track
        /\ \A i \in DOMAIN b.held :
              /\ b.requests[i].kind # "launch" => b.held[i] = None
              /\ \A j \in DOMAIN b.held : i # j /\ b.held[i] # None => b.held[i] # b.held[j]

JobsApart(e) ==
    \A c, d \in InFlight(e) :
        c # d => TracksOf(e.batch[c].requests) \cap TracksOf(e.batch[d].requests) = {}

(* It awaits a material for its next request, which is a launch. *)
Waits(b) ==
    /\ Len(b.held) < Len(b.requests)
    /\ b.requests[Len(b.held) + 1].kind = "launch"

(***************************************************************************)
(* Every material is kept in one place.                                    *)
(***************************************************************************)
Heard(e, t) == VoiceOf(e.active[t])
Coming(e, t) == VoiceOf(e.pending[t])
Held(e, c) == IF e.batch[c] = None THEN {} ELSE HeldVoices(e.batch[c])

KeptOnce(e) ==
    /\ e.voices = (UNION {Heard(e, t) \cup Coming(e, t) : t \in Tracks})
                    \cup (UNION {Held(e, c) : c \in Callers})
    /\ \A t, u \in Tracks :
          /\ t # u => Heard(e, t) \cap Heard(e, u) = {} /\ Coming(e, t) \cap Coming(e, u) = {}
          /\ Heard(e, t) \cap Coming(e, u) = {}
    /\ \A c, d \in Callers : c # d => Held(e, c) \cap Held(e, d) = {}
    /\ \A t \in Tracks, c \in Callers : Held(e, c) \cap (Heard(e, t) \cup Coming(e, t)) = {}

Sound(e, ids) ==
    /\ e \in Engines(ids)
    /\ e.running <=> e.phase = "running"
    /\ Owning(e) \subseteq e.buses
    /\ \A t \in Tracks : SourceSound(e, t)
    /\ \A c \in InFlight(e) : JobSound(e, c)
    /\ JobsApart(e)
    /\ KeptOnce(e)

AllWait(e) == \A c \in InFlight(e) : Waits(e.batch[c])

NoneApart(ids) == None \notin Sources(ids) \cup Jobs(ids)

(***************************************************************************)
(* Operators that leave the sources and the materials alone: the transport *)
(* goes on, or begins anew while nothing plays; batches are outdated.      *)
(***************************************************************************)
SameJobs(e, f) ==
    \A c \in Callers :
        /\ e.batch[c] = None <=> f.batch[c] = None
        /\ e.batch[c] # None =>
              f.batch[c].requests = e.batch[c].requests /\ f.batch[c].held = e.batch[c].held

SameMaterial(e, f) ==
    /\ f.active = e.active /\ f.pending = e.pending /\ f.voices = e.voices
    /\ e.buses \subseteq f.buses
    /\ e.beat <= f.beat \/ \A t \in Tracks : e.active[t] = None
    /\ SameJobs(e, f)

LEMMA SameMaterialSound ==
    ASSUME NEW ids, NEW e, NEW f, Sound(e, ids), f \in Engines(ids),
           f.running <=> f.phase = "running", SameMaterial(e, f)
    PROVE  Sound(f, ids) /\ (AllWait(e) => AllWait(f))
<1>1. e \in Engines(ids)
  BY DEF Sound
<1>2. InFlight(f) = InFlight(e)
  BY DEF SameMaterial, SameJobs, InFlight
<1>3. Owning(f) \subseteq f.buses
  BY DEF Owning, Sound, SameMaterial
<1>4. ASSUME NEW t \in Tracks PROVE SourceSound(f, t)
  <2>1. SourceSound(e, t)
    BY DEF Sound
  <2>2. e.active[t] # None => e.active[t].request.target <= f.beat
    <3>1. ASSUME e.active[t] # None PROVE e.active[t].request.target <= f.beat
      <4>1. e.active[t] \in Sources(ids)
        BY <1>1, <3>1 DEF Engines
      <4>2. e.active[t].request.target \in Nat /\ e.beat \in Nat /\ f.beat \in Nat
        BY <1>1, <4>1 DEF Engines, Sources, Requests
      <4> QED
        BY <2>1, <3>1, <4>2 DEF SourceSound, SameMaterial
    <3> QED
      BY <3>1
  <2> QED
    BY <2>1, <2>2 DEF SourceSound, SameMaterial
<1>5. ASSUME NEW c \in InFlight(f) PROVE JobSound(f, c) /\ (Waits(e.batch[c]) => Waits(f.batch[c]))
  <2>1. JobSound(e, c) /\ c \in Callers /\ e.batch[c] # None
    BY <1>2, <1>5 DEF Sound, InFlight
  <2>2. f.batch[c].requests = e.batch[c].requests /\ f.batch[c].held = e.batch[c].held
    BY <2>1 DEF SameMaterial, SameJobs
  <2> QED
    BY <2>1, <2>2 DEF JobSound, SameMaterial, Waits
<1>6. JobsApart(f)
  BY <1>2 DEF JobsApart, Sound, SameMaterial, SameJobs, InFlight
<1>7. \A t \in Tracks : Heard(f, t) = Heard(e, t) /\ Coming(f, t) = Coming(e, t)
  BY DEF Heard, Coming, SameMaterial
<1>8. \A c \in Callers : Held(f, c) = Held(e, c)
  BY DEF Held, HeldVoices, SameMaterial, SameJobs
<1>9. KeptOnce(f)
  BY <1>7, <1>8 DEF KeptOnce, Sound, SameMaterial
<1> QED
  BY <1>2, <1>3, <1>4, <1>5, <1>6, <1>9 DEF Sound, AllWait

(***************************************************************************)
(* Reading a batch.                                                        *)
(***************************************************************************)
LEMMA JobIs ==
    ASSUME NEW ids, NEW b \in Jobs(ids)
    PROVE  /\ b.requests \in Seq(Requests(ids)) /\ b.held \in Seq(Voices \cup {None})
           /\ b.fresh \in BOOLEAN
           /\ \A i \in DOMAIN b.requests :
                 /\ b.requests[i] \in Requests(ids)
                 /\ b.requests[i].track \in Tracks /\ b.requests[i].target \in 0 .. MaxBeat
                 /\ b.requests[i].kind \in {"launch", "stop"} /\ b.requests[i].id \in ids
           /\ \A i \in DOMAIN b.held : b.held[i] \in Voices \cup {None}
<1>1. b.requests \in Seq(Requests(ids)) /\ b.held \in Seq(Voices \cup {None}) /\ b.fresh \in BOOLEAN
  BY DEF Jobs
<1>2. \A i \in DOMAIN b.requests : b.requests[i] \in Requests(ids)
  BY <1>1
<1>3. \A i \in DOMAIN b.held : b.held[i] \in Voices \cup {None}
  BY <1>1
<1> QED
  BY <1>1, <1>2, <1>3 DEF Requests

(***************************************************************************)
(* NewGeneration: what was asked for is outdated, and stays where it is.   *)
(***************************************************************************)
LEMMA NewGenerationIs ==
    ASSUME NEW ids, NoneApart(ids), NEW e \in Engines(ids)
    PROVE  /\ NewGeneration(e) \in Engines(ids)
           /\ SameJobs(e, NewGeneration(e))
           /\ \A c \in Callers :
                 /\ NewGeneration(e).unlocking[c] # "fresh"
                 /\ NewGeneration(e).unlocking[c] = "no" <=> e.unlocking[c] = "no"
                 /\ NewGeneration(e).batch[c] # None => ~NewGeneration(e).batch[c].fresh
           /\ NewGeneration(e) =
                 [e EXCEPT !.unlocking = NewGeneration(e).unlocking, !.batch = NewGeneration(e).batch]
<1> DEFINE n == NewGeneration(e)
<1>1. n = [e EXCEPT !.unlocking = n.unlocking, !.batch = n.batch]
  BY DEF NewGeneration, Engines
<1>2. \A c \in Callers :
          /\ n.unlocking[c] = IF e.unlocking[c] = "fresh" THEN "stale" ELSE e.unlocking[c]
          /\ n.batch[c] = IF e.batch[c] = None THEN None ELSE [e.batch[c] EXCEPT !.fresh = FALSE]
  BY DEF NewGeneration, Engines
<1>4. n.unlocking \in [Callers -> {"no", "fresh", "stale"}]
  BY DEF NewGeneration, Engines
<1> HIDE DEF n
<1>3. \A c \in Callers : e.batch[c] # None =>
          /\ n.batch[c] \in Jobs(ids) /\ n.batch[c] # None /\ ~n.batch[c].fresh
          /\ n.batch[c].requests = e.batch[c].requests /\ n.batch[c].held = e.batch[c].held
  <2> TAKE c \in Callers
  <2> HAVE e.batch[c] # None
  <2>1. e.batch[c] \in Jobs(ids) /\ n.batch[c] = [e.batch[c] EXCEPT !.fresh = FALSE]
    BY <1>2 DEF Engines
  <2>2. n.batch[c] \in Jobs(ids) /\ ~n.batch[c].fresh
        /\ n.batch[c].requests = e.batch[c].requests /\ n.batch[c].held = e.batch[c].held
    BY <2>1 DEF Jobs
  <2> QED
    BY <2>2 DEF NoneApart
<1>5. n.batch \in [Callers -> Jobs(ids) \cup {None}]
  <2>1. n.batch = [c \in Callers |-> n.batch[c]]
    BY DEF NewGeneration, Engines, n
  <2> QED
    BY <1>2, <1>3, <2>1
<1>6. n \in Engines(ids)
  BY <1>1, <1>4, <1>5 DEF Engines
<1>7. SameJobs(e, n)
  BY <1>2, <1>3 DEF SameJobs
<1>8. \A c \in Callers :
          /\ n.unlocking[c] # "fresh"
          /\ n.unlocking[c] = "no" <=> e.unlocking[c] = "no"
          /\ n.batch[c] # None => ~n.batch[c].fresh
  BY <1>2, <1>3 DEF Engines
<1> QED
  BY <1>1, <1>6, <1>7, <1>8 DEF n

(***************************************************************************)
(* cleanTracks releases what the tracks had, and nothing else.             *)
(***************************************************************************)
LEMMA CleanTracksIs ==
    ASSUME NEW ids, NEW e, Sound(e, ids)
    PROVE  LET f == CleanTracks(e)
           IN  /\ Sound(f, ids) /\ (AllWait(e) => AllWait(f))
               /\ Owning(f) = {} /\ f.stop = None
               /\ f = [e EXCEPT !.stop = None, !.active = f.active, !.pending = f.pending,
                                !.voices = f.voices]
<1> DEFINE f == CleanTracks(e)
<1>1. e \in Engines(ids)
  BY DEF Sound
<1>2. /\ f = [e EXCEPT !.stop = None, !.active = f.active, !.pending = f.pending,
                       !.voices = f.voices]
      /\ \A t \in Tracks : f.active[t] = None /\ f.pending[t] = None
      /\ f.voices = e.voices \ UNION {Heard(e, t) \cup Coming(e, t) : t \in Tracks}
  BY <1>1 DEF CleanTracks, Engines, TrackVoices, Heard, Coming
<1>3. f \in Engines(ids)
  <2>1. f.active \in [Tracks -> {None}] /\ f.pending \in [Tracks -> {None}] /\ f.voices \subseteq Voices
    BY <1>1 DEF CleanTracks, Engines
  <2> HIDE DEF f
  <2> QED
    BY <1>1, <1>2, <2>1 DEF Engines
<1> HIDE DEF f
<1>4. Owning(f) = {} /\ f.stop = None /\ f.batch = e.batch /\ f.running = e.running /\ f.phase = e.phase
  <2>1. f.stop = None /\ f.batch = e.batch /\ f.running = e.running /\ f.phase = e.phase
    BY <1>1 DEF Engines, f, CleanTracks
  <2> QED
    BY <1>2, <2>1 DEF Owning
<1>5. InFlight(f) = InFlight(e)
  BY <1>4 DEF InFlight
<1>6. \A t \in Tracks : SourceSound(f, t) /\ Heard(f, t) = {} /\ Coming(f, t) = {}
  BY <1>2 DEF SourceSound, Heard, Coming, VoiceOf
<1>7. \A c \in InFlight(f) : JobSound(f, c)
  <2> TAKE c \in InFlight(f)
  <2>1. JobSound(e, c) /\ e.batch[c] \in Jobs(ids)
    BY <1>1, <1>5 DEF Sound, InFlight, Engines
  <2>2. \A i \in DOMAIN e.batch[c].requests : e.batch[c].requests[i].track \in Tracks
    BY <2>1, JobIs
  <2> QED
    BY <1>2, <1>4, <2>1, <2>2 DEF JobSound
<1>8. JobsApart(f)
  BY <1>4, <1>5 DEF JobsApart, Sound
<1>9. KeptOnce(f)
  <2>1. \A c \in Callers : Held(f, c) = Held(e, c)
    BY <1>4 DEF Held
  <2> DEFINE ofTracks == UNION {Heard(e, t) \cup Coming(e, t) : t \in Tracks}
             ofJobs == UNION {Held(e, c) : c \in Callers}
  <2>2. f.voices = ofJobs
    <3>1. KeptOnce(e)
      BY DEF Sound
    <3>2. e.voices = ofTracks \cup ofJobs /\ f.voices = e.voices \ ofTracks
      <4>1. e.voices = ofTracks \cup ofJobs
        BY <3>1 DEF KeptOnce
      <4> QED
        BY <1>2, <4>1
    <3>3. ofTracks \cap ofJobs = {}
      BY <3>1 DEF KeptOnce
    <3> HIDE DEF ofTracks, ofJobs
    <3> QED
      BY <3>2, <3>3
  <2>3. UNION {Heard(f, t) \cup Coming(f, t) : t \in Tracks} = {}
    BY <1>6
  <2>4. ofJobs = UNION {Held(f, c) : c \in Callers}
    BY <2>1
  <2>5. KeptOnce(e)
    BY DEF Sound
  <2>6. f.voices = (UNION {Heard(f, t) \cup Coming(f, t) : t \in Tracks})
                     \cup (UNION {Held(f, c) : c \in Callers})
    BY <2>2, <2>3, <2>4
  <2>7. \A c, d \in Callers : c # d => Held(f, c) \cap Held(f, d) = {}
    BY <2>1, <2>5 DEF KeptOnce
  <2> QED
    BY <1>6, <2>6, <2>7 DEF KeptOnce
<1>10. AllWait(e) => AllWait(f)
  BY <1>4, <1>5 DEF AllWait
<1> QED
  BY <1>2, <1>3, <1>4, <1>6, <1>7, <1>8, <1>9, <1>10 DEF Sound, f

(***************************************************************************)
(* stop, reset and dispose: silence, and nothing is fresh.                 *)
(***************************************************************************)
Silent(f) ==
    /\ Owning(f) = {} /\ f.stop = None /\ ~f.running /\ f.beat = 0
    /\ \A c \in Callers :
          f.unlocking[c] # "fresh" /\ (f.batch[c] # None => ~f.batch[c].fresh)

Quiet(e, phase, buses) ==
    [CleanTracks(NewGeneration(e)) EXCEPT
        !.phase = phase, !.running = FALSE, !.beat = 0, !.buses = buses]

LEMMA Silences ==
    ASSUME NEW ids, NoneApart(ids), NEW e, Sound(e, ids), NEW f,
           NEW phase \in {"initialized", "ready", "stopped", "disposed"},
           NEW buses \in SUBSET Tracks,
           f = Quiet(e, phase, buses)
    PROVE  /\ Sound(f, ids) /\ (AllWait(e) => AllWait(f))
           /\ Silent(f) /\ f.phase = phase /\ f.unlocked = e.unlocked /\ SameJobs(e, f)
           /\ \A c \in Callers : f.unlocking[c] = "no" <=> e.unlocking[c] = "no"
<1> DEFINE n == NewGeneration(e)
           k == CleanTracks(n)
<1>1. e \in Engines(ids)
  BY DEF Sound
<1>2. /\ n \in Engines(ids) /\ SameJobs(e, n)
      /\ n = [e EXCEPT !.unlocking = n.unlocking, !.batch = n.batch]
      /\ \A c \in Callers :
            /\ n.unlocking[c] # "fresh"
            /\ n.unlocking[c] = "no" <=> e.unlocking[c] = "no"
            /\ n.batch[c] # None => ~n.batch[c].fresh
  BY <1>1, NewGenerationIs
<1> HIDE DEF n
<1>3. /\ n.active = e.active /\ n.pending = e.pending /\ n.voices = e.voices /\ n.buses = e.buses
      /\ n.beat = e.beat /\ n.running = e.running /\ n.phase = e.phase /\ n.unlocked = e.unlocked
  BY <1>1, <1>2 DEF Engines
<1>4. SameMaterial(e, n)
  BY <1>1, <1>2, <1>3 DEF SameMaterial, Engines
<1>5. Sound(n, ids) /\ (AllWait(e) => AllWait(n))
  BY <1>2, <1>3, <1>4, SameMaterialSound DEF Sound
<1>6. /\ Sound(k, ids) /\ (AllWait(e) => AllWait(k)) /\ Owning(k) = {} /\ k.stop = None
      /\ k = [n EXCEPT !.stop = None, !.active = k.active, !.pending = k.pending,
                       !.voices = k.voices]
  BY <1>5, CleanTracksIs
<1> HIDE DEF k
<1>7. k.unlocking = n.unlocking /\ k.batch = n.batch /\ k.unlocked = n.unlocked
  BY <1>2, <1>6 DEF Engines
<1>8. k \in Engines(ids)
  BY <1>6 DEF Sound
<1>9. f = [k EXCEPT !.phase = phase, !.running = FALSE, !.beat = 0, !.buses = buses]
  BY DEF k, n, Quiet
<1>10. f \in Engines(ids) /\ f.phase = phase /\ f.beat = 0 /\ f.running = FALSE
  <2>1. 0 \in 0 .. MaxBeat
    BY EngineAssumption
  <2> QED
    BY <1>8, <1>9, <2>1 DEF Engines
<1>11. /\ f.active = k.active /\ f.pending = k.pending /\ f.voices = k.voices /\ f.batch = k.batch
       /\ f.unlocking = k.unlocking /\ f.stop = k.stop /\ f.unlocked = k.unlocked
  BY <1>8, <1>9 DEF Engines
<1>12. Owning(f) = {} /\ \A t \in Tracks : k.active[t] = None
  BY <1>6, <1>11 DEF Owning
<1>13. Sound(f, ids) /\ (AllWait(k) => AllWait(f))
  <2>1. Owning(f) \subseteq f.buses
    BY <1>12
  <2>2. \A t \in Tracks : SourceSound(f, t)
    BY <1>11, <1>6, <1>12 DEF SourceSound, Owning, Sound
  <2>3. InFlight(f) = InFlight(k) /\ \A c \in InFlight(f) : JobSound(f, c)
    BY <1>6, <1>11 DEF InFlight, JobSound, Sound
  <2>4. JobsApart(f)
    BY <1>6, <1>11, <2>3 DEF JobsApart, Sound
  <2>5. /\ \A t \in Tracks : Heard(f, t) = Heard(k, t) /\ Coming(f, t) = Coming(k, t)
        /\ \A c \in Callers : Held(f, c) = Held(k, c)
    BY <1>11 DEF Heard, Coming, Held
  <2>6. KeptOnce(f)
    BY <1>6, <1>11, <2>5 DEF KeptOnce, Sound
  <2> QED
    BY <1>10, <1>11, <2>1, <2>2, <2>3, <2>4, <2>6 DEF Sound, AllWait
<1>14. Silent(f)
  BY <1>2, <1>6, <1>7, <1>10, <1>11, <1>12 DEF Silent
<1>15. SameJobs(e, f) /\ \A c \in Callers : f.unlocking[c] = "no" <=> e.unlocking[c] = "no"
  BY <1>2, <1>7, <1>11 DEF SameJobs
<1> QED
  BY <1>3, <1>6, <1>7, <1>10, <1>11, <1>13, <1>14, <1>15

(***************************************************************************)
(* Materials that are released.                                            *)
(***************************************************************************)
LEMMA KeptRestrict ==
    ASSUME NEW e, NEW f, NEW gone, KeptOnce(e), f.voices = e.voices \ gone,
           \A t \in Tracks : Heard(f, t) = Heard(e, t) \ gone /\ Coming(f, t) = Coming(e, t) \ gone,
           \A c \in Callers : Held(f, c) = Held(e, c) \ gone
    PROVE  KeptOnce(f)
<1>1. UNION {Heard(f, t) \cup Coming(f, t) : t \in Tracks}
        = (UNION {Heard(e, t) \cup Coming(e, t) : t \in Tracks}) \ gone
  OBVIOUS
<1>2. UNION {Held(f, c) : c \in Callers} = (UNION {Held(e, c) : c \in Callers}) \ gone
  OBVIOUS
<1>3. f.voices = (UNION {Heard(f, t) \cup Coming(f, t) : t \in Tracks})
                   \cup (UNION {Held(f, c) : c \in Callers})
  BY <1>1, <1>2 DEF KeptOnce
<1> QED
  BY <1>3 DEF KeptOnce

(* A source whose cutoff is moved keeps its voice. *)
LEMMA CutSource ==
    ASSUME NEW ids, NoneApart(ids), NEW s \in Sources(ids), NEW beat \in (0 .. MaxBeat) \cup {None}
    PROVE  LET cut == [s EXCEPT !.cutoff = beat]
           IN  /\ cut \in Sources(ids) /\ cut # None /\ s # None
               /\ cut.cutoff = beat /\ cut.request = s.request /\ VoiceOf(cut) = VoiceOf(s)
<1> DEFINE cut == [s EXCEPT !.cutoff = beat]
<1>1. cut \in Sources(ids) /\ cut.cutoff = beat /\ cut.request = s.request /\ cut.voice = s.voice
  BY DEF Sources
<1> HIDE DEF cut
<1>2. cut # None /\ s # None
  BY <1>1 DEF NoneApart
<1>3. VoiceOf(cut) = VoiceOf(s)
  BY <1>1, <1>2 DEF VoiceOf
<1> QED
  BY <1>1, <1>2, <1>3 DEF cut

LEMMA SourceIs ==
    ASSUME NEW ids, NEW s \in Sources(ids)
    PROVE  /\ s.request \in Requests(ids) /\ s.voice \in Voices \cup {None}
           /\ s.request.target \in 0 .. MaxBeat /\ s.request.kind \in {"launch", "stop"}
           /\ s.request.track \in Tracks
           /\ VoiceOf(s) \subseteq Voices
<1>1. s.request \in Requests(ids) /\ s.voice \in Voices \cup {None}
  BY DEF Sources
<1> QED
  BY <1>1 DEF Requests, VoiceOf

(* What the operators on one track or batch leave as it was. *)
Elsewhere(e, f) ==
    /\ f.running = e.running /\ f.phase = e.phase /\ f.beat = e.beat /\ f.stop = e.stop
    /\ f.unlocked = e.unlocked /\ f.unlocking = e.unlocking

(***************************************************************************)
(* A track whose pending source is gone, for whatever reason.              *)
(***************************************************************************)
OneTrack(e, f, t) ==
    /\ f = [e EXCEPT !.active = f.active, !.pending = f.pending, !.voices = f.voices]
    /\ f.active = [u \in Tracks |-> f.active[u]] /\ f.pending = [u \in Tracks |-> f.pending[u]]
    /\ \A u \in Tracks : u # t => f.active[u] = e.active[u] /\ f.pending[u] = e.pending[u]
    /\ f.pending[t] = None
    /\ f.voices \subseteq e.voices

LEMMA OneTrackIs ==
    ASSUME NEW ids, NEW e \in Engines(ids), NEW f, NEW t \in Tracks, OneTrack(e, f, t)
    PROVE  f.batch = e.batch /\ f.buses = e.buses /\ Elsewhere(e, f)
BY DEF OneTrack, Engines, Elsewhere

LEMMA OneTrackSound ==
    ASSUME NEW ids, NEW e, Sound(e, ids), NEW f, NEW t \in Tracks, OneTrack(e, f, t),
           f.active[t] \in Sources(ids) \cup {None}, f.active[t] # None => t \in Owning(e),
           SourceSound(f, t), KeptOnce(f)
    PROVE  /\ Sound(f, ids) /\ (AllWait(e) => AllWait(f))
           /\ f.batch = e.batch /\ Elsewhere(e, f)
<1>1. e \in Engines(ids)
  BY DEF Sound
<1>2. f.batch = e.batch /\ f.buses = e.buses /\ Elsewhere(e, f)
  BY <1>1, OneTrackIs
<1>3. /\ \A u \in Tracks : u # t => f.active[u] = e.active[u] /\ f.pending[u] = e.pending[u]
      /\ f.pending[t] = None
  BY DEF OneTrack
<1>4. \A u \in Tracks : f.active[u] \in Sources(ids) \cup {None} /\ f.pending[u] \in Sources(ids) \cup {None}
  <2>1. /\ e.active \in [Tracks -> Sources(ids) \cup {None}]
        /\ e.pending \in [Tracks -> Sources(ids) \cup {None}]
    BY <1>1 DEF Engines
  <2> QED
    BY <1>3, <2>1
<1>5. f \in Engines(ids)
  <2>1. /\ f.active \in [Tracks -> Sources(ids) \cup {None}]
        /\ f.pending \in [Tracks -> Sources(ids) \cup {None}]
    BY <1>4 DEF OneTrack
  <2>2. f.voices \in SUBSET Voices
    BY <1>1 DEF OneTrack, Engines
  <2>3. f = [e EXCEPT !.active = f.active, !.pending = f.pending, !.voices = f.voices]
    BY DEF OneTrack
  <2> QED
    BY <1>1, <2>1, <2>2, <2>3 DEF Engines
<1>6. \A u \in Tracks : SourceSound(f, u)
  <2> TAKE u \in Tracks
  <2>1. CASE u = t
    BY <2>1
  <2>2. CASE u # t
    <3>1. SourceSound(e, u) /\ f.active[u] = e.active[u] /\ f.pending[u] = e.pending[u] /\ f.beat = e.beat
      BY <1>2, <1>3, <2>2 DEF Sound, Elsewhere
    <3> QED
      BY <3>1 DEF SourceSound
  <2> QED
    BY <2>1, <2>2
<1>7. Owning(f) \subseteq f.buses
  <2>1. Owning(f) \subseteq Owning(e)
    BY <1>3 DEF Owning
  <2> QED
    BY <1>2, <2>1 DEF Sound
<1>8. InFlight(f) = InFlight(e)
  BY <1>2 DEF InFlight
<1>9. JobsApart(f)
  BY <1>2, <1>8 DEF JobsApart, Sound
<1>10. \A c \in InFlight(f) : JobSound(f, c)
  <2> TAKE c \in InFlight(f)
  <2>1. JobSound(e, c) /\ e.batch[c] \in Jobs(ids)
    BY <1>1, <1>8 DEF Sound, InFlight, Engines
  <2>2. \A i \in DOMAIN e.batch[c].requests : e.batch[c].requests[i].track \in Tracks
    BY <2>1, JobIs
  <2>3. \A i \in DOMAIN e.batch[c].requests : f.pending[e.batch[c].requests[i].track] = None
    BY <1>3, <2>1, <2>2 DEF JobSound
  <2>4. f.batch[c] = e.batch[c]
    BY <1>2
  <2> QED
    BY <2>1, <2>3, <2>4 DEF JobSound
<1>11. AllWait(e) => AllWait(f)
  BY <1>2, <1>8 DEF AllWait
<1>12. f.running <=> f.phase = "running"
  BY <1>2 DEF Sound, Elsewhere
<1> QED
  BY <1>2, <1>5, <1>6, <1>7, <1>9, <1>10, <1>11, <1>12 DEF Sound

(***************************************************************************)
(* cancelTransition gives the beats after the boundary back to the source  *)
(* that plays.                                                             *)
(***************************************************************************)
LEMMA CancelledSound ==
    ASSUME NEW ids, NoneApart(ids), NEW e, Sound(e, ids), NEW t \in Tracks
    PROVE  LET f == Cancelled(e, t)
           IN  /\ Sound(f, ids) /\ (AllWait(e) => AllWait(f))
               /\ f.batch = e.batch /\ Elsewhere(e, f)
<1> DEFINE f == Cancelled(e, t)
<1>1. e \in Engines(ids)
  BY DEF Sound
<1>2. /\ OneTrack(e, f, t) /\ f.voices = e.voices \ Coming(e, t)
      /\ f.active[t] = IF e.active[t] = None THEN None ELSE [e.active[t] EXCEPT !.cutoff = None]
  BY <1>1 DEF Cancelled, ClearPending, CutActive, Engines, OneTrack, Coming
<1> HIDE DEF f
<1>3. \A u \in Tracks : u # t => f.active[u] = e.active[u] /\ f.pending[u] = e.pending[u]
  BY <1>2 DEF OneTrack
<1>4. f.pending[t] = None /\ f.batch = e.batch /\ f.beat = e.beat
  <2>1. f.batch = e.batch /\ Elsewhere(e, f)
    BY <1>1, <1>2, OneTrackIs
  <2>2. f.pending[t] = None
    BY <1>2 DEF OneTrack
  <2> QED
    BY <2>1, <2>2 DEF Elsewhere
<1>5. e.active[t] \in Sources(ids) \cup {None} /\ SourceSound(e, t)
  BY <1>1 DEF Engines, Sound
<1>6. e.active[t] # None =>
          /\ f.active[t] \in Sources(ids) /\ f.active[t] # None /\ f.active[t].cutoff = None
          /\ f.active[t].request = e.active[t].request /\ VoiceOf(f.active[t]) = VoiceOf(e.active[t])
  BY <1>2, <1>5, CutSource
<1>7. e.active[t] = None => f.active[t] = None
  BY <1>2
<1>8. f.active[t] \in Sources(ids) \cup {None} /\ (f.active[t] # None => t \in Owning(e))
  BY <1>6, <1>7 DEF Owning
<1>9. SourceSound(f, t)
  BY <1>4, <1>5, <1>6, <1>7 DEF SourceSound
<1>10. KeptOnce(f)
  <2>1. KeptOnce(e)
    BY DEF Sound
  <2> DEFINE gone == Coming(e, t)
  <2>2. \A u \in Tracks : Heard(f, u) = Heard(e, u)
    BY <1>3, <1>6, <1>7 DEF Heard, VoiceOf
  <2>3. \A u \in Tracks : Coming(f, u) = IF u = t THEN {} ELSE Coming(e, u)
    BY <1>3, <1>4 DEF Coming, VoiceOf
  <2>4. \A c \in Callers : Held(f, c) = Held(e, c)
    BY <1>4 DEF Held
  <2>5. /\ \A u \in Tracks : Heard(e, u) \cap gone = {} /\ (u # t => Coming(e, u) \cap gone = {})
        /\ \A c \in Callers : Held(e, c) \cap gone = {}
    BY <2>1 DEF KeptOnce
  <2> HIDE DEF gone
  <2>6. /\ \A u \in Tracks : Heard(f, u) = Heard(e, u) \ gone
        /\ \A c \in Callers : Held(f, c) = Held(e, c) \ gone
    BY <2>2, <2>4, <2>5
  <2>7. \A u \in Tracks : Coming(f, u) = Coming(e, u) \ gone
    BY <2>3, <2>5 DEF gone
  <2>8. f.voices = e.voices \ gone
    BY <1>2 DEF gone
  <2> QED
    BY <2>1, <2>6, <2>7, <2>8, KeptRestrict
<1> QED
  BY <1>2, <1>8, <1>9, <1>10, OneTrackSound DEF f

(***************************************************************************)
(* At its boundary the pending source takes the place of the active one.   *)
(***************************************************************************)
LEMMA AtBoundarySound ==
    ASSUME NEW ids, NoneApart(ids), NEW e, Sound(e, ids), NEW t \in Tracks, Due(e, t)
    PROVE  LET f == AtBoundary(e, t)
           IN  /\ Sound(f, ids) /\ (AllWait(e) => AllWait(f))
               /\ f.batch = e.batch /\ Elsewhere(e, f)
<1> DEFINE f == AtBoundary(e, t)
           s == e.pending[t]
<1>1. e \in Engines(ids)
  BY DEF Sound
<1>2. /\ OneTrack(e, f, t) /\ f.voices = e.voices \ Heard(e, t)
      /\ f.active[t] = IF s.request.kind = "launch" THEN s ELSE None
  BY <1>1 DEF AtBoundary, Engines, OneTrack, Heard
<1> HIDE DEF f
<1>3. \A u \in Tracks : u # t => f.active[u] = e.active[u] /\ f.pending[u] = e.pending[u]
  BY <1>2 DEF OneTrack
<1>4. f.pending[t] = None /\ f.batch = e.batch /\ f.beat = e.beat
  <2>1. f.batch = e.batch /\ Elsewhere(e, f)
    BY <1>1, <1>2, OneTrackIs
  <2>2. f.pending[t] = None
    BY <1>2 DEF OneTrack
  <2> QED
    BY <2>1, <2>2 DEF Elsewhere
<1>5. s \in Sources(ids) /\ s # None /\ s.request.target <= e.beat /\ SourceSound(e, t)
  BY <1>1 DEF Due, Engines, Sound
<1>8. f.active[t] \in Sources(ids) \cup {None} /\ t \in Owning(e)
  BY <1>2, <1>5 DEF Owning
<1>9. SourceSound(f, t)
  BY <1>2, <1>4, <1>5 DEF SourceSound
<1>10. KeptOnce(f)
  <2>1. KeptOnce(e)
    BY DEF Sound
  <2>2. \A u \in Tracks : u # t => Heard(f, u) = Heard(e, u) /\ Coming(f, u) = Coming(e, u)
    BY <1>3 DEF Heard, Coming
  <2>3. Heard(f, t) = Coming(e, t) /\ Coming(f, t) = {}
    BY <1>2, <1>4, <1>5 DEF Heard, Coming, VoiceOf, SourceSound
  <2>4. \A c \in Callers : Held(f, c) = Held(e, c)
    BY <1>4 DEF Held
  <2>5. f.voices = (UNION {Heard(f, u) \cup Coming(f, u) : u \in Tracks})
                     \cup (UNION {Held(f, c) : c \in Callers})
    <3>1. ASSUME NEW v
          PROVE  v \in f.voices <=> \/ \E u \in Tracks : v \in Heard(f, u) \cup Coming(f, u)
                                    \/ \E c \in Callers : v \in Held(f, c)
      <4>1. v \in e.voices <=> \/ \E u \in Tracks : v \in Heard(e, u) \cup Coming(e, u)
                               \/ \E c \in Callers : v \in Held(e, c)
        BY <2>1 DEF KeptOnce
      <4>2. v \in f.voices <=> v \in e.voices /\ v \notin Heard(e, t)
        BY <1>2
      <4>3. v \in Heard(e, t) =>
                /\ \A u \in Tracks : v \notin Coming(e, u) /\ (u # t => v \notin Heard(e, u))
                /\ \A c \in Callers : v \notin Held(e, c)
        BY <2>1 DEF KeptOnce
      <4> QED
        BY <4>1, <4>2, <4>3, <2>2, <2>3, <2>4
    <3> QED
      BY <3>1
  <2>6. /\ \A u, w \in Tracks :
              /\ u # w => Heard(f, u) \cap Heard(f, w) = {} /\ Coming(f, u) \cap Coming(f, w) = {}
              /\ Heard(f, u) \cap Coming(f, w) = {}
        /\ \A u \in Tracks, c \in Callers : Held(f, c) \cap (Heard(f, u) \cup Coming(f, u)) = {}
    BY <2>1, <2>2, <2>3, <2>4 DEF KeptOnce
  <2> QED
    BY <2>1, <2>4, <2>5, <2>6 DEF KeptOnce
<1> QED
  BY <1>2, <1>8, <1>9, <1>10, OneTrackSound DEF f

(***************************************************************************)
(* A batch that begins, waits, or is dropped.                              *)
(***************************************************************************)
OthersWait(e, c) == \A d \in InFlight(e) : d # c => Waits(e.batch[d])

OneJob(e, f, c) ==
    /\ f = [e EXCEPT !.batch = f.batch, !.buses = f.buses, !.voices = f.voices]
    /\ f.batch = [d \in Callers |-> f.batch[d]]
    /\ \A d \in Callers : d # c => f.batch[d] = e.batch[d]
    /\ e.buses \subseteq f.buses

(* No other batch in progress has a track of these requests. *)
OwnTracks(e, c, requests) ==
    \A d \in InFlight(e) : d # c => TracksOf(requests) \cap TracksOf(e.batch[d].requests) = {}

LEMMA OneJobIs ==
    ASSUME NEW ids, NEW e \in Engines(ids), NEW f, NEW c \in Callers, OneJob(e, f, c)
    PROVE  f.active = e.active /\ f.pending = e.pending /\ Elsewhere(e, f)
BY DEF OneJob, Engines, Elsewhere

LEMMA OneJobSound ==
    ASSUME NEW ids, NEW e, Sound(e, ids), NEW f, NEW c \in Callers, OneJob(e, f, c),
           f.batch[c] \in Jobs(ids) \cup {None}, f.buses \subseteq Tracks, f.voices \subseteq Voices,
           f.batch[c] # None => JobSound(f, c) /\ OwnTracks(e, c, f.batch[c].requests),
           KeptOnce(f)
    PROVE  /\ Sound(f, ids)
           /\ OthersWait(e, c) => OthersWait(f, c) /\ (f.batch[c] = None => AllWait(f))
           /\ f.active = e.active /\ f.pending = e.pending /\ Elsewhere(e, f)
           /\ \A d \in Callers : d # c => f.batch[d] = e.batch[d]
<1>1. e \in Engines(ids)
  BY DEF Sound
<1>2. f.active = e.active /\ f.pending = e.pending /\ Elsewhere(e, f)
  BY <1>1, OneJobIs
<1>3. \A d \in Callers : d # c => f.batch[d] = e.batch[d]
  BY DEF OneJob
<1>4. f \in Engines(ids)
  <2>1. e.batch \in [Callers -> Jobs(ids) \cup {None}]
    BY <1>1 DEF Engines
  <2>2. f.batch \in [Callers -> Jobs(ids) \cup {None}]
    BY <1>3, <2>1 DEF OneJob
  <2>3. f = [e EXCEPT !.batch = f.batch, !.buses = f.buses, !.voices = f.voices]
    BY DEF OneJob
  <2> QED
    BY <1>1, <2>2, <2>3 DEF Engines
<1>5. Owning(f) \subseteq f.buses
  <2>1. Owning(f) = Owning(e) /\ e.buses \subseteq f.buses
    BY <1>2 DEF Owning, OneJob
  <2> QED
    BY <2>1 DEF Sound
<1>6. \A t \in Tracks : SourceSound(f, t)
  BY <1>2 DEF Sound, SourceSound, Elsewhere
<1>7. \A d \in InFlight(f) : d # c => d \in InFlight(e) /\ f.batch[d] = e.batch[d]
  BY <1>3 DEF InFlight
<1>8. ASSUME NEW d \in InFlight(f) PROVE JobSound(f, d)
  <2>1. CASE d = c
    BY <1>8, <2>1 DEF InFlight
  <2>2. CASE d # c
    <3>1. JobSound(e, d) /\ f.batch[d] = e.batch[d]
      BY <1>7, <1>8, <2>2 DEF Sound
    <3> QED
      BY <1>2, <3>1 DEF JobSound
  <2> QED
    BY <2>1, <2>2
<1>9. JobsApart(f)
  <2> SUFFICES ASSUME NEW d1 \in InFlight(f), NEW d2 \in InFlight(f), d1 # d2
               PROVE  TracksOf(f.batch[d1].requests) \cap TracksOf(f.batch[d2].requests) = {}
    BY DEF JobsApart
  <2>1. CASE d1 # c /\ d2 # c
    BY <1>7, <2>1 DEF Sound, JobsApart
  <2>2. CASE d1 = c
    BY <1>7, <2>2 DEF OwnTracks, InFlight
  <2>3. CASE d2 = c
    <3>1. f.batch[c] # None /\ d1 \in InFlight(e) /\ f.batch[d1] = e.batch[d1]
      BY <1>7, <2>3 DEF InFlight
    <3>2. TracksOf(f.batch[c].requests) \cap TracksOf(e.batch[d1].requests) = {}
      BY <3>1, <2>3 DEF OwnTracks
    <3> QED
      BY <3>1, <3>2, <2>3
  <2> QED
    BY <2>1, <2>2, <2>3
<1>10. OthersWait(e, c) => OthersWait(f, c) /\ (f.batch[c] = None => AllWait(f))
  <2> SUFFICES ASSUME OthersWait(e, c) PROVE OthersWait(f, c) /\ (f.batch[c] = None => AllWait(f))
    OBVIOUS
  <2>1. OthersWait(f, c)
    BY <1>7 DEF OthersWait
  <2>2. ASSUME f.batch[c] = None PROVE AllWait(f)
    BY <2>1, <2>2 DEF OthersWait, AllWait, InFlight
  <2> QED
    BY <2>1, <2>2
<1>11. f.running <=> f.phase = "running"
  BY <1>2 DEF Sound, Elsewhere
<1> QED
  BY <1>2, <1>3, <1>4, <1>5, <1>6, <1>8, <1>9, <1>10, <1>11 DEF Sound

LEMMA BatchDroppedSound ==
    ASSUME NEW ids, NEW e, Sound(e, ids), NEW c \in InFlight(e)
    PROVE  LET f == BatchDropped(e, c)
           IN  /\ Sound(f, ids) /\ (OthersWait(e, c) => AllWait(f))
               /\ f.active = e.active /\ f.pending = e.pending /\ Elsewhere(e, f)
               /\ f.batch[c] = None /\ \A d \in Callers : d # c => f.batch[d] = e.batch[d]
<1> DEFINE f == BatchDropped(e, c)
<1>1. e \in Engines(ids) /\ c \in Callers /\ e.batch[c] # None /\ KeptOnce(e)
  BY DEF Sound, InFlight
<1>2. OneJob(e, f, c) /\ f.batch[c] = None /\ f.buses = e.buses /\ f.voices = e.voices \ Held(e, c)
  BY <1>1 DEF BatchDropped, OneJob, Engines, Held
<1> HIDE DEF f
<1>3. f.buses \subseteq Tracks /\ f.voices \subseteq Voices
  BY <1>1, <1>2 DEF Engines
<1>4. f.active = e.active /\ f.pending = e.pending
  BY <1>1, <1>2, OneJobIs
<1>5. KeptOnce(f)
  <2> DEFINE gone == Held(e, c)
  <2>1. \A d \in Callers : Held(f, d) = IF d = c THEN {} ELSE Held(e, d)
    BY <1>2 DEF Held, OneJob
  <2>2. \A t \in Tracks : Heard(f, t) = Heard(e, t) /\ Coming(f, t) = Coming(e, t)
    BY <1>4 DEF Heard, Coming
  <2>3. /\ \A t \in Tracks : Heard(e, t) \cap gone = {} /\ Coming(e, t) \cap gone = {}
        /\ \A d \in Callers : d # c => Held(e, d) \cap gone = {}
    BY <1>1 DEF KeptOnce
  <2>4. \A d \in Callers : Held(f, d) = Held(e, d) \ gone
    BY <2>1, <2>3
  <2>5. f.voices = e.voices \ gone
    BY <1>2
  <2> HIDE DEF gone
  <2>6. \A t \in Tracks : Heard(f, t) = Heard(e, t) \ gone /\ Coming(f, t) = Coming(e, t) \ gone
    BY <2>2, <2>3
  <2> QED
    BY <1>1, <2>4, <2>5, <2>6, KeptRestrict
<1> QED
  BY <1>1, <1>2, <1>3, <1>5, OneJobSound DEF f

(***************************************************************************)
(* rollbackSources: nothing was pending on the tracks of the batch, so     *)
(* what plays there has no cutoff again.                                   *)
(***************************************************************************)
LEMMA RolledBackSound ==
    ASSUME NEW ids, NEW e, Sound(e, ids), NEW c \in InFlight(e),
           NEW n \in 1 .. Len(e.batch[c].requests)
    PROVE  LET f == RolledBack(e, c, n)
           IN  /\ Sound(f, ids) /\ (OthersWait(e, c) => AllWait(f))
               /\ Elsewhere(e, f)
               /\ f.batch[c] = None /\ \A d \in Callers : d # c => f.batch[d] = e.batch[d]
<1> DEFINE f == RolledBack(e, c, n)
           k == BatchDropped(e, c)
           touched == {e.batch[c].requests[i].track : i \in 1 .. n}
<1>1. e \in Engines(ids) /\ e.batch[c] \in Jobs(ids) /\ JobSound(e, c)
  BY DEF Sound, InFlight, Engines
<1>2. /\ Sound(k, ids) /\ (OthersWait(e, c) => AllWait(k))
      /\ k.active = e.active /\ k.pending = e.pending /\ Elsewhere(e, k)
      /\ k.batch[c] = None /\ \A d \in Callers : d # c => k.batch[d] = e.batch[d]
  BY BatchDroppedSound
<1>3. k \in Engines(ids)
  BY <1>2 DEF Sound
<1> HIDE DEF k
<1>4. touched \subseteq Tracks /\ \A t \in touched : e.pending[t] = None
  <2>1. \A i \in DOMAIN e.batch[c].requests :
            /\ e.batch[c].requests[i].track \in Tracks
            /\ e.pending[e.batch[c].requests[i].track] = None
    BY <1>1, JobIs DEF JobSound
  <2>2. \A i \in 1 .. n : i \in DOMAIN e.batch[c].requests
    <3>1. e.batch[c].requests \in Seq(Requests(ids))
      BY <1>1, JobIs
    <3> QED
      BY <3>1
  <2> QED
    BY <2>1, <2>2
<1>5. f = [k EXCEPT
             !.buses = @ \cup touched,
             !.active = [t \in Tracks |->
                 IF t \in touched /\ @[t] # None THEN [@[t] EXCEPT !.cutoff = None] ELSE @[t]]]
  BY DEF RolledBack, k, touched
<1> HIDE DEF touched
<1>6. \A t \in touched : k.active[t] # None => [k.active[t] EXCEPT !.cutoff = None] = k.active[t]
  <2> TAKE t \in touched
  <2> HAVE k.active[t] # None
  <2>1. k.active[t] \in Sources(ids) /\ SourceSound(k, t)
    BY <1>2, <1>3, <1>4 DEF Engines, Sound
  <2>2. k.active[t].cutoff = None
    BY <1>2, <1>4, <2>1 DEF SourceSound
  <2> QED
    BY <2>1, <2>2 DEF Sources
<1>7. f.active = k.active
  <2>1. f.active = [t \in Tracks |-> IF t \in touched /\ k.active[t] # None
                                     THEN [k.active[t] EXCEPT !.cutoff = None] ELSE k.active[t]]
    BY <1>3, <1>5 DEF Engines
  <2>2. k.active = [t \in Tracks |-> k.active[t]]
    BY <1>3 DEF Engines
  <2> QED
    BY <1>6, <2>1, <2>2
<1>8. f = [k EXCEPT !.buses = @ \cup touched]
  <2>1. f.active = k.active
    BY <1>7
  <2>2. f = [k EXCEPT !.buses = @ \cup touched, !.active = f.active]
    BY <1>3, <1>5 DEF Engines
  <2> HIDE DEF f
  <2> QED
    BY <1>3, <2>1, <2>2 DEF Engines
<1> HIDE DEF f
<1>9. /\ f \in Engines(ids) /\ f.batch = k.batch /\ f.pending = k.pending /\ f.voices = k.voices
      /\ f.buses = k.buses \cup touched /\ Elsewhere(k, f)
  BY <1>3, <1>4, <1>8 DEF Engines, Elsewhere
<1>10. SameMaterial(k, f)
  <2>1. k.beat <= f.beat
    BY <1>3, <1>9 DEF Elsewhere, Engines
  <2> QED
    BY <1>7, <1>9, <2>1 DEF SameMaterial, SameJobs
<1>11. Sound(f, ids) /\ (AllWait(k) => AllWait(f))
  <2>1. f.running <=> f.phase = "running"
    BY <1>2, <1>9 DEF Sound, Elsewhere
  <2> QED
    BY <1>2, <1>9, <1>10, <2>1, SameMaterialSound
<1>12. Elsewhere(e, f)
  BY <1>2, <1>9 DEF Elsewhere
<1> QED
  BY <1>2, <1>9, <1>11, <1>12 DEF f

(***************************************************************************)
(* Awaited and WithStops: the stops before the next launch hold nothing.   *)
(***************************************************************************)
LEMMA LeastOf ==
    ASSUME NEW A \in SUBSET Nat, A # {}
    PROVE  Min(A) \in A /\ \A y \in A : Min(A) <= y
<1> DEFINE R == OpToRel(<, Nat)
<1>1. IsWellFoundedOn(R, Nat)
  BY NatLessThanWellFounded
<1>2. \A x, y \in Nat : y < x => <<y, x>> \in R
  BY DEF OpToRel
<1> HIDE DEF R
<1>3. PICK x \in A : \A y \in A : ~(<<y, x>> \in R)
  BY <1>1, WFMin
<1>4. \A y \in A : x <= y
  <2>1. \A y \in A : ~(y < x)
    BY <1>2, <1>3
  <2> QED
    BY <2>1
<1> QED
  BY <1>4 DEF Min

LEMMA WithStopsIs ==
    ASSUME NEW ids, NEW requests \in Seq(Requests(ids)), NEW held \in Seq(Voices \cup {None}),
           Len(held) <= Len(requests)
    PROVE  LET w == WithStops(requests, held)
           IN  /\ w \in Seq(Voices \cup {None})
               /\ Len(held) <= Len(w) /\ Len(w) <= Len(requests)
               /\ \A i \in DOMAIN held : i \in DOMAIN w /\ w[i] = held[i]
               /\ \A i \in DOMAIN w : i \notin DOMAIN held =>
                     w[i] = None /\ requests[i].kind # "launch"
               /\ Len(w) < Len(requests) => requests[Len(w) + 1].kind = "launch"
<1> DEFINE L == {i \in Len(held) + 1 .. Len(requests) : requests[i].kind = "launch"}
           A == L \cup {Len(requests) + 1}
           m == Awaited(requests, Len(held) + 1)
           w == WithStops(requests, held)
<1>1. Len(held) \in Nat /\ Len(requests) \in Nat
  OBVIOUS
<1>2. m \in A /\ \A y \in A : m <= y
  <2>1. A \in SUBSET Nat /\ A # {} /\ m = Min(A)
    BY <1>1 DEF Awaited
  <2> HIDE DEF A
  <2> QED
    BY <2>1, LeastOf
<1>3. w = [i \in 1 .. m - 1 |-> IF i <= Len(held) THEN held[i] ELSE None]
  BY DEF WithStops
<1> HIDE DEF m, w
<1>4. m \in Nat /\ Len(held) + 1 <= m /\ m <= Len(requests) + 1
  BY <1>1, <1>2
<1>5. w \in Seq(Voices \cup {None}) /\ Len(w) = m - 1 /\ DOMAIN w = 1 .. m - 1
  <2>1. m - 1 \in Nat /\ \A i \in 1 .. m - 1 : w[i] \in Voices \cup {None}
    BY <1>1, <1>3, <1>4
  <2>2. DOMAIN w = 1 .. m - 1
    BY <1>3
  <2> QED
    BY <1>3, <2>1, <2>2
<1>6. \A i \in DOMAIN held : i \in DOMAIN w /\ w[i] = held[i]
  BY <1>1, <1>3, <1>4
<1>7. \A i \in DOMAIN w : i \notin DOMAIN held => w[i] = None /\ requests[i].kind # "launch"
  <2> TAKE i \in DOMAIN w
  <2> HAVE i \notin DOMAIN held
  <2>1. i \in Nat /\ Len(held) < i /\ i < m
    BY <1>1, <1>4, <1>5
  <2>2. i \notin A
    BY <1>2, <2>1, <1>4
  <2>3. i \in Len(held) + 1 .. Len(requests)
    BY <1>1, <1>4, <2>1
  <2> QED
    BY <1>3, <1>4, <2>1, <2>2, <2>3
<1>8. Len(w) < Len(requests) => requests[Len(w) + 1].kind = "launch"
  BY <1>1, <1>2, <1>4, <1>5
<1> QED
  BY <1>1, <1>4, <1>5, <1>6, <1>7, <1>8 DEF w

(***************************************************************************)
(* A batch that waits for its next material.                               *)
(***************************************************************************)
LEMMA PreparingIs ==
    ASSUME NEW ids, NEW e \in Engines(ids), NEW c \in Callers, NoneApart(ids),
           NEW requests \in Seq(Requests(ids)), NEW held \in Seq(Voices \cup {None}),
           NEW now \in BOOLEAN
    PROVE  LET f == Preparing(e, c, requests, held, now)
           IN  /\ OneJob(e, f, c) /\ f.voices = e.voices
               /\ f.batch[c] = [requests |-> requests, held |-> held, fresh |-> now]
               /\ f.batch[c] \in Jobs(ids) /\ f.batch[c] # None
               /\ f.buses \subseteq e.buses \cup TracksOf(requests)
               /\ f.buses \subseteq Tracks
<1> DEFINE f == Preparing(e, c, requests, held, now)
           job == [requests |-> requests, held |-> held, fresh |-> now]
<1>1. f = [e EXCEPT !.batch[c] = job,
                    !.buses = IF Len(held) < Len(requests)
                              THEN @ \cup {requests[Len(held) + 1].track} ELSE @]
  BY DEF Preparing
<1>2. job \in Jobs(ids) /\ job # None
  BY DEF Jobs, NoneApart
<1> HIDE DEF f, job
<1>3. /\ f.batch = [e.batch EXCEPT ![c] = job] /\ f.voices = e.voices
      /\ f.buses = IF Len(held) < Len(requests)
                   THEN e.buses \cup {requests[Len(held) + 1].track} ELSE e.buses
      /\ f = [e EXCEPT !.batch = f.batch, !.buses = f.buses, !.voices = f.voices]
  BY <1>1 DEF Engines
<1>4. f.batch[c] = job
  BY <1>3 DEF Engines
<1>5. OneJob(e, f, c)
  <2>1. f.batch = [d \in Callers |-> f.batch[d]] /\ \A d \in Callers : d # c => f.batch[d] = e.batch[d]
    BY <1>3 DEF Engines
  <2> QED
    BY <1>3, <2>1 DEF OneJob
<1>6. f.buses \subseteq e.buses \cup TracksOf(requests)
  <2>1. Len(held) < Len(requests) => Len(held) + 1 \in DOMAIN requests
    OBVIOUS
  <2> QED
    BY <1>3, <2>1 DEF TracksOf
<1>7. TracksOf(requests) \subseteq Tracks
  <2>1. \A i \in DOMAIN requests : requests[i] \in Requests(ids)
    OBVIOUS
  <2> QED
    BY <2>1 DEF TracksOf, Requests
<1>8. e.buses \subseteq Tracks
  BY DEF Engines
<1> QED
  BY <1>2, <1>3, <1>4, <1>5, <1>6, <1>7, <1>8 DEF f, job

(* The job of a batch whose voices are those prepared, and stops. *)
LEMMA WithStopsVoices ==
    ASSUME NEW ids, NEW requests \in Seq(Requests(ids)), NEW held \in Seq(Voices \cup {None}),
           Len(held) <= Len(requests),
           NEW b, b.requests = requests, b.held = WithStops(requests, held)
    PROVE  /\ HeldVoices(b) = {held[i] : i \in DOMAIN held} \ {None}
           /\ Len(b.held) = Len(b.requests) \/ Waits(b)
           /\ Len(b.held) <= Len(b.requests)
<1> DEFINE w == WithStops(requests, held)
<1>1. /\ w \in Seq(Voices \cup {None}) /\ Len(w) <= Len(requests)
      /\ \A i \in DOMAIN held : i \in DOMAIN w /\ w[i] = held[i]
      /\ \A i \in DOMAIN w : i \notin DOMAIN held => w[i] = None
      /\ Len(w) < Len(requests) => requests[Len(w) + 1].kind = "launch"
  BY WithStopsIs
<1> HIDE DEF w
<1>2. b.held = w
  BY DEF w
<1>3. HeldVoices(b) = {w[i] : i \in DOMAIN w} \ {None}
  BY <1>2 DEF HeldVoices
<1>4. {w[i] : i \in DOMAIN w} \ {None} = {held[i] : i \in DOMAIN held} \ {None}
  BY <1>1
<1>5. Len(w) \in Nat /\ Len(requests) \in Nat
  BY <1>1
<1> QED
  BY <1>1, <1>2, <1>3, <1>4, <1>5 DEF Waits

(***************************************************************************)
(* A batch begins, or gets one more material: fresh voices are held.       *)
(***************************************************************************)
LEMMA KeptMore ==
    ASSUME NEW e, NEW f, NEW c \in Callers, NEW new, KeptOnce(e), new \cap e.voices = {},
           f.active = e.active, f.pending = e.pending, f.voices = e.voices \cup new,
           \A d \in Callers : d # c => f.batch[d] = e.batch[d],
           Held(f, c) = Held(e, c) \cup new
    PROVE  KeptOnce(f)
<1>1. \A t \in Tracks : Heard(f, t) = Heard(e, t) /\ Coming(f, t) = Coming(e, t)
  BY DEF Heard, Coming
<1>2. \A d \in Callers : d # c => Held(f, d) = Held(e, d)
  BY DEF Held
<1>3. /\ \A t \in Tracks : Heard(e, t) \cap new = {} /\ Coming(e, t) \cap new = {}
      /\ \A d \in Callers : Held(e, d) \cap new = {}
  BY DEF KeptOnce
<1>4. f.voices = (UNION {Heard(f, t) \cup Coming(f, t) : t \in Tracks})
                   \cup (UNION {Held(f, d) : d \in Callers})
  <2>1. ASSUME NEW v
        PROVE  v \in f.voices <=> \/ \E t \in Tracks : v \in Heard(f, t) \cup Coming(f, t)
                                  \/ \E d \in Callers : v \in Held(f, d)
    <3>1. v \in e.voices <=> \/ \E t \in Tracks : v \in Heard(e, t) \cup Coming(e, t)
                             \/ \E d \in Callers : v \in Held(e, d)
      BY DEF KeptOnce
    <3>2. (\E d \in Callers : v \in Held(f, d)) <=> v \in new \/ \E d \in Callers : v \in Held(e, d)
      BY <1>2
    <3> QED
      BY <1>1, <3>1, <3>2
  <2> QED
    BY <2>1
<1>5. \A d1, d2 \in Callers : d1 # d2 => Held(f, d1) \cap Held(f, d2) = {}
  <2>1. \A d \in Callers : d # c => Held(e, d) \cap Held(e, c) = {}
    BY DEF KeptOnce
  <2>2. \A d \in Callers : d # c => Held(f, d) \cap Held(f, c) = {}
    BY <1>2, <1>3, <2>1
  <2>3. \A d1, d2 \in Callers : d1 # d2 /\ d1 # c /\ d2 # c => Held(f, d1) \cap Held(f, d2) = {}
    BY <1>2 DEF KeptOnce
  <2> QED
    BY <2>2, <2>3
<1>6. \A t \in Tracks, d \in Callers : Held(f, d) \cap (Heard(f, t) \cup Coming(f, t)) = {}
  <2> TAKE t \in Tracks, d \in Callers
  <2>1. Held(e, d) \cap (Heard(e, t) \cup Coming(e, t)) = {}
    BY DEF KeptOnce
  <2> QED
    BY <1>1, <1>2, <1>3, <2>1
<1> QED
  BY <1>1, <1>4, <1>5, <1>6 DEF KeptOnce

(* The requests of a batch that may begin: see BatchRefused. *)
Placeable(e, c, requests) ==
    /\ \A i \in DOMAIN requests :
          /\ e.pending[requests[i].track] = None
          /\ \A j \in DOMAIN requests : i # j => requests[i].track # requests[j].track
    /\ OwnTracks(e, c, requests)

(* A material for each launch that was prepared; new is what was not there *)
(* before.                                                                 *)
Fits(e, c, requests, held, new) ==
    /\ Len(held) <= Len(requests)
    /\ \A i \in DOMAIN held :
          /\ requests[i].kind # "launch" => held[i] = None
          /\ \A j \in DOMAIN held : i # j /\ held[i] # None => held[i] # held[j]
    /\ new \cap e.voices = {}
    /\ {held[i] : i \in DOMAIN held} \ {None} = Held(e, c) \cup new

(* What that leads to; other batches are untouched. *)
Underway(e, f, c, ids, requests) ==
    /\ Sound(f, ids) /\ (OthersWait(e, c) => OthersWait(f, c))
    /\ f.active = e.active /\ f.pending = e.pending /\ Elsewhere(e, f)
    /\ \A d \in Callers : d # c => f.batch[d] = e.batch[d]
    /\ f.batch[c] # None /\ f.batch[c].requests = requests
    /\ Prepared(f, c) \/ Waits(f.batch[c])

LEMMA PreparingSound ==
    ASSUME NEW ids, NoneApart(ids), NEW e, Sound(e, ids), NEW c \in Callers,
           NEW requests \in Seq(Requests(ids)), NEW held \in Seq(Voices \cup {None}),
           NEW now \in BOOLEAN, NEW new \in SUBSET Voices, NEW more \in SUBSET Tracks,
           Placeable(e, c, requests), Fits(e, c, requests, held, new)
    PROVE  LET f == Preparing([e EXCEPT !.buses = @ \cup more, !.voices = @ \cup new],
                              c, requests, WithStops(requests, held), now)
           IN  Underway(e, f, c, ids, requests) /\ (f.batch[c].fresh <=> now)
<1> DEFINE g == [e EXCEPT !.buses = @ \cup more, !.voices = @ \cup new]
           w == WithStops(requests, held)
           f == Preparing(g, c, requests, w, now)
<1>1. e \in Engines(ids) /\ KeptOnce(e)
  BY DEF Sound
<1>2. /\ Len(held) <= Len(requests) /\ new \cap e.voices = {}
       /\ {held[i] : i \in DOMAIN held} \ {None} = Held(e, c) \cup new
  BY DEF Fits
<1>3. /\ g \in Engines(ids) /\ g.buses = e.buses \cup more /\ g.voices = e.voices \cup new
      /\ g.batch = e.batch
      /\ g = [e EXCEPT !.buses = g.buses, !.voices = g.voices]
  BY <1>1 DEF Engines
<1>4. /\ w \in Seq(Voices \cup {None}) /\ Len(w) <= Len(requests)
      /\ \A i \in DOMAIN held : i \in DOMAIN w /\ w[i] = held[i]
      /\ \A i \in DOMAIN w : i \notin DOMAIN held => w[i] = None /\ requests[i].kind # "launch"
  BY <1>2, WithStopsIs
<1> HIDE DEF g, w
<1>5. /\ OneJob(g, f, c) /\ f.voices = g.voices
      /\ f.batch[c] = [requests |-> requests, held |-> w, fresh |-> now]
      /\ f.batch[c] \in Jobs(ids) /\ f.batch[c] # None
      /\ f.buses \subseteq Tracks
  <2>1. g \in Engines(ids) /\ w \in Seq(Voices \cup {None})
    BY <1>3, <1>4
  <2> QED
    BY <2>1, PreparingIs
<1> HIDE DEF f
<1>6. OneJob(e, f, c)
  <2>1. f = [e EXCEPT !.batch = f.batch, !.buses = f.buses, !.voices = f.voices]
    BY <1>1, <1>3, <1>5 DEF OneJob, Engines
  <2>2. e.buses \subseteq f.buses
    BY <1>3, <1>5 DEF OneJob
  <2> QED
    BY <1>3, <1>5, <2>1, <2>2 DEF OneJob
<1>7. /\ f.active = e.active /\ f.pending = e.pending
      /\ \A d \in Callers : d # c => f.batch[d] = e.batch[d]
  <2>1. f.active = e.active /\ f.pending = e.pending
    BY <1>1, <1>6, OneJobIs
  <2>2. \A d \in Callers : d # c => f.batch[d] = e.batch[d]
    BY <1>6 DEF OneJob
  <2> QED
    BY <2>1, <2>2
<1>8. f.batch[c].requests = requests /\ f.batch[c].held = w /\ (f.batch[c].fresh <=> now)
  BY <1>5
<1>9. /\ HeldVoices(f.batch[c]) = {held[i] : i \in DOMAIN held} \ {None}
      /\ Len(f.batch[c].held) = Len(f.batch[c].requests) \/ Waits(f.batch[c])
  BY <1>8, <1>2, WithStopsVoices DEF w
<1>10. JobSound(f, c)
  <2>1. \A i \in DOMAIN requests :
              /\ f.pending[requests[i].track] = None
              /\ \A j \in DOMAIN requests : i # j => requests[i].track # requests[j].track
    BY <1>7 DEF Placeable
  <2>2. \A i \in DOMAIN w : requests[i].kind # "launch" => w[i] = None
    BY <1>4 DEF Fits
  <2>3. \A i, j \in DOMAIN w : i # j /\ w[i] # None => w[i] # w[j]
    BY <1>4 DEF Fits
  <2> QED
    BY <1>4, <1>8, <2>1, <2>2, <2>3 DEF JobSound
<1>11. KeptOnce(f)
  <2>1. Held(f, c) = Held(e, c) \cup new
    BY <1>5, <1>9, <1>2 DEF Held
  <2>2. f.voices = e.voices \cup new
    BY <1>3, <1>5
  <2> QED
    BY <1>1, <1>7, <1>2, <2>1, <2>2, KeptMore
<1>12. f.voices \subseteq Voices
  BY <1>1, <1>3, <1>5 DEF Engines
<1>13. /\ Sound(f, ids) /\ (OthersWait(e, c) => OthersWait(f, c)) /\ Elsewhere(e, f)
  <2>1. OwnTracks(e, c, f.batch[c].requests)
    BY <1>8 DEF Placeable
  <2> QED
    BY <1>5, <1>6, <1>10, <1>11, <1>12, <2>1, OneJobSound
<1>14. Prepared(f, c) \/ Waits(f.batch[c])
  BY <1>9 DEF Prepared
<1> QED
  BY <1>5, <1>7, <1>8, <1>13, <1>14 DEF f, g, w, Underway

(***************************************************************************)
(* scheduleTransitions, up to its first await: nothing is pending on the   *)
(* tracks, no other batch has them, and they are distinct.                 *)
(***************************************************************************)
LEMMA BatchBegunSound ==
    ASSUME NEW ids, NoneApart(ids), NEW e, Sound(e, ids), NEW c \in Callers, e.batch[c] = None,
           NEW requests \in Seq(Requests(ids)),
           Placeable(e, c, requests)
    PROVE  LET f == BatchBegun(e, c, requests)
           IN  Underway(e, f, c, ids, requests) /\ f.batch[c].fresh
<1> DEFINE f == BatchBegun(e, c, requests)
           more == TracksOf(requests)
<1>1. e \in Engines(ids)
  BY DEF Sound
<1>2. more \in SUBSET Tracks
  <2>1. \A i \in DOMAIN requests : requests[i] \in Requests(ids)
    OBVIOUS
  <2> QED
    BY <2>1 DEF TracksOf, Requests
<1>3. [e EXCEPT !.buses = @ \cup more] = [e EXCEPT !.buses = @ \cup more, !.voices = @ \cup {}]
  BY <1>1 DEF Engines
<1>4. f = Preparing([e EXCEPT !.buses = @ \cup more, !.voices = @ \cup {}],
                    c, requests, WithStops(requests, << >>), TRUE)
  BY <1>3 DEF BatchBegun
<1>5. << >> \in Seq(Voices \cup {None}) /\ Len(<< >>) <= Len(requests) /\ DOMAIN << >> = {}
  OBVIOUS
<1>6. Fits(e, c, requests, << >>, {})
  BY <1>5 DEF Fits, Held
<1> HIDE DEF f, more
<1>7. Underway(e, f, c, ids, requests) /\ (f.batch[c].fresh <=> TRUE)
  <2> DEFINE p == Preparing([e EXCEPT !.buses = @ \cup more, !.voices = @ \cup {}],
                            c, requests, WithStops(requests, << >>), TRUE)
  <2>1. {} \in SUBSET Voices /\ TRUE \in BOOLEAN
    OBVIOUS
  <2>2. Underway(e, p, c, ids, requests) /\ (p.batch[c].fresh <=> TRUE)
    BY <1>2, <1>5, <1>6, <2>1, PreparingSound
  <2>3. f = p
    BY <1>4
  <2> HIDE DEF p
  <2> QED
    BY <2>2, <2>3
<1> QED
  BY <1>7 DEF f

(***************************************************************************)
(* The await is over: the next launch has its material.                    *)
(***************************************************************************)
LEMMA MaterialPreparedSound ==
    ASSUME NEW ids, NoneApart(ids), NEW e, Sound(e, ids), NEW c \in InFlight(e),
           Waits(e.batch[c]), NEW v \in Voices \ e.voices
    PROVE  LET f == MaterialPrepared(e, c, v)
           IN  Underway(e, f, c, ids, e.batch[c].requests) /\ (f.batch[c].fresh <=> e.batch[c].fresh)
<1> DEFINE f == MaterialPrepared(e, c, v)
           b == e.batch[c]
           held == Append(b.held, v)
<1>1. e \in Engines(ids) /\ c \in Callers /\ b # None /\ b \in Jobs(ids) /\ JobSound(e, c)
  BY DEF Sound, InFlight, Engines
<1>2. b.requests \in Seq(Requests(ids)) /\ b.held \in Seq(Voices \cup {None}) /\ b.fresh \in BOOLEAN
  BY <1>1, JobIs
<1>3. /\ held \in Seq(Voices \cup {None}) /\ Len(held) = Len(b.held) + 1
      /\ \A i \in DOMAIN b.held : i \in DOMAIN held /\ held[i] = b.held[i]
      /\ held[Len(b.held) + 1] = v
      /\ \A i \in DOMAIN held : i \in DOMAIN b.held \/ i = Len(b.held) + 1
      /\ Len(b.held) + 1 \in DOMAIN held
  <2> DEFINE n == Len(b.held)
  <2>1. n \in Nat /\ DOMAIN b.held = 1 .. n
    BY <1>2
  <2>2. held \in Seq(Voices \cup {None}) /\ Len(held) = n + 1
    BY <1>2
  <2>3. \A i \in 1 .. n : held[i] = b.held[i]
    BY <1>2
  <2>4. held[n + 1] = v
    BY <1>2
  <2> HIDE DEF held, n
  <2>5. DOMAIN held = 1 .. n + 1
    BY <2>2
  <2> QED
    BY <2>1, <2>2, <2>3, <2>4, <2>5 DEF n
<1>4. Len(held) <= Len(b.requests) /\ b.requests[Len(b.held) + 1].kind = "launch"
  BY <1>2, <1>3 DEF Waits
<1>5. f = Preparing([e EXCEPT !.buses = @ \cup {}, !.voices = @ \cup {v}],
                    c, b.requests, WithStops(b.requests, held), b.fresh)
  <2>1. [e EXCEPT !.voices = @ \cup {v}] = [e EXCEPT !.buses = @ \cup {}, !.voices = @ \cup {v}]
    BY <1>1 DEF Engines
  <2> QED
    BY <2>1 DEF MaterialPrepared
<1>6. v # None
  BY EngineAssumption
<1>7. Held(e, c) = {b.held[i] : i \in DOMAIN b.held} \ {None}
  BY <1>1 DEF Held, HeldVoices
<1> HIDE DEF held, f
<1>8. {held[i] : i \in DOMAIN held} \ {None} = Held(e, c) \cup {v}
  BY <1>3, <1>6, <1>7
<1>9. v \notin Held(e, c)
  <2>1. Held(e, c) \subseteq e.voices
    BY <1>1 DEF Sound, KeptOnce
  <2> QED
    BY <2>1
<1>10. \A i \in DOMAIN held :
              /\ b.requests[i].kind # "launch" => held[i] = None
              /\ \A j \in DOMAIN held : i # j /\ held[i] # None => held[i] # held[j]
  <2>1. \A i \in DOMAIN b.held : b.held[i] # None => b.held[i] # v
    BY <1>7, <1>9
  <2>2. \A i \in DOMAIN b.held :
              /\ b.requests[i].kind # "launch" => b.held[i] = None
              /\ \A j \in DOMAIN b.held : i # j /\ b.held[i] # None => b.held[i] # b.held[j]
    BY <1>1 DEF JobSound
  <2>3. \A i \in DOMAIN held : b.requests[i].kind # "launch" => held[i] = None
    BY <1>3, <1>4, <2>2
  <2>4. \A i, j \in DOMAIN held : i # j /\ held[i] # None => held[i] # held[j]
    BY <1>3, <1>6, <2>1, <2>2
  <2> QED
    BY <2>3, <2>4
<1>11. Placeable(e, c, b.requests)
  <2>1. OwnTracks(e, c, b.requests)
    BY DEF OwnTracks, Sound, JobsApart
  <2> QED
    BY <1>1, <2>1 DEF JobSound, Placeable
<1>12. Fits(e, c, b.requests, held, {v})
  BY <1>4, <1>8, <1>10 DEF Fits
<1>13. {v} \in SUBSET Voices /\ {} \in SUBSET Tracks
  OBVIOUS
<1> HIDE DEF b
<1>14. Underway(e, f, c, ids, b.requests) /\ (f.batch[c].fresh <=> b.fresh)
  <2> DEFINE new == {v}
             more == {}
             isFresh == b.fresh
             requests == b.requests
             p == Preparing([e EXCEPT !.buses = @ \cup more, !.voices = @ \cup new],
                            c, requests, WithStops(requests, held), isFresh)
  <2>1. /\ held \in Seq(Voices \cup {None}) /\ c \in Callers
        /\ requests \in Seq(Requests(ids)) /\ isFresh \in BOOLEAN
        /\ new \in SUBSET Voices /\ more \in SUBSET Tracks
        /\ Placeable(e, c, requests) /\ Fits(e, c, requests, held, new)
    BY <1>1, <1>2, <1>3, <1>11, <1>12, <1>13
  <2>2. f = p
    BY <1>5
  <2> HIDE DEF new, more, isFresh, requests
  <2>3. Underway(e, p, c, ids, requests) /\ (p.batch[c].fresh <=> isFresh)
    BY <2>1, PreparingSound
  <2> HIDE DEF p
  <2> QED
    BY <2>3, <2>2 DEF isFresh, requests
<1> QED
  BY <1>14 DEF f, b

(***************************************************************************)
(* The materials of a batch become the pending sources of its tracks.      *)
(***************************************************************************)
LEMMA KeptMoved ==
    ASSUME NEW e, NEW f, NEW c \in Callers, NEW P \in SUBSET Tracks, KeptOnce(e),
           f.voices = e.voices,
           \A t \in Tracks : Heard(f, t) = Heard(e, t),
           \A t \in Tracks \ P : Coming(f, t) = Coming(e, t),
           \A t \in P : Coming(e, t) = {},
           \A t, u \in P : t # u => Coming(f, t) \cap Coming(f, u) = {},
           UNION {Coming(f, t) : t \in P} = Held(e, c),
           Held(f, c) = {},
           \A d \in Callers : d # c => Held(f, d) = Held(e, d)
    PROVE  KeptOnce(f)
<1>1. \A t \in P : Coming(f, t) \subseteq Held(e, c)
  OBVIOUS
<1>2. f.voices = (UNION {Heard(f, t) \cup Coming(f, t) : t \in Tracks})
                   \cup (UNION {Held(f, d) : d \in Callers})
  <2>1. ASSUME NEW v
        PROVE  v \in f.voices <=> \/ \E t \in Tracks : v \in Heard(f, t) \cup Coming(f, t)
                                  \/ \E d \in Callers : v \in Held(f, d)
    <3>1. v \in e.voices <=> \/ \E t \in Tracks : v \in Heard(e, t) \cup Coming(e, t)
                             \/ \E d \in Callers : v \in Held(e, d)
      BY DEF KeptOnce
    <3>2. v \in Held(e, c) <=> \E t \in P : v \in Coming(f, t)
      OBVIOUS
    <3>3. (\E d \in Callers : v \in Held(e, d))
            <=> (\E d \in Callers : v \in Held(f, d)) \/ v \in Held(e, c)
      OBVIOUS
    <3>4. (\E t \in Tracks : v \in Coming(f, t))
            <=> (\E t \in Tracks : v \in Coming(e, t)) \/ \E t \in P : v \in Coming(f, t)
      OBVIOUS
    <3> QED
      BY <3>1, <3>2, <3>3, <3>4
  <2> QED
    BY <2>1
<1>3. \A t, u \in Tracks : t # u => Heard(f, t) \cap Heard(f, u) = {}
  BY DEF KeptOnce
<1>4. \A t, u \in Tracks : t # u => Coming(f, t) \cap Coming(f, u) = {}
  <2> TAKE t, u \in Tracks
  <2> HAVE t # u
  <2>1. CASE t \in P /\ u \in P
    BY <2>1
  <2>2. CASE t \notin P /\ u \notin P
    BY <2>2 DEF KeptOnce
  <2>3. CASE t \in P /\ u \notin P
    <3>1. Held(e, c) \cap Coming(e, u) = {}
      BY DEF KeptOnce
    <3> QED
      BY <1>1, <2>3, <3>1
  <2>4. CASE t \notin P /\ u \in P
    <3>1. Held(e, c) \cap Coming(e, t) = {}
      BY DEF KeptOnce
    <3> QED
      BY <1>1, <2>4, <3>1
  <2> QED
    BY <2>1, <2>2, <2>3, <2>4
<1>5. \A t, u \in Tracks : Heard(f, t) \cap Coming(f, u) = {}
  <2> TAKE t, u \in Tracks
  <2>1. Held(e, c) \cap Heard(e, t) = {} /\ Heard(e, t) \cap Coming(e, u) = {}
    BY DEF KeptOnce
  <2> QED
    BY <1>1, <2>1
<1>6. \A d1, d2 \in Callers : d1 # d2 => Held(f, d1) \cap Held(f, d2) = {}
  <2>1. \A d \in Callers : Held(f, d) \subseteq Held(e, d)
    OBVIOUS
  <2> QED
    BY <2>1 DEF KeptOnce
<1>7. \A t \in Tracks, d \in Callers : Held(f, d) \cap (Heard(f, t) \cup Coming(f, t)) = {}
  <2> TAKE t \in Tracks, d \in Callers
  <2>1. CASE d = c
    BY <2>1
  <2>2. CASE d # c
    <3>1. Held(e, d) \cap (Heard(e, t) \cup Coming(e, t)) = {} /\ Held(e, d) \cap Held(e, c) = {}
      BY <2>2 DEF KeptOnce
    <3> QED
      BY <1>1, <2>2, <3>1
  <2> QED
    BY <2>1, <2>2
<1> QED
  BY <1>2, <1>3, <1>4, <1>5, <1>6, <1>7 DEF KeptOnce

(* A source that is new, and whose boundary is not missed. *)
LEMMA NewSource ==
    ASSUME NEW ids, NoneApart(ids), NEW e, NEW r \in Requests(ids), NEW v \in Voices \cup {None}
    PROVE  LET s == Source(e, r, v)
           IN  /\ s \in Sources(ids) /\ s # None /\ s.cutoff = None /\ s.voice = v /\ s.request = r
               /\ VoiceOf(s) = {v} \ {None}
<1> DEFINE s == Source(e, r, v)
<1>1. s \in Sources(ids) /\ s.cutoff = None /\ s.voice = v /\ s.request = r
  BY DEF Source, Sources
<1> HIDE DEF s
<1>2. s # None
  BY <1>1 DEF NoneApart
<1> QED
  BY <1>1, <1>2 DEF VoiceOf, s

(* What a commit does: each track of the batch gets the source of its one  *)
(* request, and what plays there is cut at the beat of that request.       *)
PlacesTaken(e, f, c, b) ==
    LET P == TracksOf(b.requests)
    IN  /\ f = [e EXCEPT !.batch = f.batch, !.buses = f.buses, !.pending = f.pending,
                         !.active = f.active]
        /\ f.batch = [e.batch EXCEPT ![c] = None] /\ f.buses = e.buses \cup P
        /\ f.pending = [t \in Tracks |-> f.pending[t]]
        /\ f.active = [t \in Tracks |-> f.active[t]]
        /\ \A t \in Tracks \ P : f.pending[t] = e.pending[t] /\ f.active[t] = e.active[t]
        /\ \E at \in [P -> DOMAIN b.requests] : \A t \in P :
              /\ b.requests[at[t]].track = t
              /\ \A i \in DOMAIN b.requests : b.requests[i].track = t => at[t] = i
              /\ f.pending[t] = Source(e, b.requests[at[t]], b.held[at[t]])
              /\ f.active[t] = IF e.active[t] = None THEN None
                               ELSE [e.active[t] EXCEPT !.cutoff = b.requests[at[t]].target]

LEMMA CommittedIs ==
    ASSUME NEW ids, NoneApart(ids), NEW e, Sound(e, ids), NEW c \in InFlight(e), Prepared(e, c)
    PROVE  PlacesTaken(e, Committed(e, c), c, e.batch[c])
<1> DEFINE f == Committed(e, c)
           b == e.batch[c]
           new == {i \in DOMAIN b.requests : ~Retry(e, b.requests[i])}
           P == {b.requests[i].track : i \in new}
           Place(t) == CHOOSE i \in new : b.requests[i].track = t
           at == [t \in P |-> Place(t)]
<1>1. e \in Engines(ids) /\ c \in Callers /\ JobSound(e, c)
  BY DEF Sound, InFlight
<1>2. new = DOMAIN b.requests
  BY <1>1 DEF JobSound, Retry
<1>3. P = TracksOf(b.requests)
  BY <1>2 DEF TracksOf
<1>4. f = [e EXCEPT
           !.batch[c] = None,
           !.buses = @ \cup TracksOf(b.requests),
           !.pending = [t \in Tracks |->
               IF t \in P THEN Source(e, b.requests[Place(t)], b.held[Place(t)]) ELSE @[t]],
           !.active = [t \in Tracks |->
               IF t \in P /\ @[t] # None
               THEN [@[t] EXCEPT !.cutoff = b.requests[Place(t)].target] ELSE @[t]]]
  BY DEF Committed
<1>5. \A t \in P : /\ Place(t) \in DOMAIN b.requests /\ b.requests[Place(t)].track = t
                   /\ \A i \in DOMAIN b.requests : b.requests[i].track = t => Place(t) = i
  <2> TAKE t \in P
  <2>1. \E i \in new : b.requests[i].track = t
    BY <1>2
  <2>2. Place(t) \in new /\ b.requests[Place(t)].track = t
    BY <2>1
  <2> QED
    BY <1>1, <1>2, <2>2 DEF JobSound
<1> HIDE DEF f, Place, P, new
<1>6. at \in [P -> DOMAIN b.requests] /\ \A t \in P : at[t] = Place(t)
  BY <1>5
<1> HIDE DEF b
<1>7. /\ f.batch = [e.batch EXCEPT ![c] = None] /\ f.buses = e.buses \cup P
      /\ f.pending = [t \in Tracks |->
               IF t \in P THEN Source(e, b.requests[Place(t)], b.held[Place(t)]) ELSE e.pending[t]]
      /\ f.active = [t \in Tracks |->
               IF t \in P /\ e.active[t] # None
               THEN [e.active[t] EXCEPT !.cutoff = b.requests[Place(t)].target] ELSE e.active[t]]
      /\ f = [e EXCEPT !.batch = f.batch, !.buses = f.buses, !.pending = f.pending,
                       !.active = f.active]
  BY <1>1, <1>3, <1>4 DEF Engines
<1>8. P \subseteq Tracks
  <2>1. b \in Jobs(ids)
    BY <1>1 DEF Engines, InFlight, b
  <2> QED
    BY <1>3, <2>1, JobIs DEF TracksOf
<1> HIDE DEF at
<1>9. \A t \in P :
         /\ b.requests[at[t]].track = t
         /\ \A i \in DOMAIN b.requests : b.requests[i].track = t => at[t] = i
         /\ f.pending[t] = Source(e, b.requests[at[t]], b.held[at[t]])
         /\ f.active[t] = IF e.active[t] = None THEN None
                          ELSE [e.active[t] EXCEPT !.cutoff = b.requests[at[t]].target]
  BY <1>5, <1>6, <1>7, <1>8
<1>10. /\ f.pending = [t \in Tracks |-> f.pending[t]]
       /\ f.active = [t \in Tracks |-> f.active[t]]
       /\ \A t \in Tracks \ P : f.pending[t] = e.pending[t] /\ f.active[t] = e.active[t]
  BY <1>7
<1>11. \E a \in [P -> DOMAIN b.requests] : \A t \in P :
         /\ b.requests[a[t]].track = t
         /\ \A i \in DOMAIN b.requests : b.requests[i].track = t => a[t] = i
         /\ f.pending[t] = Source(e, b.requests[a[t]], b.held[a[t]])
         /\ f.active[t] = IF e.active[t] = None THEN None
                          ELSE [e.active[t] EXCEPT !.cutoff = b.requests[a[t]].target]
  BY <1>6, <1>9
<1> QED
  BY <1>3, <1>7, <1>10, <1>11 DEF f, b, PlacesTaken

LEMMA CommittedSound ==
    ASSUME NEW ids, NoneApart(ids), NEW e, Sound(e, ids), NEW c \in InFlight(e), Prepared(e, c),
           \A i \in DOMAIN e.batch[c].requests : e.batch[c].requests[i].target >= e.beat
    PROVE  LET f == Committed(e, c)
           IN  /\ Sound(f, ids) /\ (OthersWait(e, c) => AllWait(f)) /\ Elsewhere(e, f)
               /\ f.batch[c] = None /\ \A d \in Callers : d # c => f.batch[d] = e.batch[d]
<1> DEFINE f == Committed(e, c)
           b == e.batch[c]
           P == TracksOf(b.requests)
<1>1. /\ e \in Engines(ids) /\ c \in Callers /\ b # None /\ b \in Jobs(ids)
      /\ JobSound(e, c) /\ KeptOnce(e)
  BY DEF Sound, InFlight, Engines
<1>2. PlacesTaken(e, f, c, b)
  BY CommittedIs
<1> HIDE DEF f, b
<1>3. /\ f = [e EXCEPT !.batch = f.batch, !.buses = f.buses, !.pending = f.pending,
                       !.active = f.active]
      /\ f.batch = [e.batch EXCEPT ![c] = None] /\ f.buses = e.buses \cup P
      /\ f.pending = [t \in Tracks |-> f.pending[t]]
      /\ f.active = [t \in Tracks |-> f.active[t]]
      /\ \A t \in Tracks \ P : f.pending[t] = e.pending[t] /\ f.active[t] = e.active[t]
  BY <1>2 DEF PlacesTaken
<1>4. PICK at \in [P -> DOMAIN b.requests] : \A t \in P :
         /\ b.requests[at[t]].track = t
         /\ \A i \in DOMAIN b.requests : b.requests[i].track = t => at[t] = i
         /\ f.pending[t] = Source(e, b.requests[at[t]], b.held[at[t]])
         /\ f.active[t] = IF e.active[t] = None THEN None
                          ELSE [e.active[t] EXCEPT !.cutoff = b.requests[at[t]].target]
  BY <1>2 DEF PlacesTaken
<1>5. Len(b.held) = Len(b.requests) /\ \A i \in DOMAIN b.requests : b.requests[i].target >= e.beat
  BY DEF Prepared, b
<1>6. /\ b.requests \in Seq(Requests(ids)) /\ b.held \in Seq(Voices \cup {None})
      /\ \A i \in DOMAIN b.requests :
            /\ b.requests[i] \in Requests(ids)
            /\ b.requests[i].track \in Tracks /\ b.requests[i].target \in 0 .. MaxBeat
      /\ \A i \in DOMAIN b.held : b.held[i] \in Voices \cup {None}
  BY <1>1, JobIs
<1>7. DOMAIN b.held = DOMAIN b.requests
  BY <1>5, <1>6
<1>8. P \subseteq Tracks /\ \A i \in DOMAIN b.requests : b.requests[i].track \in P
  BY <1>6 DEF TracksOf
<1>9. \A t \in P : /\ at[t] \in DOMAIN b.requests /\ b.requests[at[t]].track = t
                   /\ \A i \in DOMAIN b.requests : b.requests[i].track = t => at[t] = i
  BY <1>4
<1>10. \A t \in P : e.pending[t] = None
  BY <1>1, <1>9 DEF JobSound, b
<1>11. Elsewhere(e, f) /\ f.voices = e.voices
  <2>1. f = [e EXCEPT !.batch = f.batch, !.buses = f.buses, !.pending = f.pending,
                      !.active = f.active]
    BY <1>3
  <2> QED
    BY <1>1, <2>1 DEF Elsewhere, Engines
<1>12. f.batch[c] = None /\ \A d \in Callers : d # c => f.batch[d] = e.batch[d]
  BY <1>1, <1>3 DEF Engines
<1> HIDE DEF P
<1>13. ASSUME NEW t \in P
       PROVE  LET r == b.requests[at[t]]
                  v == b.held[at[t]]
              IN  /\ f.pending[t] \in Sources(ids) /\ f.pending[t] # None
                  /\ f.pending[t].cutoff = None /\ f.pending[t].voice = v
                  /\ f.pending[t].request = r
                  /\ Coming(f, t) = {v} \ {None}
                  /\ r.kind # "launch" => v = None
                  /\ r.target \in 0 .. MaxBeat /\ r.target >= e.beat
  <2> DEFINE i == at[t]
  <2>1. i \in DOMAIN b.requests /\ i \in DOMAIN b.held /\ f.pending[t] = Source(e, b.requests[i], b.held[i])
    BY <1>4, <1>7, <1>9
  <2>2. b.requests[i] \in Requests(ids) /\ b.held[i] \in Voices \cup {None}
    BY <1>6, <2>1
  <2>3. /\ f.pending[t] \in Sources(ids) /\ f.pending[t] # None
        /\ f.pending[t].cutoff = None /\ f.pending[t].voice = b.held[i]
        /\ f.pending[t].request = b.requests[i]
        /\ VoiceOf(f.pending[t]) = {b.held[i]} \ {None}
    <3> DEFINE r == b.requests[i]
               v == b.held[i]
               s == Source(e, r, v)
    <3>1. r \in Requests(ids) /\ v \in Voices \cup {None}
      BY <2>2
    <3> HIDE DEF r, v
    <3>2. /\ s \in Sources(ids) /\ s # None /\ s.cutoff = None /\ s.voice = v /\ s.request = r
          /\ VoiceOf(s) = {v} \ {None}
      BY <3>1, NewSource
    <3>3. f.pending[t] = s
      BY <2>1 DEF r, v
    <3> HIDE DEF s
    <3> QED
      BY <3>2, <3>3 DEF r, v
  <2>4. b.requests[i].kind # "launch" => b.held[i] = None
    BY <1>1, <2>1 DEF JobSound, b
  <2>5. b.requests[i].target \in 0 .. MaxBeat /\ b.requests[i].target >= e.beat
    BY <1>5, <1>6, <2>1
  <2> HIDE DEF i
  <2>6. Coming(f, t) = {b.held[i]} \ {None}
    BY <2>3 DEF Coming
  <2> QED
    BY <2>3, <2>4, <2>5, <2>6 DEF i
<1>14. ASSUME NEW t \in Tracks
       PROVE  /\ f.active[t] \in Sources(ids) \cup {None}
              /\ f.active[t] = None <=> e.active[t] = None
              /\ e.active[t] # None => f.active[t].request = e.active[t].request
              /\ VoiceOf(f.active[t]) = VoiceOf(e.active[t])
              /\ t \in P /\ e.active[t] # None => f.active[t].cutoff = b.requests[at[t]].target
  <2>1. e.active[t] \in Sources(ids) \cup {None}
    BY <1>1 DEF Engines
  <2>2. CASE t \notin P
    BY <1>3, <2>1, <2>2
  <2>3. CASE t \in P /\ e.active[t] = None
    BY <1>4, <2>3
  <2>4. CASE t \in P /\ e.active[t] # None
    <3> DEFINE beat == b.requests[at[t]].target
    <3>1. beat \in (0 .. MaxBeat) \cup {None}
      BY <1>13, <2>4
    <3>2. f.active[t] = [e.active[t] EXCEPT !.cutoff = beat]
      BY <1>4, <2>4
    <3> HIDE DEF beat
    <3>3. e.active[t] \in Sources(ids)
      BY <2>1, <2>4
    <3> DEFINE s == e.active[t]
    <3>4. LET cut == [s EXCEPT !.cutoff = beat]
          IN  /\ cut \in Sources(ids) /\ cut # None /\ s # None
              /\ cut.cutoff = beat /\ cut.request = s.request /\ VoiceOf(cut) = VoiceOf(s)
      BY <3>1, <3>3, CutSource
    <3> QED
      BY <3>2, <3>4, <2>4 DEF beat
  <2> QED
    BY <2>2, <2>3, <2>4
<1>15. f \in Engines(ids)
  <2>1. f.active \in [Tracks -> Sources(ids) \cup {None}]
    BY <1>3, <1>14
  <2>2. f.pending \in [Tracks -> Sources(ids) \cup {None}]
    <3>1. \A t \in Tracks \ P : f.pending[t] \in Sources(ids) \cup {None}
      BY <1>1, <1>3 DEF Engines
    <3>2. \A t \in P : f.pending[t] \in Sources(ids) \cup {None}
      BY <1>13
    <3> QED
      BY <1>3, <3>1, <3>2
  <2>3. f.batch \in [Callers -> Jobs(ids) \cup {None}]
    BY <1>1, <1>3 DEF Engines
  <2>4. f.buses \in SUBSET Tracks
    BY <1>1, <1>3, <1>8 DEF Engines
  <2>5. f = [e EXCEPT !.batch = f.batch, !.buses = f.buses, !.pending = f.pending,
                      !.active = f.active]
    BY <1>3
  <2> QED
    BY <1>1, <2>1, <2>2, <2>3, <2>4, <2>5 DEF Engines
<1>16. Owning(f) \subseteq f.buses
  <2> SUFFICES ASSUME NEW t \in Owning(f) PROVE t \in f.buses
    OBVIOUS
  <2>1. CASE t \in P
    BY <1>3, <2>1
  <2>2. CASE t \notin P
    <3>1. t \in Owning(e)
      BY <1>3, <2>2 DEF Owning
    <3> QED
      BY <1>3, <3>1 DEF Sound
  <2> QED
    BY <2>1, <2>2
<1>17. ASSUME NEW t \in Tracks PROVE SourceSound(f, t)
  <2>1. SourceSound(e, t) /\ f.beat = e.beat
    BY <1>11 DEF Sound, Elsewhere
  <2>2. CASE t \notin P
    BY <1>3, <2>1, <2>2 DEF SourceSound
  <2>3. CASE t \in P
    <3>1. /\ f.pending[t] # None /\ f.pending[t].cutoff = None
          /\ f.pending[t].request = b.requests[at[t]]
          /\ f.pending[t].request.kind # "launch" => f.pending[t].voice = None
      BY <1>13, <2>3
    <3>2. f.active[t] # None => /\ f.active[t].request.target <= f.beat
                                /\ f.active[t].cutoff = b.requests[at[t]].target
      BY <1>14, <2>1, <2>3 DEF SourceSound
    <3> QED
      BY <3>1, <3>2 DEF SourceSound
  <2> QED
    BY <2>2, <2>3
<1>18. \A d \in InFlight(f) : d \in InFlight(e) /\ d # c /\ f.batch[d] = e.batch[d]
  BY <1>12 DEF InFlight
<1>19. \A d \in InFlight(f) : TracksOf(e.batch[d].requests) \cap P = {}
  BY <1>18 DEF Sound, JobsApart, P, b
<1>20. ASSUME NEW d \in InFlight(f) PROVE JobSound(f, d)
  <2> DEFINE job == e.batch[d]
  <2>1. JobSound(e, d) /\ f.batch[d] = job /\ job \in Jobs(ids)
    BY <1>1, <1>18 DEF Sound, InFlight, Engines
  <2>2. \A i \in DOMAIN job.requests : job.requests[i].track \in Tracks
    BY <2>1, JobIs
  <2>3. \A i \in DOMAIN job.requests : job.requests[i].track \in TracksOf(job.requests)
    BY DEF TracksOf
  <2>4. \A i \in DOMAIN job.requests : f.pending[job.requests[i].track] = None
    <3> TAKE i \in DOMAIN job.requests
    <3>1. job.requests[i].track \in Tracks \ P
      BY <1>19, <1>20, <2>2, <2>3
    <3>2. e.pending[job.requests[i].track] = None
      BY <2>1 DEF JobSound
    <3> QED
      BY <1>3, <3>1, <3>2
  <2> QED
    BY <2>1, <2>4 DEF JobSound
<1>21. JobsApart(f)
  BY <1>18 DEF JobsApart, Sound
<1>22. KeptOnce(f)
  <2>1. \A t \in Tracks : Heard(f, t) = Heard(e, t)
    BY <1>14 DEF Heard
  <2>2. \A t \in Tracks \ P : Coming(f, t) = Coming(e, t)
    BY <1>3 DEF Coming
  <2>3. \A t \in P : Coming(e, t) = {}
    BY <1>10 DEF Coming, VoiceOf
  <2>4. \A t \in P : Coming(f, t) = {b.held[at[t]]} \ {None}
    BY <1>13
  <2>5. \A t, u \in P : t # u => Coming(f, t) \cap Coming(f, u) = {}
    <3> TAKE t, u \in P
    <3> HAVE t # u
    <3>1. at[t] \in DOMAIN b.held /\ at[u] \in DOMAIN b.held /\ at[t] # at[u]
      BY <1>7, <1>9
    <3>2. b.held[at[t]] # None => b.held[at[t]] # b.held[at[u]]
      BY <1>1, <3>1 DEF JobSound, b
    <3> QED
      BY <2>4, <3>2
  <2>6. Held(e, c) = {b.held[i] : i \in DOMAIN b.held} \ {None}
    BY <1>1 DEF Held, HeldVoices, b
  <2>7. UNION {Coming(f, t) : t \in P} = Held(e, c)
    <3>1. ASSUME NEW v PROVE v \in Held(e, c) <=> \E t \in P : v \in Coming(f, t)
      <4>1. ASSUME v \in Held(e, c) PROVE \E t \in P : v \in Coming(f, t)
        <5>1. PICK i \in DOMAIN b.held : v = b.held[i] /\ v # None
          BY <2>6, <4>1
        <5>2. b.requests[i].track \in P /\ at[b.requests[i].track] = i
          BY <1>7, <1>8, <1>9
        <5> QED
          BY <2>4, <5>1, <5>2
      <4>2. ASSUME NEW t \in P, v \in Coming(f, t) PROVE v \in Held(e, c)
        BY <1>7, <1>9, <2>4, <2>6, <4>2
      <4> QED
        BY <4>1, <4>2
    <3> QED
      BY <3>1
  <2>8. Held(f, c) = {} /\ \A d \in Callers : d # c => Held(f, d) = Held(e, d)
    BY <1>12 DEF Held
  <2>9. c \in Callers /\ P \in SUBSET Tracks /\ KeptOnce(e) /\ f.voices = e.voices
    BY <1>1, <1>8, <1>11
  <2> QED
    BY <2>1, <2>2, <2>3, <2>5, <2>7, <2>8, <2>9, KeptMoved
<1>23. f.running <=> f.phase = "running"
  BY <1>11 DEF Sound, Elsewhere
<1>24. Sound(f, ids)
  BY <1>15, <1>16, <1>17, <1>20, <1>21, <1>22, <1>23 DEF Sound
<1>25. OthersWait(e, c) => AllWait(f)
  BY <1>18 DEF OthersWait, AllWait
<1> QED
  BY <1>11, <1>12, <1>24, <1>25 DEF f

(***************************************************************************)
(* What the engine keeps to, whoever calls it: it is sound, its batches    *)
(* wait for materials, and it plays only when it has been unlocked, by the *)
(* one unlock that is not outdated.                                        *)
(***************************************************************************)
Unlocking(e) ==
    /\ e.phase \in {"running", "suspended"} => e.unlocked
    /\ \A c \in Callers : e.unlocking[c] = "fresh" =>
          ~e.unlocked /\ \A d \in Callers : e.unlocking[d] = "fresh" => d = c

Good(e, ids) == Sound(e, ids) /\ AllWait(e) /\ Unlocking(e)

(* Nothing but the transport, the phase, the stop or an unlock changes. *)
Aside(e, f) ==
    /\ f = [e EXCEPT !.phase = f.phase, !.running = f.running, !.beat = f.beat,
                     !.stop = f.stop, !.unlocked = f.unlocked, !.unlocking = f.unlocking]
    /\ f.running <=> f.phase = "running"
    /\ e.beat <= f.beat \/ \A t \in Tracks : e.active[t] = None

LEMMA AsideSound ==
    ASSUME NEW ids, NEW e, Sound(e, ids), NEW f, Aside(e, f), f \in Engines(ids)
    PROVE  /\ Sound(f, ids) /\ (AllWait(e) => AllWait(f))
           /\ f.active = e.active /\ f.pending = e.pending /\ f.voices = e.voices
           /\ f.batch = e.batch /\ f.buses = e.buses
<1>1. e \in Engines(ids)
  BY DEF Sound
<1>2. f.active = e.active /\ f.pending = e.pending /\ f.voices = e.voices
      /\ f.batch = e.batch /\ f.buses = e.buses
  BY <1>1 DEF Aside, Engines
<1>3. (f.running <=> f.phase = "running") /\ (e.beat <= f.beat \/ \A t \in Tracks : e.active[t] = None)
  BY DEF Aside
<1>4. SameMaterial(e, f)
  BY <1>2, <1>3 DEF SameMaterial, SameJobs
<1> QED
  BY <1>2, <1>3, <1>4, SameMaterialSound

(***************************************************************************)
(* initialize, on an engine that is at rest.                               *)
(***************************************************************************)
LEMMA InitializedGood ==
    ASSUME NEW ids, NoneApart(ids), NEW e, Good(e, ids), Initializable(e)
    PROVE  LET f == Initialized(e)
           IN  /\ Good(f, ids) /\ f.phase = Restored(e) /\ f.unlocked = e.unlocked /\ ~f.running
               /\ InFlight(f) = {} /\ Owning(f) = {} /\ f.stop = None /\ f.beat = e.beat
               /\ \A c \in Callers :
                     f.unlocking[c] # "fresh" /\ (f.unlocking[c] = "no" <=> e.unlocking[c] = "no")
<1> DEFINE n == NewGeneration(e)
           f == Initialized(e)
<1>1. e \in Engines(ids) /\ Sound(e, ids)
  BY DEF Good, Sound
<1>2. /\ n \in Engines(ids) /\ SameJobs(e, n)
      /\ n = [e EXCEPT !.unlocking = n.unlocking, !.batch = n.batch]
      /\ \A c \in Callers : n.unlocking[c] # "fresh" /\ (n.unlocking[c] = "no" <=> e.unlocking[c] = "no")
  BY <1>1, NewGenerationIs
<1>3. f = [n EXCEPT !.phase = Restored(e)]
  BY DEF Initialized
<1> HIDE DEF n, f
<1>4. Restored(e) \in {"initialized", "ready"}
  BY DEF Restored
<1>5. /\ f \in Engines(ids) /\ f.phase = Restored(e) /\ f.unlocking = n.unlocking
      /\ f.batch = n.batch /\ f.unlocked = n.unlocked /\ f.running = n.running
      /\ f.active = n.active /\ f.pending = n.pending /\ f.voices = n.voices /\ f.stop = n.stop
      /\ f.beat = n.beat /\ f.buses = n.buses
  BY <1>2, <1>3, <1>4 DEF Engines
<1>6. /\ n.unlocked = e.unlocked /\ n.running = e.running /\ n.active = e.active
      /\ n.pending = e.pending /\ n.voices = e.voices /\ n.stop = e.stop /\ n.beat = e.beat
      /\ n.buses = e.buses
  BY <1>1, <1>2 DEF Engines
<1>7. ~e.running
  BY <1>1 DEF Sound, Initializable
<1>8. SameMaterial(e, f)
  <2>1. e.beat <= f.beat
    BY <1>1, <1>5, <1>6 DEF Engines
  <2>2. SameJobs(e, f)
    BY <1>2, <1>5 DEF SameJobs
  <2> QED
    BY <1>5, <1>6, <2>1, <2>2 DEF SameMaterial
<1>9. ~f.running /\ f.phase # "running" /\ f.phase # "suspended"
  BY <1>4, <1>5, <1>6, <1>7
<1>10. Sound(f, ids) /\ AllWait(f)
  BY <1>1, <1>5, <1>8, <1>9, SameMaterialSound DEF Good
<1>11. Unlocking(f)
  BY <1>2, <1>5, <1>9 DEF Unlocking
<1>12. InFlight(f) = {} /\ Owning(f) = {} /\ f.stop = None
  <2>1. InFlight(f) = InFlight(e)
    BY <1>8 DEF SameMaterial, SameJobs, InFlight
  <2>2. Owning(f) = Owning(e)
    BY <1>5, <1>6 DEF Owning
  <2> QED
    BY <1>5, <1>6, <2>1, <2>2 DEF Initializable
<1> QED
  BY <1>2, <1>5, <1>6, <1>9, <1>10, <1>11, <1>12 DEF Good, f

(* An unlock begins, when no other is fresh and nothing plays. *)
LEMMA UnlockBegun ==
    ASSUME NEW ids, NEW e, Good(e, ids), NEW c \in Callers, ~e.unlocked,
           \A d \in Callers : e.unlocking[d] # "fresh"
    PROVE  LET f == [e EXCEPT !.unlocking[c] = "fresh"]
           IN  /\ Good(f, ids) /\ f.unlocking[c] = "fresh"
               /\ \A d \in Callers : d # c => f.unlocking[d] = e.unlocking[d]
               /\ f.phase = e.phase /\ f.running = e.running /\ f.unlocked = e.unlocked
               /\ f.beat = e.beat /\ f.stop = e.stop
               /\ f.active = e.active /\ f.pending = e.pending /\ f.batch = e.batch
<1> DEFINE f == [e EXCEPT !.unlocking[c] = "fresh"]
<1>1. e \in Engines(ids) /\ Sound(e, ids) /\ Unlocking(e)
  BY DEF Good, Sound
<1>2. /\ f \in Engines(ids) /\ f.unlocking[c] = "fresh"
      /\ \A d \in Callers : d # c => f.unlocking[d] = e.unlocking[d]
      /\ f.phase = e.phase /\ f.running = e.running /\ f.unlocked = e.unlocked
      /\ f.beat = e.beat /\ f.stop = e.stop
      /\ f.active = e.active /\ f.pending = e.pending /\ f.batch = e.batch
      /\ f = [e EXCEPT !.unlocking = f.unlocking]
  BY <1>1 DEF Engines
<1> HIDE DEF f
<1>3. Aside(e, f)
  <2>1. f = [e EXCEPT !.phase = f.phase, !.running = f.running, !.beat = f.beat,
                     !.stop = f.stop, !.unlocked = f.unlocked, !.unlocking = f.unlocking]
    BY <1>1, <1>2 DEF Engines
  <2>2. e.beat <= f.beat
    BY <1>1, <1>2 DEF Engines
  <2>3. f.running <=> f.phase = "running"
    BY <1>1, <1>2 DEF Sound
  <2> QED
    BY <2>1, <2>2, <2>3 DEF Aside
<1>4. Sound(f, ids) /\ AllWait(f)
  BY <1>1, <1>2, <1>3, AsideSound DEF Good
<1>5. Unlocking(f)
  BY <1>1, <1>2 DEF Unlocking
<1> QED
  BY <1>2, <1>4, <1>5 DEF Good, f

LEMMA OpenedGood ==
    ASSUME NEW ids, NoneApart(ids), NEW e, Good(e, ids), Initializable(e), NEW c \in Callers
    PROVE  Good(Opened(e, c), ids)
<1> DEFINE f == Initialized(e)
<1>1. Good(f, ids) /\ f.unlocked = e.unlocked /\ \A d \in Callers : f.unlocking[d] # "fresh"
  BY InitializedGood
<1>2. Opened(e, c) = IF e.unlocked THEN f ELSE [f EXCEPT !.unlocking[c] = "fresh"]
  BY DEF Opened
<1> HIDE DEF f
<1>3. ~e.unlocked => Good([f EXCEPT !.unlocking[c] = "fresh"], ids)
  BY <1>1, UnlockBegun
<1> QED
  BY <1>1, <1>2, <1>3

(***************************************************************************)
(* The browser's answer to an unlock.                                      *)
(***************************************************************************)
LEMMA UnlockResolvedGood ==
    ASSUME NEW ids, NEW e, Good(e, ids), NEW c \in Callers
    PROVE  LET f == UnlockResolved(e, c)
           IN  /\ Good(f, ids) /\ f.active = e.active /\ f.pending = e.pending /\ f.batch = e.batch
               /\ f.unlocking[c] = "no" /\ (\A d \in Callers : d # c => f.unlocking[d] = e.unlocking[d])
               /\ f.running = e.running /\ f.stop = e.stop /\ f.beat = e.beat
               /\ IF e.unlocking[c] = "fresh" THEN f.unlocked /\ f.phase = "ready"
                                              ELSE f.unlocked = e.unlocked /\ f.phase = e.phase
<1> DEFINE f == UnlockResolved(e, c)
<1>1. e \in Engines(ids) /\ Sound(e, ids) /\ Unlocking(e)
  BY DEF Good, Sound
<1>2. /\ f.unlocking[c] = "no" /\ (\A d \in Callers : d # c => f.unlocking[d] = e.unlocking[d])
      /\ f.running = e.running /\ f.stop = e.stop /\ f.beat = e.beat
      /\ IF e.unlocking[c] = "fresh" THEN f.unlocked /\ f.phase = "ready"
                                     ELSE f.unlocked = e.unlocked /\ f.phase = e.phase
      /\ f = [e EXCEPT !.unlocking = f.unlocking, !.unlocked = f.unlocked, !.phase = f.phase]
      /\ f.unlocking \in [Callers -> {"no", "fresh", "stale"}]
  BY <1>1 DEF Engines, UnlockResolved
<1> HIDE DEF f
<1>3. f.unlocked \in BOOLEAN /\ f.phase \in {"new", "initialized", "blocked", "ready", "running",
                                             "suspended", "stopped", "disposed"}
  BY <1>1, <1>2 DEF Engines
<1>4. f \in Engines(ids)
  BY <1>1, <1>2, <1>3 DEF Engines
<1>5. e.unlocking[c] = "fresh" => ~e.unlocked /\ e.phase # "running" /\ ~e.running
  BY <1>1 DEF Unlocking, Sound
<1>6. Aside(e, f)
  <2>1. f = [e EXCEPT !.phase = f.phase, !.running = f.running, !.beat = f.beat,
                     !.stop = f.stop, !.unlocked = f.unlocked, !.unlocking = f.unlocking]
    BY <1>1, <1>2 DEF Engines
  <2>2. e.beat <= f.beat
    BY <1>1, <1>2 DEF Engines
  <2>3. f.running <=> f.phase = "running"
    BY <1>1, <1>2, <1>5 DEF Sound
  <2> QED
    BY <2>1, <2>2, <2>3 DEF Aside
<1>7. /\ Sound(f, ids) /\ AllWait(f)
      /\ f.active = e.active /\ f.pending = e.pending /\ f.batch = e.batch
  BY <1>1, <1>4, <1>6, AsideSound DEF Good
<1>8. Unlocking(f)
  <2>1. f.phase \in {"running", "suspended"} => f.unlocked
    BY <1>1, <1>2 DEF Unlocking
  <2>2. CASE e.unlocking[c] = "fresh"
    <3>1. \A d \in Callers : f.unlocking[d] # "fresh"
      BY <1>1, <1>2, <2>2 DEF Unlocking
    <3> QED
      BY <2>1, <3>1 DEF Unlocking
  <2>3. CASE e.unlocking[c] # "fresh"
    BY <1>1, <1>2, <2>1, <2>3 DEF Unlocking
  <2> QED
    BY <2>2, <2>3
<1> QED
  BY <1>2, <1>7, <1>8 DEF Good, f

LEMMA UnlockRejectedGood ==
    ASSUME NEW ids, NEW e, Good(e, ids), NEW c \in Callers
    PROVE  LET f == UnlockRejected(e, c)
           IN  /\ Good(f, ids) /\ f.active = e.active /\ f.pending = e.pending /\ f.batch = e.batch
               /\ f.unlocking[c] = "no" /\ (\A d \in Callers : d # c => f.unlocking[d] = e.unlocking[d])
               /\ f.running = e.running /\ f.stop = e.stop /\ f.beat = e.beat
               /\ f.unlocked = e.unlocked
               /\ f.phase = IF e.unlocking[c] = "fresh" THEN "blocked" ELSE e.phase
<1> DEFINE f == UnlockRejected(e, c)
<1>1. e \in Engines(ids) /\ Sound(e, ids) /\ Unlocking(e)
  BY DEF Good, Sound
<1>2. /\ f.unlocking[c] = "no" /\ (\A d \in Callers : d # c => f.unlocking[d] = e.unlocking[d])
      /\ f.running = e.running /\ f.stop = e.stop /\ f.beat = e.beat
      /\ f.unlocked = e.unlocked
      /\ f.phase = IF e.unlocking[c] = "fresh" THEN "blocked" ELSE e.phase
      /\ f = [e EXCEPT !.unlocking = f.unlocking, !.phase = f.phase]
      /\ f.unlocking \in [Callers -> {"no", "fresh", "stale"}]
  BY <1>1 DEF Engines, UnlockRejected
<1> HIDE DEF f
<1>3. f.phase \in {"new", "initialized", "blocked", "ready", "running",
                   "suspended", "stopped", "disposed"}
  BY <1>1, <1>2 DEF Engines
<1>4. f \in Engines(ids)
  BY <1>1, <1>2, <1>3 DEF Engines
<1>5. e.unlocking[c] = "fresh" => e.phase # "running" /\ ~e.running
  BY <1>1 DEF Unlocking, Sound
<1>6. Aside(e, f)
  <2>1. f = [e EXCEPT !.phase = f.phase, !.running = f.running, !.beat = f.beat,
                     !.stop = f.stop, !.unlocked = f.unlocked, !.unlocking = f.unlocking]
    BY <1>1, <1>2 DEF Engines
  <2>2. e.beat <= f.beat
    BY <1>1, <1>2 DEF Engines
  <2>3. f.running <=> f.phase = "running"
    BY <1>1, <1>2, <1>5 DEF Sound
  <2> QED
    BY <2>1, <2>2, <2>3 DEF Aside
<1>7. /\ Sound(f, ids) /\ AllWait(f)
      /\ f.active = e.active /\ f.pending = e.pending /\ f.batch = e.batch
  BY <1>1, <1>4, <1>6, AsideSound DEF Good
<1>8. Unlocking(f)
  BY <1>1, <1>2 DEF Unlocking
<1> QED
  BY <1>2, <1>7, <1>8 DEF Good, f

(***************************************************************************)
(* The transport begins, stops for a while, goes on.                       *)
(***************************************************************************)
(* What stays when only the transport moves. *)
Moved(e, f, ids) ==
    /\ Good(f, ids) /\ f.active = e.active /\ f.pending = e.pending /\ f.batch = e.batch
    /\ f.unlocking = e.unlocking /\ f.stop = e.stop /\ f.unlocked = e.unlocked

LEMMA MovedGood ==
    ASSUME NEW ids, NEW e, Good(e, ids), NEW f, f \in Engines(ids), Aside(e, f),
           f.unlocking = e.unlocking, f.stop = e.stop, f.unlocked = e.unlocked,
           f.phase \in {"running", "suspended"} => e.unlocked
    PROVE  Moved(e, f, ids)
<1>1. Sound(e, ids) /\ AllWait(e) /\ Unlocking(e)
  BY DEF Good
<1>2. /\ Sound(f, ids) /\ AllWait(f)
      /\ f.active = e.active /\ f.pending = e.pending /\ f.batch = e.batch
  BY <1>1, AsideSound
<1>3. Unlocking(f)
  BY <1>1 DEF Unlocking
<1> QED
  BY <1>2, <1>3 DEF Moved, Good

LEMMA StartedGood ==
    ASSUME NEW ids, NEW e, Good(e, ids), e.unlocked, NEW beat \in 0 .. MaxBeat,
           e.beat <= beat \/ \A t \in Tracks : e.active[t] = None
    PROVE  LET f == Started(e, beat)
           IN  Moved(e, f, ids) /\ f.beat = beat /\ f.phase = "running" /\ f.running
<1> DEFINE f == Started(e, beat)
<1>1. e \in Engines(ids) /\ Unlocking(e)
  BY DEF Good, Sound
<1>2. /\ f \in Engines(ids) /\ f.phase = "running" /\ f.running = TRUE /\ f.beat = beat
      /\ f.unlocking = e.unlocking /\ f.stop = e.stop /\ f.unlocked = e.unlocked
      /\ f = [e EXCEPT !.phase = f.phase, !.running = f.running, !.beat = f.beat,
                       !.stop = f.stop, !.unlocked = f.unlocked, !.unlocking = f.unlocking]
  BY <1>1 DEF Engines, Started
<1> HIDE DEF f
<1>3. e.beat <= f.beat \/ \A t \in Tracks : e.active[t] = None
  BY <1>1, <1>2 DEF Engines
<1>4. Aside(e, f)
  BY <1>2, <1>3 DEF Aside
<1>5. Moved(e, f, ids)
  BY <1>1, <1>2, <1>4, MovedGood DEF Unlocking
<1> QED
  BY <1>2, <1>5 DEF f

LEMMA SuspendedGood ==
    ASSUME NEW ids, NEW e, Good(e, ids), e.phase = "running"
    PROVE  LET f == [e EXCEPT !.phase = "suspended", !.running = FALSE]
           IN  Moved(e, f, ids) /\ f.beat = e.beat /\ f.phase = "suspended" /\ ~f.running
<1> DEFINE f == [e EXCEPT !.phase = "suspended", !.running = FALSE]
<1>1. e \in Engines(ids) /\ Unlocking(e)
  BY DEF Good, Sound
<1>2. /\ f \in Engines(ids) /\ f.phase = "suspended" /\ f.running = FALSE /\ f.beat = e.beat
      /\ f.unlocking = e.unlocking /\ f.stop = e.stop /\ f.unlocked = e.unlocked
      /\ f = [e EXCEPT !.phase = f.phase, !.running = f.running, !.beat = f.beat,
                       !.stop = f.stop, !.unlocked = f.unlocked, !.unlocking = f.unlocking]
  BY <1>1 DEF Engines
<1> HIDE DEF f
<1>3. e.beat <= f.beat \/ \A t \in Tracks : e.active[t] = None
  BY <1>1, <1>2 DEF Engines
<1>4. Aside(e, f)
  BY <1>2, <1>3 DEF Aside
<1>5. Moved(e, f, ids)
  BY <1>1, <1>2, <1>4, MovedGood DEF Unlocking
<1> QED
  BY <1>2, <1>5 DEF f

LEMMA ResumedGood ==
    ASSUME NEW ids, NEW e, Good(e, ids), e.phase = "suspended"
    PROVE  LET f == [e EXCEPT !.phase = "running", !.running = TRUE]
           IN  Moved(e, f, ids) /\ f.beat = e.beat /\ f.phase = "running" /\ f.running
<1> DEFINE f == [e EXCEPT !.phase = "running", !.running = TRUE]
<1>1. e \in Engines(ids) /\ Unlocking(e)
  BY DEF Good, Sound
<1>2. /\ f \in Engines(ids) /\ f.phase = "running" /\ f.running = TRUE /\ f.beat = e.beat
      /\ f.unlocking = e.unlocking /\ f.stop = e.stop /\ f.unlocked = e.unlocked
      /\ f = [e EXCEPT !.phase = f.phase, !.running = f.running, !.beat = f.beat,
                       !.stop = f.stop, !.unlocked = f.unlocked, !.unlocking = f.unlocking]
  BY <1>1 DEF Engines
<1> HIDE DEF f
<1>3. e.beat <= f.beat \/ \A t \in Tracks : e.active[t] = None
  BY <1>1, <1>2 DEF Engines
<1>4. Aside(e, f)
  BY <1>2, <1>3 DEF Aside
<1>5. Moved(e, f, ids)
  BY <1>1, <1>2, <1>4, MovedGood DEF Unlocking
<1> QED
  BY <1>2, <1>5 DEF f

(***************************************************************************)
(* A stop is scheduled or taken back; a beat passes.                       *)
(***************************************************************************)
LEMMA StopSetGood ==
    ASSUME NEW ids, NEW e, Good(e, ids), NEW stop \in [id : ids, target : 0 .. MaxBeat] \cup {None}
    PROVE  LET f == [e EXCEPT !.stop = stop]
           IN  /\ Good(f, ids) /\ f.active = e.active /\ f.pending = e.pending /\ f.batch = e.batch
               /\ f.unlocking = e.unlocking /\ f.beat = e.beat /\ f.phase = e.phase
               /\ f.running = e.running /\ f.stop = stop
<1> DEFINE f == [e EXCEPT !.stop = stop]
<1>1. e \in Engines(ids) /\ Sound(e, ids) /\ Unlocking(e)
  BY DEF Good, Sound
<1>2. /\ f \in Engines(ids) /\ f.phase = e.phase /\ f.running = e.running /\ f.beat = e.beat
      /\ f.unlocking = e.unlocking /\ f.stop = stop /\ f.unlocked = e.unlocked
  BY <1>1 DEF Engines
<1>3. f = [e EXCEPT !.phase = f.phase, !.running = f.running, !.beat = f.beat,
                    !.stop = f.stop, !.unlocked = f.unlocked, !.unlocking = f.unlocking]
  BY <1>1 DEF Engines
<1> HIDE DEF f
<1>4. Aside(e, f)
  <2>1. f.running <=> f.phase = "running"
    BY <1>1, <1>2 DEF Sound
  <2>2. e.beat <= f.beat
    BY <1>1, <1>2 DEF Engines
  <2> QED
    BY <1>3, <2>1, <2>2 DEF Aside
<1>5. /\ Sound(f, ids) /\ AllWait(f)
      /\ f.active = e.active /\ f.pending = e.pending /\ f.batch = e.batch
  BY <1>1, <1>2, <1>4, AsideSound DEF Good
<1>6. Unlocking(f)
  BY <1>1, <1>2 DEF Unlocking
<1> QED
  BY <1>2, <1>5, <1>6 DEF Good, f

LEMMA StopScheduledGood ==
    ASSUME NEW ids, NEW e, Good(e, ids), NEW id \in ids, NEW target \in 0 .. MaxBeat
    PROVE  LET f == StopScheduled(e, id, target)
           IN  /\ Good(f, ids) /\ f.active = e.active /\ f.pending = e.pending /\ f.batch = e.batch
               /\ f.unlocking = e.unlocking /\ f.beat = e.beat /\ f.phase = e.phase
               /\ f.running = e.running
<1> DEFINE stop == [id |-> id, target |-> target]
           f == [e EXCEPT !.stop = stop]
<1>1. stop \in [id : ids, target : 0 .. MaxBeat] \cup {None}
  OBVIOUS
<1>2. StopScheduled(e, id, target) = IF e.stop = None THEN f ELSE e
  BY DEF StopScheduled
<1> HIDE DEF stop
<1>3. /\ Good(f, ids) /\ f.active = e.active /\ f.pending = e.pending /\ f.batch = e.batch
      /\ f.unlocking = e.unlocking /\ f.beat = e.beat /\ f.phase = e.phase
      /\ f.running = e.running
  BY <1>1, StopSetGood
<1> HIDE DEF f
<1> QED
  BY <1>2, <1>3

LEMMA TickGood ==
    ASSUME NEW ids, NEW e, Good(e, ids), Advancing(e)
    PROVE  LET f == [e EXCEPT !.beat = @ + 1]
           IN  /\ Good(f, ids) /\ f.active = e.active /\ f.pending = e.pending /\ f.batch = e.batch
               /\ f.unlocking = e.unlocking /\ f.stop = e.stop /\ f.phase = e.phase
               /\ f.running = e.running
<1> DEFINE f == [e EXCEPT !.beat = @ + 1]
<1>1. e \in Engines(ids) /\ Sound(e, ids) /\ Unlocking(e)
  BY DEF Good, Sound
<1>2. e.beat + 1 \in 0 .. MaxBeat /\ e.beat \in Nat
  <2>1. e.beat \in 0 .. MaxBeat
    BY <1>1 DEF Engines
  <2> QED
    BY <2>1, EngineAssumption DEF Advancing
<1>3. /\ f.phase = e.phase /\ f.running = e.running /\ f.beat = e.beat + 1
      /\ f.unlocking = e.unlocking /\ f.stop = e.stop /\ f.unlocked = e.unlocked
      /\ f = [e EXCEPT !.phase = f.phase, !.running = f.running, !.beat = f.beat,
                       !.stop = f.stop, !.unlocked = f.unlocked, !.unlocking = f.unlocking]
  BY <1>1 DEF Engines
<1>4. f \in Engines(ids)
  BY <1>1, <1>2 DEF Engines
<1> HIDE DEF f
<1>5. Aside(e, f)
  <2>1. f.running <=> f.phase = "running"
    BY <1>1, <1>3 DEF Sound
  <2>2. e.beat <= f.beat
    BY <1>2, <1>3
  <2> QED
    BY <1>3, <2>1, <2>2 DEF Aside
<1>6. /\ Sound(f, ids) /\ AllWait(f)
      /\ f.active = e.active /\ f.pending = e.pending /\ f.batch = e.batch
  BY <1>1, <1>4, <1>5, AsideSound DEF Good
<1>7. Unlocking(f)
  BY <1>1, <1>3 DEF Unlocking
<1> QED
  BY <1>3, <1>6, <1>7 DEF Good, f

(***************************************************************************)
(* stop, reset, dispose.                                                   *)
(***************************************************************************)
Hushed(e, f) ==
    /\ Silent(f) /\ f.unlocked = e.unlocked /\ SameJobs(e, f)
    /\ \A c \in Callers : f.unlocking[c] = "no" <=> e.unlocking[c] = "no"

LEMMA SilencedGood ==
    ASSUME NEW ids, NoneApart(ids), NEW e, Good(e, ids), NEW f,
           NEW phase \in {"initialized", "ready", "stopped", "disposed"},
           NEW buses \in SUBSET Tracks,
           f = Quiet(e, phase, buses)
    PROVE  Good(f, ids) /\ Hushed(e, f) /\ f.phase = phase
<1>1. Sound(e, ids) /\ AllWait(e)
  BY DEF Good
<1>2. /\ Sound(f, ids) /\ (AllWait(e) => AllWait(f))
      /\ Silent(f) /\ f.phase = phase /\ f.unlocked = e.unlocked /\ SameJobs(e, f)
      /\ \A c \in Callers : f.unlocking[c] = "no" <=> e.unlocking[c] = "no"
  BY <1>1, Silences
<1>3. Unlocking(f)
  BY <1>2 DEF Unlocking, Silent
<1> QED
  BY <1>1, <1>2, <1>3 DEF Good, Hushed

LEMMA ResetGood ==
    ASSUME NEW ids, NoneApart(ids), NEW e, Good(e, ids)
    PROVE  /\ Good(Reset(e), ids) /\ Hushed(e, Reset(e)) /\ Reset(e).phase = Restored(e)
           /\ Good(Disposed(e), ids)
<1> DEFINE buses == {}
           f == Quiet(e, Restored(e), buses)
           g == Quiet(e, "disposed", buses)
<1>1. /\ Restored(e) \in {"initialized", "ready", "stopped", "disposed"}
      /\ "disposed" \in {"initialized", "ready", "stopped", "disposed"}
      /\ buses \in SUBSET Tracks
  BY DEF Restored
<1>2. Reset(e) = f /\ Disposed(e) = g
  BY DEF Reset, Disposed, Quiet
<1> HIDE DEF buses
<1>3. Good(f, ids) /\ Hushed(e, f) /\ f.phase = Restored(e)
  BY <1>1, SilencedGood
<1>4. Good(g, ids)
  BY <1>1, SilencedGood
<1> HIDE DEF f, g
<1> QED
  BY <1>2, <1>3, <1>4

LEMMA StoppedGood ==
    ASSUME NEW ids, NoneApart(ids), NEW e, Good(e, ids)
    PROVE  Good(Stopped(e), ids) /\ Hushed(e, Stopped(e)) /\ Stopped(e).phase = "stopped"
<1> DEFINE n == NewGeneration(e)
           k == CleanTracks(n)
           f == [k EXCEPT !.phase = "stopped", !.running = FALSE, !.beat = 0, !.buses = e.buses]
<1>1. e \in Engines(ids) /\ Sound(e, ids)
  BY DEF Good, Sound
<1>2. n \in Engines(ids) /\ n.buses = e.buses
  <2>1. /\ n \in Engines(ids)
        /\ n = [e EXCEPT !.unlocking = n.unlocking, !.batch = n.batch]
    BY <1>1, NewGenerationIs
  <2> HIDE DEF n
  <2> QED
    BY <1>1, <2>1 DEF Engines
<1> HIDE DEF n
<1>3. k.buses = e.buses /\ k = [k EXCEPT !.buses = e.buses]
  BY <1>2 DEF CleanTracks, Engines
<1>4. Stopped(e) = [k EXCEPT !.phase = "stopped", !.running = FALSE, !.beat = 0]
  BY DEF Stopped, n
<1>5. Stopped(e) = f
  BY <1>2, <1>4 DEF CleanTracks, Engines
<1>6. e.buses \in SUBSET Tracks /\ "stopped" \in {"initialized", "ready", "stopped", "disposed"}
  BY <1>1 DEF Engines
<1>7. f = Quiet(e, "stopped", e.buses)
  BY DEF n, Quiet
<1> HIDE DEF f
<1>8. Good(f, ids) /\ Hushed(e, f) /\ f.phase = "stopped"
  BY <1>6, <1>7, SilencedGood
<1> QED
  BY <1>5, <1>8

(***************************************************************************)
(* The end of an await: the batch waits on, is committed, or is dropped    *)
(* or rolled back.                                                         *)
(***************************************************************************)
Worked(e, f, c, ids) ==
    /\ Good(f, ids) /\ Elsewhere(e, f)
    /\ \A d \in Callers : d # c => f.batch[d] = e.batch[d]

InTime(e, requests) == \A i \in DOMAIN requests : requests[i].target >= e.beat

LEMMA ElsewhereUnlocking ==
    ASSUME NEW e, NEW f, Elsewhere(e, f), Unlocking(e)
    PROVE  Unlocking(f)
BY DEF Elsewhere, Unlocking

LEMMA BatchSettles ==
    ASSUME NEW ids, NoneApart(ids), NEW e, Unlocking(e), NEW c \in InFlight(e),
           Sound(e, ids), OthersWait(e, c)
    PROVE  /\ Worked(e, BatchDropped(e, c), c, ids) /\ BatchDropped(e, c).batch[c] = None
           /\ BatchDropped(e, c).active = e.active /\ BatchDropped(e, c).pending = e.pending
           /\ \A n \in 1 .. Len(e.batch[c].requests) : Worked(e, RolledBack(e, c, n), c, ids)
           /\ Prepared(e, c) /\ InTime(e, e.batch[c].requests) =>
                 Worked(e, Committed(e, c), c, ids) /\ Committed(e, c).batch[c] = None
<1> DEFINE f == BatchDropped(e, c)
           g == Committed(e, c)
<1>1. /\ Sound(f, ids) /\ AllWait(f)
      /\ f.active = e.active /\ f.pending = e.pending /\ Elsewhere(e, f)
      /\ f.batch[c] = None /\ \A d \in Callers : d # c => f.batch[d] = e.batch[d]
  BY BatchDroppedSound
<1>2. ASSUME NEW n \in 1 .. Len(e.batch[c].requests) PROVE Worked(e, RolledBack(e, c, n), c, ids)
  <2> DEFINE r == RolledBack(e, c, n)
  <2>1. /\ Sound(r, ids) /\ AllWait(r) /\ Elsewhere(e, r)
        /\ r.batch[c] = None /\ \A d \in Callers : d # c => r.batch[d] = e.batch[d]
    BY RolledBackSound
  <2> HIDE DEF r
  <2> QED
    BY <2>1, ElsewhereUnlocking DEF Worked, Good, r
<1>3. ASSUME Prepared(e, c), InTime(e, e.batch[c].requests)
      PROVE  Worked(e, g, c, ids) /\ g.batch[c] = None
  <2>1. /\ Sound(g, ids) /\ AllWait(g) /\ Elsewhere(e, g)
        /\ g.batch[c] = None /\ \A d \in Callers : d # c => g.batch[d] = e.batch[d]
    BY <1>3, CommittedSound DEF InTime
  <2> HIDE DEF g
  <2> QED
    BY <2>1, ElsewhereUnlocking DEF Worked, Good
<1> HIDE DEF f, g
<1>4. Worked(e, f, c, ids)
  BY <1>1, ElsewhereUnlocking DEF Worked, Good
<1> QED
  BY <1>1, <1>2, <1>3, <1>4 DEF f, g

(* What a call or an answer of the preparer leads to, from an engine that  *)
(* is good.                                                                *)
LEMMA UnderwaySettles ==
    ASSUME NEW ids, NoneApart(ids), NEW e, Good(e, ids), NEW c \in Callers,
           NEW f, NEW requests, Underway(e, f, c, ids, requests)
    PROVE  /\ ~Prepared(f, c) => Worked(e, f, c, ids)
           /\ Worked(e, BatchDropped(f, c), c, ids) /\ BatchDropped(f, c).batch[c] = None
           /\ BatchDropped(f, c).active = e.active /\ BatchDropped(f, c).pending = e.pending
           /\ \A n \in 1 .. Len(requests) : Worked(e, RolledBack(f, c, n), c, ids)
           /\ Prepared(f, c) /\ InTime(e, requests) =>
                 Worked(e, Committed(f, c), c, ids) /\ Committed(f, c).batch[c] = None
           /\ c \in InFlight(f) /\ f.batch[c].requests = requests
<1>1. OthersWait(e, c) /\ Unlocking(e)
  BY DEF Good, AllWait, OthersWait
<1>2. /\ Sound(f, ids) /\ OthersWait(f, c)
      /\ f.active = e.active /\ f.pending = e.pending /\ Elsewhere(e, f)
      /\ \A d \in Callers : d # c => f.batch[d] = e.batch[d]
      /\ f.batch[c] # None /\ f.batch[c].requests = requests
      /\ Prepared(f, c) \/ Waits(f.batch[c])
  BY <1>1 DEF Underway
<1>3. Unlocking(f) /\ c \in InFlight(f)
  BY <1>1, <1>2, ElsewhereUnlocking DEF InFlight
<1>4. /\ Worked(f, BatchDropped(f, c), c, ids) /\ BatchDropped(f, c).batch[c] = None
      /\ BatchDropped(f, c).active = f.active /\ BatchDropped(f, c).pending = f.pending
      /\ \A n \in 1 .. Len(f.batch[c].requests) : Worked(f, RolledBack(f, c, n), c, ids)
      /\ Prepared(f, c) /\ InTime(f, f.batch[c].requests) =>
            Worked(f, Committed(f, c), c, ids) /\ Committed(f, c).batch[c] = None
  BY <1>2, <1>3, BatchSettles
<1>5. InTime(e, requests) => InTime(f, f.batch[c].requests)
  BY <1>2 DEF InTime, Elsewhere
<1>6. ASSUME NEW g, Worked(f, g, c, ids) PROVE Worked(e, g, c, ids)
  BY <1>2, <1>6 DEF Worked, Elsewhere
<1>7. ASSUME ~Prepared(f, c) PROVE Worked(e, f, c, ids)
  <2>1. AllWait(f)
    BY <1>2, <1>7 DEF OthersWait, AllWait
  <2> QED
    BY <1>2, <1>3, <2>1 DEF Worked, Good
<1> QED
  BY <1>2, <1>3, <1>4, <1>5, <1>6, <1>7

(* A batch that is not refused, and is no retry, may begin. *)
LEMMA NotRefused ==
    ASSUME NEW ids, NEW e, Sound(e, ids), NEW c \in Callers, e.batch[c] = None,
           NEW requests \in Seq(Requests(ids)),
           ~BatchRefused(e, requests), ~AllRetries(e, requests)
    PROVE  Placeable(e, c, requests) /\ InTime(e, requests)
<1>1. \A i \in DOMAIN requests : ~Retry(e, requests[i])
  BY DEF BatchRefused, AllRetries
<1>2. \A i \in DOMAIN requests :
          /\ ~(requests[i].target < e.beat)
          /\ \A j \in 1 .. i - 1 : requests[j].track # requests[i].track
          /\ requests[i].track \notin Reserved(e)
          /\ e.pending[requests[i].track] = None
  BY <1>1 DEF BatchRefused, Unavailable
<1>3. \A i, j \in DOMAIN requests : i # j => requests[i].track # requests[j].track
  <2> TAKE i, j \in DOMAIN requests
  <2> HAVE i # j
  <2>1. i \in Nat /\ j \in Nat /\ 1 <= i /\ 1 <= j
    OBVIOUS
  <2>2. CASE i < j
    BY <1>2, <2>1, <2>2
  <2>3. CASE j < i
    BY <1>2, <2>1, <2>3
  <2> QED
    BY <2>1, <2>2, <2>3
<1>4. OwnTracks(e, c, requests)
  BY <1>2 DEF OwnTracks, Reserved, TracksOf
<1>5. InTime(e, requests)
  <2> SUFFICES ASSUME NEW i \in DOMAIN requests PROVE requests[i].target >= e.beat
    BY DEF InTime
  <2>1. requests[i] \in Requests(ids) /\ e \in Engines(ids)
    BY DEF Sound
  <2>2. requests[i].target \in Nat /\ e.beat \in Nat
    BY <2>1 DEF Requests, Engines
  <2> QED
    BY <1>2, <2>2
<1> QED
  BY <1>2, <1>3, <1>4, <1>5 DEF Placeable

LEMMA BegunUnderway ==
    ASSUME NEW ids, NoneApart(ids), NEW e, Good(e, ids), NEW c \in Callers, e.batch[c] = None,
           NEW requests \in Seq(Requests(ids)),
           ~BatchRefused(e, requests), ~AllRetries(e, requests)
    PROVE  /\ Underway(e, BatchBegun(e, c, requests), c, ids, requests)
           /\ BatchBegun(e, c, requests).batch[c].fresh
           /\ InTime(e, requests)
<1>1. Sound(e, ids)
  BY DEF Good
<1>2. Placeable(e, c, requests) /\ InTime(e, requests)
  BY <1>1, NotRefused
<1> QED
  BY <1>1, <1>2, BatchBegunSound

LEMMA PreparedUnderway ==
    ASSUME NEW ids, NoneApart(ids), NEW e, Good(e, ids), NEW c \in InFlight(e),
           Voices # e.voices
    PROVE  LET f == MaterialPrepared(e, c, FreshVoice(e))
           IN  /\ Underway(e, f, c, ids, e.batch[c].requests)
               /\ f.batch[c].fresh <=> e.batch[c].fresh
               /\ Committable(f, c) => InTime(e, e.batch[c].requests)
<1> DEFINE f == MaterialPrepared(e, c, FreshVoice(e))
<1>1. Sound(e, ids) /\ Waits(e.batch[c])
  BY DEF Good, AllWait
<1>2. FreshVoice(e) \in Voices \ e.voices
  <2>1. e.voices \subseteq Voices
    BY <1>1 DEF Sound, Engines
  <2> QED
    BY <2>1 DEF FreshVoice
<1>3. /\ Underway(e, f, c, ids, e.batch[c].requests)
      /\ f.batch[c].fresh <=> e.batch[c].fresh
  BY <1>1, <1>2, MaterialPreparedSound
<1> HIDE DEF f
<1>4. Committable(f, c) => InTime(e, e.batch[c].requests)
  BY <1>3 DEF Underway, Committable, InTime, Elsewhere
<1> QED
  BY <1>3, <1>4 DEF f

LEMMA OneTrackGood ==
    ASSUME NEW ids, NoneApart(ids), NEW e, Good(e, ids), NEW t \in Tracks
    PROVE  /\ Good(Cancelled(e, t), ids)
           /\ Due(e, t) => /\ Good(AtBoundary(e, t), ids) /\ Elsewhere(e, AtBoundary(e, t))
                           /\ AtBoundary(e, t).batch = e.batch
<1> DEFINE f == Cancelled(e, t)
           g == AtBoundary(e, t)
<1>1. Sound(e, ids) /\ AllWait(e) /\ Unlocking(e)
  BY DEF Good
<1>2. Sound(f, ids) /\ AllWait(f) /\ Elsewhere(e, f)
  BY <1>1, CancelledSound
<1>3. Due(e, t) => Sound(g, ids) /\ AllWait(g) /\ Elsewhere(e, g) /\ g.batch = e.batch
  BY <1>1, AtBoundarySound
<1> HIDE DEF f, g
<1> QED
  BY <1>1, <1>2, <1>3, ElsewhereUnlocking DEF Good, f, g

LEMMA NewEngineGood ==
    ASSUME NEW ids
    PROVE  Good(NewEngine, ids)
<1> DEFINE e == NewEngine
<1>1. /\ e.phase = "new" /\ ~e.running /\ e.running = FALSE /\ e.unlocked = FALSE /\ e.stop = None
      /\ e.buses = {} /\ e.voices = {} /\ e.beat = 0
      /\ e.active = [t \in Tracks |-> None] /\ e.pending = [t \in Tracks |-> None]
      /\ e.unlocking = [c \in Callers |-> "no"] /\ e.batch = [c \in Callers |-> None]
  BY DEF NewEngine
<1>2. e \in Engines(ids)
  <2>1. 0 \in 0 .. MaxBeat
    BY EngineAssumption
  <2> QED
    BY <2>1 DEF NewEngine, Engines
<1> HIDE DEF e
<1>3. InFlight(e) = {} /\ Owning(e) = {}
  BY <1>1 DEF InFlight, Owning
<1>4. /\ \A t \in Tracks : SourceSound(e, t) /\ Heard(e, t) = {} /\ Coming(e, t) = {}
      /\ \A c \in Callers : Held(e, c) = {}
  BY <1>1 DEF SourceSound, Heard, Coming, VoiceOf, Held
<1>5. KeptOnce(e)
  BY <1>1, <1>4 DEF KeptOnce
<1>6. Sound(e, ids)
  BY <1>1, <1>2, <1>3, <1>4, <1>5 DEF Sound, JobsApart
<1>7. AllWait(e) /\ Unlocking(e)
  BY <1>1, <1>3 DEF AllWait, Unlocking
<1> QED
  BY <1>6, <1>7 DEF Good, e

-----------------------------------------------------------------------------
(* THE ENGINE BY ITSELF                                                    *)

EngineInv == Good(engine, Ids)

LEMMA IdsApart == NoneApart(Ids)
BY BatchesAssumption DEF NoneApart

(* What is scheduled is a sequence of requests. *)
LEMMA AtRequests ==
    ASSUME EngineInv, NEW batch \in Batches, \A i \in DOMAIN At(batch) : At(batch)[i].target <= MaxBeat
    PROVE  At(batch) \in Seq(Requests(Ids))
<1> DEFINE given == [id : BatchIds, track : Tracks, kind : {"launch", "stop"}, target : Nat]
           a == At(batch)
<1>1. batch \in Seq(given)
  BY BatchesAssumption
<1>2. engine.beat \in Nat
  BY DEF EngineInv, Good, Sound, Engines
<1>3. DOMAIN a = 1 .. Len(batch) /\ Len(batch) \in Nat
  BY <1>1 DEF At
<1>4. ASSUME NEW i \in DOMAIN a PROVE a[i] \in Requests(Ids)
  <2>1. i \in DOMAIN batch /\ batch[i] \in given
    <3> HIDE DEF given, a
    <3> QED
      BY <1>1, <1>3, <1>4
  <2>2. a[i] = [batch[i] EXCEPT !.target = engine.beat + @]
    BY <2>1 DEF At
  <2>3. a[i].target <= MaxBeat
    OBVIOUS
  <2> HIDE DEF a
  <2>4. a[i].target = engine.beat + batch[i].target /\ batch[i].target \in Nat
    BY <2>1, <2>2
  <2>5. a[i].target \in 0 .. MaxBeat
    BY <1>2, <2>3, <2>4, EngineAssumption
  <2>6. /\ a[i] = [id |-> batch[i].id, track |-> batch[i].track, kind |-> batch[i].kind,
                   target |-> a[i].target]
        /\ batch[i].id \in Ids /\ batch[i].track \in Tracks /\ batch[i].kind \in {"launch", "stop"}
    BY <2>1, <2>2 DEF Ids
  <2> QED
    BY <2>5, <2>6 DEF Requests
<1>5. a = [i \in 1 .. Len(batch) |-> a[i]]
  BY <1>3 DEF At
<1> HIDE DEF a
<1>6. a \in Seq(Requests(Ids))
  BY <1>3, <1>4, <1>5
<1> QED
  BY <1>6 DEF a

LEMMA ScheduleGood ==
    ASSUME EngineInv, NEW c \in Callers, NEW batch \in Batches, Schedule(c, At(batch))
    PROVE  EngineInv'
<1> DEFINE requests == At(batch)
           f == BatchBegun(engine, c, requests)
<1>1. /\ engine.batch[c] = None /\ ~BatchRefused(engine, requests) /\ ~AllRetries(engine, requests)
      /\ \A i \in DOMAIN requests : requests[i].target <= MaxBeat
      /\ engine' = IF Prepared(f, c) THEN Committed(f, c) ELSE f
  BY DEF Schedule, IdleCaller
<1>2. requests \in Seq(Requests(Ids))
  BY <1>1, AtRequests
<1> HIDE DEF requests
<1>3. Underway(engine, f, c, Ids, requests) /\ InTime(engine, requests)
  BY <1>1, <1>2, IdsApart, BegunUnderway DEF EngineInv
<1> HIDE DEF f
<1>4. /\ ~Prepared(f, c) => Worked(engine, f, c, Ids)
      /\ Prepared(f, c) => Worked(engine, Committed(f, c), c, Ids)
  BY <1>3, IdsApart, UnderwaySettles DEF EngineInv
<1>5. Worked(engine, engine', c, Ids)
  BY <1>1, <1>4
<1> QED
  BY <1>5 DEF Worked, EngineInv

LEMMA PreparerGood ==
    ASSUME EngineInv, NEW c \in Callers, PrepareResolves(c) \/ PrepareRejects(c) \/ CommitFails(c)
    PROVE  EngineInv'
<1> DEFINE f == MaterialPrepared(engine, c, FreshVoice(engine))
           requests == engine.batch[c].requests
<1>1. c \in InFlight(engine) /\ Sound(engine, Ids) /\ Unlocking(engine) /\ OthersWait(engine, c)
  BY DEF PrepareResolves, PrepareRejects, CommitFails, EngineInv, Good, AllWait, OthersWait
<1>2. ASSUME Voices # engine.voices
      PROVE  /\ ~Prepared(f, c) => Worked(engine, f, c, Ids)
             /\ Worked(engine, BatchDropped(f, c), c, Ids)
             /\ \A n \in 1 .. Len(requests) : Worked(engine, RolledBack(f, c, n), c, Ids)
             /\ Prepared(f, c) /\ Committable(f, c) => Worked(engine, Committed(f, c), c, Ids)
             /\ f.batch[c].requests = requests
  <2>1. /\ Underway(engine, f, c, Ids, requests)
        /\ Committable(f, c) => InTime(engine, requests)
    BY <1>1, <1>2, IdsApart, PreparedUnderway DEF EngineInv
  <2> HIDE DEF f, requests
  <2> QED
    BY <2>1, <1>1, IdsApart, UnderwaySettles DEF EngineInv, InFlight
<1> HIDE DEF f
<1>3. CASE PrepareResolves(c)
  <2>1. /\ Voices # engine.voices
        /\ engine' = IF ~Prepared(f, c) THEN f
                     ELSE IF Committable(f, c) THEN Committed(f, c) ELSE BatchDropped(f, c)
    BY <1>3 DEF PrepareResolves, f
  <2>2. Worked(engine, engine', c, Ids)
    BY <1>2, <2>1
  <2> QED
    BY <2>2 DEF Worked, EngineInv
<1>4. CASE PrepareRejects(c)
  <2>1. Worked(engine, BatchDropped(engine, c), c, Ids)
    BY <1>1, IdsApart, BatchSettles
  <2> QED
    BY <1>4, <2>1 DEF PrepareRejects, Worked, EngineInv
<1>5. CASE CommitFails(c)
  <2>1. /\ Voices # engine.voices
        /\ \E n \in 1 .. Len(f.batch[c].requests) : engine' = RolledBack(f, c, n)
    BY <1>5 DEF CommitFails, f
  <2>2. Worked(engine, engine', c, Ids)
    BY <1>2, <2>1
  <2> QED
    BY <2>2 DEF Worked, EngineInv
<1> QED
  BY <1>3, <1>4, <1>5

LEMMA TransportStepsGood ==
    ASSUME EngineInv, Start \/ Suspend \/ Resume \/ Stop \/ ResetEngine \/ Dispose
                        \/ TransportStop \/ Tick
    PROVE  EngineInv'
<1>1. Good(engine, Ids) /\ engine \in Engines(Ids)
  BY DEF EngineInv, Good, Sound
<1>2. CASE Start
  <2>1. engine.unlocked /\ engine' = Started(engine, engine.beat)
    BY <1>2 DEF Start, Startable
  <2>2. engine.beat \in 0 .. MaxBeat /\ engine.beat <= engine.beat
    BY <1>1 DEF Engines
  <2>3. Moved(engine, Started(engine, engine.beat), Ids)
    BY <1>1, <2>1, <2>2, StartedGood
  <2> QED
    BY <2>1, <2>3 DEF Moved, EngineInv
<1>3. CASE Suspend
  <2>1. Moved(engine, [engine EXCEPT !.phase = "suspended", !.running = FALSE], Ids)
    BY <1>1, <1>3, SuspendedGood DEF Suspend
  <2> QED
    BY <1>3, <2>1 DEF Suspend, Moved, EngineInv
<1>4. CASE Resume
  <2>1. Moved(engine, [engine EXCEPT !.phase = "running", !.running = TRUE], Ids)
    BY <1>1, <1>4, ResumedGood DEF Resume
  <2> QED
    BY <1>4, <2>1 DEF Resume, Moved, EngineInv
<1>5. CASE Stop \/ TransportStop
  BY <1>1, <1>5, IdsApart, StoppedGood DEF Stop, TransportStop, EngineInv
<1>6. CASE ResetEngine \/ Dispose
  BY <1>1, <1>6, IdsApart, ResetGood DEF ResetEngine, Dispose, EngineInv
<1>7. CASE Tick
  <2>1. Good([engine EXCEPT !.beat = @ + 1], Ids)
    BY <1>1, <1>7, TickGood DEF Tick
  <2> QED
    BY <1>7, <2>1 DEF Tick, EngineInv
<1> QED
  BY <1>2, <1>3, <1>4, <1>5, <1>6, <1>7

LEMMA EngineStep ==
    ASSUME EngineInv, EngineNext
    PROVE  EngineInv'
<1>1. Good(engine, Ids) /\ NoneApart(Ids)
  BY IdsApart DEF EngineInv
<1>2. CASE Start \/ Suspend \/ Resume \/ Stop \/ ResetEngine \/ Dispose \/ TransportStop \/ Tick
  BY <1>2, TransportStepsGood
<1>3. ASSUME NEW c \in Callers, Open(c) PROVE EngineInv'
  BY <1>1, <1>3, OpenedGood DEF Open, EngineInv
<1>4. ASSUME NEW c \in Callers, UnlockResolves(c) PROVE EngineInv'
  BY <1>1, <1>4, UnlockResolvedGood DEF UnlockResolves, EngineInv
<1>5. ASSUME NEW c \in Callers, UnlockRejects(c) PROVE EngineInv'
  BY <1>1, <1>5, UnlockRejectedGood DEF UnlockRejects, EngineInv
<1>6. ASSUME NEW c \in Callers, NEW batch \in Batches, Schedule(c, At(batch)) PROVE EngineInv'
  BY <1>6, ScheduleGood
<1>7. ASSUME NEW c \in Callers, PrepareResolves(c) \/ PrepareRejects(c) \/ CommitFails(c)
      PROVE  EngineInv'
  BY <1>7, PreparerGood
<1>8. ASSUME NEW id \in BatchIds, CancelTransition(id) PROVE EngineInv'
  <2>1. PICK t \in Tracks : engine' = Cancelled(engine, t)
    BY <1>8 DEF CancelTransition, PendingAs
  <2> QED
    BY <1>1, <2>1, OneTrackGood DEF EngineInv
<1>9. ASSUME NEW id \in StopIds, NEW target \in engine.beat .. MaxBeat,
             ScheduleTransportStop(id, target)
      PROVE  EngineInv'
  <2>1. id \in Ids /\ target \in 0 .. MaxBeat
    <3>1. engine.beat \in 0 .. MaxBeat
      BY <1>1 DEF Good, Sound, Engines
    <3> QED
      BY <3>1, EngineAssumption DEF Ids
  <2> QED
    BY <1>1, <1>9, <2>1, StopScheduledGood DEF ScheduleTransportStop, EngineInv
<1>10. ASSUME NEW id \in StopIds, CancelTransportStop(id) PROVE EngineInv'
  <2> DEFINE stop == None
  <2>1. stop \in [id : Ids, target : 0 .. MaxBeat] \cup {None} /\ engine' = [engine EXCEPT !.stop = stop]
    BY <1>10 DEF CancelTransportStop
  <2> HIDE DEF stop
  <2>2. Good([engine EXCEPT !.stop = stop], Ids)
    BY <1>1, <2>1, StopSetGood
  <2> QED
    BY <2>1, <2>2 DEF EngineInv
<1>11. ASSUME NEW t \in Tracks, Boundary(t) PROVE EngineInv'
  BY <1>1, <1>11, OneTrackGood DEF Boundary, EngineInv
<1> QED
  BY <1>2, <1>3, <1>4, <1>5, <1>6, <1>7, <1>8, <1>9, <1>10, <1>11 DEF EngineNext

(***************************************************************************)
(* Every call, answer and callback of the engine leads from a good engine  *)
(* to a good one (createLiveAudioEngine).                                  *)
(***************************************************************************)
THEOREM EngineInvariance == EngineSpec => []EngineInv
<1>1. EngineInit => EngineInv
  BY NewEngineGood DEF EngineInit, EngineInv
<1>2. EngineInv /\ [EngineNext]_engine => EngineInv'
  <2> SUFFICES ASSUME EngineInv, [EngineNext]_engine PROVE EngineInv'
    OBVIOUS
  <2>1. CASE EngineNext
    BY <2>1, EngineStep
  <2>2. CASE UNCHANGED engine
    BY <2>2 DEF EngineInv
  <2> QED
    BY <2>1, <2>2
<1> QED
  BY <1>1, <1>2, PTL DEF EngineSpec

(***************************************************************************)
(* The engine's types; its transport runs in one phase only, and a track   *)
(* that has a source has a bus, whatever is called in whatever order       *)
(* (createLiveAudioEngine).                                                *)
(***************************************************************************)
THEOREM EngineTyped == EngineSpec => []EngineTypeOK
<1>1. EngineInv => EngineTypeOK
  BY DEF EngineInv, Good, Sound, EngineTypeOK
<1> QED
  BY <1>1, EngineInvariance, PTL

(* The beats of one track, and the owners of the materials. *)
LEMMA HandedOver == EngineInv => HandoverExact
<1> SUFFICES ASSUME EngineInv, NEW t \in Tracks, engine.active[t] # None,
                    NEW beat \in engine.beat .. MaxBeat + 1
             PROVE  LET next == engine.pending[t]
                        over == next # None /\ next.request.target <= beat
                    IN  Plays(engine.active[t], beat) = ~over
  BY DEF HandoverExact
<1> DEFINE source == engine.active[t]
           next == engine.pending[t]
<1>1. engine \in Engines(Ids) /\ SourceSound(engine, t)
  BY DEF EngineInv, Good, Sound
<1>2. source \in Sources(Ids) /\ (next # None => next \in Sources(Ids)) /\ engine.beat \in Nat
  BY <1>1 DEF Engines
<1>3. source.request.target \in Nat /\ (next # None => next.request.target \in Nat)
  BY <1>2, SourceIs
<1>4. /\ source.request.target <= engine.beat
      /\ source.cutoff = IF next = None THEN None ELSE next.request.target
  BY <1>1 DEF SourceSound
<1> HIDE DEF source, next
<1>5. beat \in Nat /\ engine.beat <= beat /\ source # None
  BY <1>2, EngineAssumption DEF source
<1>6. CASE next = None
  <2>1. source.cutoff = None /\ source.request.target <= beat
    BY <1>2, <1>3, <1>4, <1>5, <1>6
  <2>2. Plays(source, beat) <=> TRUE
    BY <1>5, <2>1 DEF Plays
  <2> QED
    BY <1>6, <2>2 DEF source, next, Plays
<1>7. CASE next # None
  <2>1. source.cutoff # None /\ source.cutoff = next.request.target
    BY <1>3, <1>4, <1>7, EngineAssumption
  <2>2. (beat < source.cutoff) <=> ~(next.request.target <= beat)
    BY <1>3, <1>5, <1>7, <2>1
  <2>3. source.request.target <= beat
    BY <1>2, <1>3, <1>4, <1>5
  <2>4. Plays(source, beat) <=> ~(next.request.target <= beat)
    BY <1>5, <2>1, <2>2, <2>3 DEF Plays
  <2> QED
    BY <1>7, <2>4 DEF source, next, Plays
<1> QED
  BY <1>6, <1>7

LEMMA OwnedOnce == EngineInv => VoicesOwned
<1> SUFFICES ASSUME EngineInv PROVE VoicesOwned
  OBVIOUS
<1> DEFINE owners == Tracks \cup InFlight(engine)
           Owned(o) == IF o \in Tracks THEN TrackVoices(engine, o)
                                       ELSE HeldVoices(engine.batch[o])
<1>1. KeptOnce(engine)
  BY DEF EngineInv, Good, Sound
<1>2. \A t \in Tracks : Owned(t) = Heard(engine, t) \cup Coming(engine, t)
  BY DEF TrackVoices, Heard, Coming
<1>3. \A c \in InFlight(engine) : c \notin Tracks /\ c \in Callers /\ Owned(c) = Held(engine, c)
  BY EngineAssumption DEF InFlight, Held
<1>4. \A c \in Callers : c \notin InFlight(engine) => Held(engine, c) = {}
  BY DEF InFlight, Held
<1> HIDE DEF Owned
<1>5. engine.voices = UNION {Owned(o) : o \in owners}
  <2>1. ASSUME NEW v PROVE v \in engine.voices <=> \E o \in owners : v \in Owned(o)
    <3>1. v \in engine.voices <=>
              \/ \E t \in Tracks : v \in Heard(engine, t) \cup Coming(engine, t)
              \/ \E c \in Callers : v \in Held(engine, c)
      BY <1>1 DEF KeptOnce
    <3>2. (\E c \in Callers : v \in Held(engine, c)) <=> \E c \in InFlight(engine) : v \in Owned(c)
      BY <1>3, <1>4
    <3>3. (\E t \in Tracks : v \in Heard(engine, t) \cup Coming(engine, t))
              <=> \E t \in Tracks : v \in Owned(t)
      BY <1>2
    <3> QED
      BY <3>1, <3>2, <3>3
  <2> QED
    BY <2>1
<1>6. \A o1, o2 \in owners : o1 # o2 => Owned(o1) \cap Owned(o2) = {}
  <2>1. \A t, u \in Tracks : t # u => Owned(t) \cap Owned(u) = {}
    BY <1>1, <1>2 DEF KeptOnce
  <2>2. \A c, d \in InFlight(engine) : c # d => Owned(c) \cap Owned(d) = {}
    BY <1>1, <1>3 DEF KeptOnce
  <2>3. \A t \in Tracks, c \in InFlight(engine) : Owned(t) \cap Owned(c) = {}
    BY <1>1, <1>2, <1>3 DEF KeptOnce
  <2> QED
    BY <2>1, <2>2, <2>3
<1> QED
  BY <1>5, <1>6 DEF VoicesOwned, Owned

(***************************************************************************)
(* A track sounds once, without a gap but where a stop takes over, and     *)
(* every prepared material has one owner and is released with it, also     *)
(* when a commit fails in the middle, a batch comes late or is outdated by *)
(* a stop, reset or initialize (scheduleTransitions, rollbackSources,      *)
(* cancelTransition, cleanupAll).                                          *)
(***************************************************************************)
THEOREM EngineExact == EngineSpec => []SourcesExact
<1>1. EngineInv => SourcesExact
  BY HandedOver, OwnedOnce DEF SourcesExact
<1> QED
  BY <1>1, EngineInvariance, PTL

-----------------------------------------------------------------------------
(* THE LEASE                                                               *)

(***************************************************************************)
(* Who has the lease is not idle, and whatever is fresh, pending or plays  *)
(* in the engine is its own.                                               *)
(***************************************************************************)
Single(e) == \A c \in InFlight(e) : Len(e.batch[c].requests) = 1

Phased(e, l, p, h) ==
    /\ p[h] \in {"unlocking", "preparing", "playing"} => Usable(e)
    /\ p[h] = "unlocking" <=> e.unlocking[h] = "fresh"
    /\ p[h] = "unlocking" => InFlight(e) = {}
    /\ p[h] = "preparing" => e.unlocked /\ h \in InFlight(e) /\ e.batch[h].fresh
    /\ h \in InFlight(e) /\ e.batch[h].fresh =>
          p[h] = "preparing" \/ (h \in Lives /\ p[h] = "playing" /\ e.running)

Standing(l, p) ==
    /\ l \in Holders \cup {None} /\ p \in [Holders -> Places]
    /\ \A h \in Holders :
          /\ p[h] # "idle" <=> l = h
          /\ p[h] = "closing" => h \in Lives
          /\ p[h] = "preparing" => h \in Players
          /\ p[h] = "unlocking" => h \in Callers

Sounding(e, l, p) ==
    /\ ~e.running => Owning(e) = {} /\ e.stop = None /\ e.beat = 0
    /\ e.running => l \in Callers /\ p[l] = "playing"
    /\ \A h \in Players : p[h] = "playing" => e.running
    /\ e.stop # None => l \in Lives

Owner(e, l, p) ==
    /\ Good(e, Callers) /\ Single(e)
    /\ Standing(l, p) /\ Sounding(e, l, p)
    /\ \A h \in Callers : Phased(e, l, p, h)

LEMMA CallersApart == NoneApart(Callers)
BY HolderAssumption DEF NoneApart

LEMMA HoldersAre ==
    /\ Callers \subseteq Holders /\ Players \subseteq Callers /\ Lives \subseteq Callers
    /\ Players \cap Lives = {} /\ Callers = Players \cup Lives /\ Holders = Callers \cup {Jam}
    /\ Jam \in Holders /\ Jam \notin Callers /\ None \notin Holders
    /\ Preview \in Players /\ Song \in Players /\ Preview # Song
    /\ \A h \in Players : h = Preview \/ h = Song
BY HolderAssumption DEF Holders, Players

(* Nothing sounds, is pending or is asked for any more. *)
AtRest(e) == Good(e, Callers) /\ Single(e) /\ Silent(e)

LEMMA SameJobsSingle ==
    ASSUME NEW e, NEW f, SameJobs(e, f), Single(e)
    PROVE  Single(f) /\ InFlight(f) = InFlight(e)
<1>1. InFlight(f) = InFlight(e)
  BY DEF SameJobs, InFlight
<1> QED
  BY <1>1 DEF SameJobs, InFlight, Single

(* Who waits for nothing and does not play leaves the engine at rest. *)
LEMMA RestsWith ==
    ASSUME NEW e, NEW l, NEW p, Owner(e, l, p), ~e.running,
           \A h \in Callers : p[h] \notin {"unlocking", "preparing"}
    PROVE  AtRest(e)
<1>1. e \in Engines(Callers)
  BY DEF Owner, Good, Sound
<1>2. \A h \in Callers : /\ e.unlocking[h] # "fresh"
                         /\ e.batch[h] # None => ~e.batch[h].fresh
  BY DEF Owner, Phased, InFlight
<1>3. Owning(e) = {} /\ e.stop = None /\ e.beat = 0
  BY DEF Owner, Sounding
<1> QED
  BY <1>2, <1>3 DEF AtRest, Silent, Owner

LEMMA OnlyHolder ==
    ASSUME NEW e, NEW l, NEW p, Owner(e, l, p)
    PROVE  /\ \A h \in Holders : h # l => p[h] = "idle"
           /\ l = None \/ l = Jam => AtRest(e)
           /\ \A h \in Callers : l = h /\ p[h] \in {"acquiring", "closing"} => AtRest(e)
<1>1. \A h \in Holders : h # l => p[h] = "idle"
  BY DEF Owner, Standing
<1>2. ASSUME l = None \/ l = Jam PROVE AtRest(e)
  <2>1. l \notin Callers
    BY <1>2, HoldersAre
  <2>2. ~e.running /\ \A h \in Callers : p[h] \notin {"unlocking", "preparing"}
    BY <1>1, <2>1, HoldersAre DEF Owner, Sounding
  <2> QED
    BY <2>2, RestsWith
<1>3. ASSUME NEW h \in Callers, l = h, p[h] \in {"acquiring", "closing"} PROVE AtRest(e)
  <2>1. ~e.running /\ \A g \in Callers : p[g] \notin {"unlocking", "preparing"}
    BY <1>1, <1>3, HoldersAre DEF Owner, Sounding
  <2> QED
    BY <2>1, RestsWith
<1> QED
  BY <1>1, <1>2, <1>3

(* An engine at rest, of which a holder takes or gives up the lease. *)
LEMMA RestOwned ==
    ASSUME NEW f, AtRest(f), NEW l \in Holders \cup {None}, NEW p, Standing(l, p),
           \A h \in Holders : p[h] \notin {"unlocking", "preparing"},
           \A h \in Callers : p[h] # "playing"
    PROVE  Owner(f, l, p)
<1>1. /\ Good(f, Callers) /\ Single(f) /\ ~f.running /\ Owning(f) = {} /\ f.stop = None
      /\ f.beat = 0
      /\ \A c \in Callers : f.unlocking[c] # "fresh" /\ (f.batch[c] # None => ~f.batch[c].fresh)
  BY DEF AtRest, Silent
<1>2. Sounding(f, l, p)
  BY <1>1, HoldersAre DEF Sounding
<1>3. \A h \in Callers : Phased(f, l, p, h)
  BY <1>1, HoldersAre DEF Phased, InFlight
<1> QED
  BY <1>1, <1>2, <1>3 DEF Owner

LEMMA GaveUp ==
    ASSUME NEW l, NEW p, Standing(l, p), NEW h \in Holders, p[h] # "idle"
    PROVE  /\ l = h
           /\ Standing(None, [p EXCEPT ![h] = "idle"])
           /\ \A g \in Holders : [p EXCEPT ![h] = "idle"][g] = "idle"
BY HoldersAre DEF Standing, Places

(* It moves on, or takes the lease. *)
LEMMA WentTo ==
    ASSUME NEW l, NEW p, Standing(l, p), NEW h \in Holders, l \in {None, h},
           NEW place \in Places \ {"idle"},
           place = "closing" => h \in Lives, place = "preparing" => h \in Players,
           place = "unlocking" => h \in Callers
    PROVE  /\ Standing(h, [p EXCEPT ![h] = place])
           /\ [p EXCEPT ![h] = place][h] = place
           /\ \A g \in Holders : g # h => [p EXCEPT ![h] = place][g] = "idle"
<1> DEFINE q == [p EXCEPT ![h] = place]
<1>1. /\ p \in [Holders -> Places] /\ \A g \in Holders : g # h => p[g] = "idle"
  BY HoldersAre DEF Standing
<1>2. q \in [Holders -> Places] /\ q[h] = place /\ \A g \in Holders : g # h => q[g] = "idle"
  BY <1>1
<1> HIDE DEF q
<1>3. Standing(h, q)
  BY <1>2 DEF Standing
<1> QED
  BY <1>2, <1>3 DEF q

(***************************************************************************)
(* However a holder ends, the engine is at rest.                           *)
(***************************************************************************)
LEMMA StoppedRests ==
    ASSUME NEW e, Good(e, Callers), Single(e)
    PROVE  AtRest(Stopped(e)) /\ Stopped(e).phase = "stopped"
<1>1. Good(Stopped(e), Callers) /\ Hushed(e, Stopped(e)) /\ Stopped(e).phase = "stopped"
  BY CallersApart, StoppedGood
<1> QED
  BY <1>1, SameJobsSingle DEF Hushed, AtRest

LEMMA SilencedRests ==
    ASSUME NEW e, Good(e, Callers), Single(e), Usable(e) \/ Silent(e)
    PROVE  AtRest(Silenced(e))
BY StoppedRests DEF Silenced, AtRest

LEMMA EmergencyRests ==
    ASSUME NEW e, Good(e, Callers), Single(e),
           e.phase \in {"initialized", "blocked", "ready"} \/ Silent(e)
    PROVE  AtRest(EmergencyStop(e))
BY StoppedRests DEF EmergencyStop, AtRest

LEMMA GaveBack ==
    ASSUME Owner(engine, lease, pc), NEW h \in Holders, pc[h] # "idle",
           NEW e, Good(e, Callers), Single(e), Usable(e) \/ Silent(e), GiveBack(h, e)
    PROVE  Owner(engine', lease', pc')
<1>1. AtRest(engine')
  BY SilencedRests DEF GiveBack
<1>2. /\ lease = h /\ Standing(None, [pc EXCEPT ![h] = "idle"])
      /\ \A g \in Holders : [pc EXCEPT ![h] = "idle"][g] = "idle"
  BY GaveUp DEF Owner
<1>3. lease' = None /\ pc' = [pc EXCEPT ![h] = "idle"]
  BY <1>2 DEF GiveBack, Release, Goto
<1>4. Standing(lease', pc') /\ lease' \in Holders \cup {None} /\ \A g \in Holders : pc'[g] = "idle"
  BY <1>2, <1>3
<1> QED
  BY <1>1, <1>4, HoldersAre, RestOwned

LEMMA DisposedOf ==
    ASSUME Owner(engine, lease, pc), NEW l \in Lives, pc[l] # "idle",
           NEW e, Good(e, Callers), Single(e),
           e.phase \in {"initialized", "blocked", "ready"} \/ Silent(e), Disposes(l, e)
    PROVE  Owner(engine', lease', pc')
<1>1. AtRest(engine')
  BY EmergencyRests DEF Disposes
<1>2. /\ lease = l /\ Standing(None, [pc EXCEPT ![l] = "idle"])
      /\ \A g \in Holders : [pc EXCEPT ![l] = "idle"][g] = "idle"
  BY GaveUp, HoldersAre DEF Owner
<1>3. lease' = None /\ pc' = [pc EXCEPT ![l] = "idle"]
  BY <1>2 DEF Disposes, Release, Goto
<1>4. Standing(lease', pc') /\ lease' \in Holders \cup {None} /\ \A g \in Holders : pc'[g] = "idle"
  BY <1>2, <1>3
<1> QED
  BY <1>1, <1>4, HoldersAre, RestOwned

(* Somebody takes the lease, and the engine is at rest. *)
LEMMA TookLease ==
    ASSUME Owner(engine, lease, pc), NEW h \in Holders, lease \in {None, h}, AtRest(engine'),
           lease' = h, Goto(h, "acquiring")
    PROVE  Owner(engine', lease', pc')
<1> DEFINE q == [pc EXCEPT ![h] = "acquiring"]
<1>1. Standing(h, q) /\ q[h] = "acquiring" /\ \A g \in Holders : g # h => q[g] = "idle"
  BY WentTo DEF Owner, Places
<1>2. pc' = q
  BY DEF Goto
<1> HIDE DEF q
<1> QED
  BY <1>1, <1>2, HoldersAre, RestOwned

(***************************************************************************)
(* A batch of one launch.                                                  *)
(***************************************************************************)
LEMMA LaunchBegun ==
    ASSUME NEW e \in Engines(Callers), NEW c \in Callers,
           NEW requests \in Seq(Requests(Callers)), Len(requests) = 1, requests[1].kind = "launch"
    PROVE  ~Prepared(BatchBegun(e, c, requests), c)
<1> DEFINE w == WithStops(requests, << >>)
           f == BatchBegun(e, c, requests)
<1>1. << >> \in Seq(Voices \cup {None}) /\ Len(<< >>) <= Len(requests) /\ DOMAIN << >> = {}
  OBVIOUS
<1>2. /\ w \in Seq(Voices \cup {None}) /\ Len(w) <= Len(requests)
      /\ \A i \in DOMAIN w : i \notin DOMAIN << >> => requests[i].kind # "launch"
  BY <1>1, WithStopsIs
<1>3. f.batch[c].requests = requests /\ f.batch[c].held = w
  BY DEF BatchBegun, Preparing, Engines
<1> HIDE DEF w, f
<1>4. Len(w) # 1
  BY <1>1, <1>2
<1> QED
  BY <1>3, <1>4 DEF Prepared, f

LEMMA LaunchPrepared ==
    ASSUME NEW e, Good(e, Callers), NEW c \in InFlight(e), Len(e.batch[c].requests) = 1,
           Voices # e.voices
    PROVE  Prepared(MaterialPrepared(e, c, FreshVoice(e)), c)
<1> DEFINE v == FreshVoice(e)
           f == MaterialPrepared(e, c, v)
           b == e.batch[c]
           held == Append(b.held, v)
           w == WithStops(b.requests, held)
<1>1. Sound(e, Callers) /\ Waits(b)
  BY DEF Good, AllWait
<1>2. e \in Engines(Callers) /\ c \in Callers /\ b \in Jobs(Callers)
  BY <1>1 DEF Sound, InFlight, Engines
<1>3. v \in Voices
  BY <1>2 DEF FreshVoice, Engines
<1>4. b.requests \in Seq(Requests(Callers)) /\ b.held \in Seq(Voices \cup {None})
  BY <1>2, JobIs
<1> HIDE DEF v
<1>5. held \in Seq(Voices \cup {None}) /\ Len(held) = Len(b.held) + 1 /\ Len(held) <= Len(b.requests)
  BY <1>1, <1>3, <1>4 DEF Waits
<1>6. f.batch[c].requests = b.requests /\ f.batch[c].held = w
  BY <1>2 DEF MaterialPrepared, Preparing, Engines
<1> HIDE DEF held, f, b
<1>7. w \in Seq(Voices \cup {None}) /\ Len(held) <= Len(w) /\ Len(w) <= Len(b.requests)
  BY <1>4, <1>5, WithStopsIs
<1> HIDE DEF w
<1>8. Len(b.requests) = 1
  BY DEF b
<1>9. Len(w) = 1
  BY <1>4, <1>5, <1>7, <1>8
<1> QED
  BY <1>6, <1>8, <1>9 DEF Prepared, f, v

(* The one request of a player, or of a launcher. *)
LEMMA LaunchIs ==
    ASSUME NEW h \in Callers, NEW t \in Tracks, NEW target \in 0 .. MaxBeat
    PROVE  LET requests == << Launch(h, t, target) >>
           IN  /\ requests \in Seq(Requests(Callers)) /\ Len(requests) = 1
               /\ requests[1].kind = "launch"
BY DEF Launch, Requests

LEMMA ArrangementIs ==
    ASSUME NEW h \in Callers
    PROVE  /\ Arrangement(h) \in Seq(Requests(Callers)) /\ Len(Arrangement(h)) = 1
           /\ Arrangement(h)[1].kind = "launch"
<1> DEFINE t == CHOOSE u \in Tracks : TRUE
<1>1. t \in Tracks
  BY HolderAssumption
<1>2. 0 \in 0 .. MaxBeat
  BY EngineAssumption
<1>3. Arrangement(h) = << Launch(h, t, 0) >>
  BY DEF Arrangement
<1> HIDE DEF t
<1> QED
  BY <1>1, <1>2, <1>3, LaunchIs

LEMMA WorkedSingle ==
    ASSUME NEW e, NEW f, NEW c \in Callers, Single(e), Worked(e, f, c, Callers),
           f.batch[c] = None \/ Len(f.batch[c].requests) = 1
    PROVE  Single(f)
BY DEF Single, Worked, InFlight

(***************************************************************************)
(* A player asks for its material.                                         *)
(***************************************************************************)
LEMMA PreparationOwned ==
    ASSUME Owner(engine, lease, pc), NEW h \in Players, lease = h,
           NEW x, AtRest(x), Usable(x), x.unlocked, InFlight(x) = {}, Preparation(h, x)
    PROVE  Owner(engine', lease', pc')
<1> DEFINE requests == Arrangement(h)
           f == BatchBegun(x, h, requests)
           q == [pc EXCEPT ![h] = "preparing"]
<1>1. h \in Callers /\ h \in Holders
  BY HoldersAre
<1>2. /\ Good(x, Callers) /\ Sound(x, Callers) /\ x \in Engines(Callers) /\ Owning(x) = {}
      /\ ~x.running /\ x.beat = 0 /\ x.stop = None
      /\ \A c \in Callers : x.unlocking[c] # "fresh" /\ x.batch[c] = None
  BY DEF AtRest, Good, Sound, Silent, InFlight
<1>3. requests \in Seq(Requests(Callers)) /\ Len(requests) = 1 /\ requests[1].kind = "launch"
  BY <1>1, ArrangementIs
<1> HIDE DEF requests
<1>4. Placeable(x, h, requests)
  <2>1. \A i \in DOMAIN requests : requests[i].track \in Tracks /\ i = 1
    <3> TAKE i \in DOMAIN requests
    <3>1. i = 1 /\ requests[i] \in Requests(Callers)
      BY <1>3
    <3> QED
      BY <3>1 DEF Requests
  <2>2. \A t \in Tracks : x.pending[t] = None
    BY <1>2 DEF Owning
  <2> QED
    BY <2>1, <2>2 DEF Placeable, OwnTracks
<1>5. Underway(x, f, h, Callers, requests) /\ f.batch[h].fresh
  <2>1. x.batch[h] = None
    BY <1>1, <1>2
  <2> QED
    BY <1>1, <1>2, <1>3, <1>4, <2>1, CallersApart, BatchBegunSound DEF Underway
<1>6. ~Prepared(f, h)
  BY <1>1, <1>2, <1>3, LaunchBegun
<1> HIDE DEF f
<1>7. Worked(x, f, h, Callers) /\ h \in InFlight(f) /\ f.batch[h].requests = requests
  BY <1>1, <1>2, <1>5, <1>6, CallersApart, UnderwaySettles
<1>8. /\ Good(f, Callers) /\ Elsewhere(x, f) /\ \A d \in Callers : d # h => f.batch[d] = None
  BY <1>2, <1>7 DEF Worked
<1>9. f.active = x.active /\ f.pending = x.pending
  BY <1>5 DEF Underway
<1>10. Single(f)
  BY <1>3, <1>7, <1>8 DEF Single, InFlight
<1>11. Standing(h, q) /\ q[h] = "preparing" /\ \A g \in Holders : g # h => q[g] = "idle"
  BY <1>1, WentTo DEF Owner, Places
<1> HIDE DEF q
<1>12. Sounding(f, h, q)
  <2>1. Owning(f) = Owning(x)
    BY <1>9 DEF Owning
  <2> QED
    BY <1>2, <1>8, <1>11, <2>1, HoldersAre DEF Sounding, Elsewhere
<1>13. \A g \in Callers : Phased(f, h, q, g)
  <2> TAKE g \in Callers
  <2>1. CASE g = h
    BY <1>2, <1>5, <1>7, <1>8, <1>11, <2>1 DEF Phased, Elsewhere, Usable
  <2>2. CASE g # h
    BY <1>2, <1>8, <1>11, <2>2, HoldersAre DEF Phased, Elsewhere, InFlight
  <2> QED
    BY <2>1, <2>2
<1>14. engine' = f /\ pc' = q /\ lease' = h
  BY DEF Preparation, Goto, f, q, requests
<1> QED
  BY <1>8, <1>10, <1>11, <1>12, <1>13, <1>14 DEF Owner

(* It waits for the browser to unlock the audio. *)
LEMMA UnlockingOwned ==
    ASSUME Owner(engine, lease, pc), NEW h \in Callers, lease = h,
           NEW x, AtRest(x), Usable(x), ~x.unlocked, InFlight(x) = {},
           engine' = [x EXCEPT !.unlocking[h] = "fresh"], Goto(h, "unlocking"), lease' = lease
    PROVE  Owner(engine', lease', pc')
<1> DEFINE f == [x EXCEPT !.unlocking[h] = "fresh"]
           q == [pc EXCEPT ![h] = "unlocking"]
<1>1. h \in Holders
  BY HoldersAre
<1>2. /\ Good(x, Callers) /\ Owning(x) = {} /\ Single(x)
      /\ ~x.running /\ x.beat = 0 /\ x.stop = None
      /\ \A c \in Callers : x.unlocking[c] # "fresh" /\ x.batch[c] = None
  BY DEF AtRest, Silent, InFlight
<1>3. /\ Good(f, Callers) /\ f.unlocking[h] = "fresh"
      /\ \A d \in Callers : d # h => f.unlocking[d] = x.unlocking[d]
      /\ f.phase = x.phase /\ f.running = x.running /\ f.unlocked = x.unlocked
      /\ f.beat = x.beat /\ f.stop = x.stop
      /\ f.active = x.active /\ f.pending = x.pending /\ f.batch = x.batch
  BY <1>2, UnlockBegun
<1> HIDE DEF f
<1>4. Standing(h, q) /\ q[h] = "unlocking" /\ \A g \in Holders : g # h => q[g] = "idle"
  BY <1>1, WentTo DEF Owner, Places
<1> HIDE DEF q
<1>5. InFlight(f) = {} /\ Single(f)
  BY <1>2, <1>3 DEF Single, InFlight
<1>6. Sounding(f, h, q)
  <2>1. Owning(f) = Owning(x)
    BY <1>3 DEF Owning
  <2> QED
    BY <1>2, <1>3, <1>4, <2>1, HoldersAre DEF Sounding
<1>7. \A g \in Callers : Phased(f, h, q, g)
  <2> TAKE g \in Callers
  <2>1. CASE g = h
    BY <1>2, <1>3, <1>4, <1>5, <2>1 DEF Phased, Usable
  <2>2. CASE g # h
    BY <1>2, <1>3, <1>4, <1>5, <2>2, HoldersAre DEF Phased
  <2> QED
    BY <2>1, <2>2
<1>8. engine' = f /\ pc' = q /\ lease' = h
  BY DEF Goto, f, q
<1> QED
  BY <1>3, <1>4, <1>5, <1>6, <1>7, <1>8 DEF Owner

(* The transport runs for it from now on. *)
LEMMA RunsOwned ==
    ASSUME Owner(engine, lease, pc), NEW h \in Callers, lease = h,
           NEW x, Good(x, Callers), Single(x), x.unlocked, x.beat = 0, x.stop = None,
           \A c \in Callers : x.unlocking[c] # "fresh",
           \A c \in InFlight(x) : ~x.batch[c].fresh,
           engine' = Started(x, 0), Goto(h, "playing"), lease' = lease
    PROVE  Owner(engine', lease', pc')
<1> DEFINE f == Started(x, 0)
           q == [pc EXCEPT ![h] = "playing"]
<1>1. h \in Holders
  BY HoldersAre
<1>2. Moved(x, f, Callers) /\ f.phase = "running" /\ f.running
  <2>1. 0 \in 0 .. MaxBeat /\ x.beat <= 0
    BY EngineAssumption
  <2> QED
    BY <2>1, StartedGood
<1> HIDE DEF f
<1>3. Standing(h, q) /\ q[h] = "playing" /\ \A g \in Holders : g # h => q[g] = "idle"
  BY <1>1, WentTo DEF Owner, Places
<1> HIDE DEF q
<1>4. Single(f)
  BY <1>2 DEF Single, InFlight, Moved
<1>5. Sounding(f, h, q)
  BY <1>2, <1>3, HoldersAre DEF Sounding, Moved
<1>6. \A g \in Callers : Phased(f, h, q, g)
  <2> TAKE g \in Callers
  <2>1. /\ f.unlocking[g] # "fresh" /\ ~(g \in InFlight(f) /\ f.batch[g].fresh)
    BY <1>2 DEF Moved, InFlight
  <2>2. q[g] \in {"playing", "idle"}
    BY <1>3, HoldersAre
  <2> QED
    BY <1>2, <2>1, <2>2 DEF Phased, Usable
<1>7. engine' = f /\ pc' = q /\ lease' = h
  BY DEF Goto, f, q
<1> QED
  BY <1>2, <1>3, <1>4, <1>5, <1>6, <1>7 DEF Owner, Moved

(***************************************************************************)
(* While the transport runs, only batches of the launcher that plays are   *)
(* fresh; and a batch or an unlock that is outdated may end at any time.   *)
(***************************************************************************)
LEMMA RunningKept ==
    ASSUME NEW e, NEW l, NEW p, Owner(e, l, p), e.running,
           NEW f, Good(f, Callers), Single(f), f.running, f.unlocking = e.unlocking,
           l \in Lives \/ f.stop = e.stop,
           \A g \in InFlight(f) : f.batch[g].fresh => g \in Lives /\ p[g] = "playing"
    PROVE  Owner(f, l, p)
<1>1. /\ Standing(l, p) /\ l \in Callers /\ p[l] = "playing"
      /\ \A h \in Players : p[h] = "playing" => e.running
      /\ e.stop # None => l \in Lives
  BY DEF Owner, Sounding
<1>2. \A g \in Callers : p[g] \in {"idle", "playing"}
  BY <1>1, HoldersAre DEF Standing
<1>3. Usable(f)
  BY DEF Good, Sound, Usable
<1>4. Sounding(f, l, p)
  BY <1>1 DEF Sounding
<1>5. \A g \in Callers : Phased(f, l, p, g)
  <2> TAKE g \in Callers
  <2>1. Phased(e, l, p, g)
    BY DEF Owner
  <2> QED
    BY <1>2, <1>3, <2>1 DEF Phased
<1> QED
  BY <1>1, <1>4, <1>5 DEF Owner

LEMMA OutdatedKept ==
    ASSUME NEW e, NEW l, NEW p, Owner(e, l, p), NEW f, Good(f, Callers),
           f.running = e.running, f.phase = e.phase, f.beat = e.beat, f.stop = e.stop,
           f.unlocked = e.unlocked, f.active = e.active, f.pending = e.pending,
           \A g \in Callers : f.unlocking[g] = "fresh" <=> e.unlocking[g] = "fresh",
           \A g \in Callers : f.batch[g] = e.batch[g] \/ (f.batch[g] = None /\ g \in Lives)
    PROVE  Owner(f, l, p)
<1>1. Standing(l, p) /\ Single(e) /\ Sounding(e, l, p)
  BY DEF Owner
<1>2. \A g \in InFlight(f) : g \in InFlight(e) /\ f.batch[g] = e.batch[g]
  BY DEF InFlight
<1>3. Single(f)
  BY <1>1, <1>2 DEF Single
<1>4. Sounding(f, l, p)
  <2>1. Owning(f) = Owning(e)
    BY DEF Owning
  <2> QED
    BY <1>1, <2>1 DEF Sounding
<1>5. \A g \in Callers : Phased(f, l, p, g)
  <2> TAKE g \in Callers
  <2>1. Phased(e, l, p, g)
    BY DEF Owner
  <2>2. Usable(f) <=> Usable(e)
    BY DEF Usable
  <2>3. InFlight(e) = {} => InFlight(f) = {}
    BY <1>2
  <2>4. p[g] = "preparing" => g \notin Lives
    BY <1>1, HoldersAre DEF Standing
  <2>5. p[g] = "preparing" => f.unlocked /\ g \in InFlight(f) /\ f.batch[g].fresh
    BY <2>1, <2>4 DEF Phased, InFlight
  <2> QED
    BY <1>2, <2>1, <2>2, <2>3, <2>5 DEF Phased
<1> QED
  BY <1>1, <1>3, <1>4, <1>5 DEF Owner

LEMMA DropKept ==
    ASSUME NEW e, NEW l, NEW p, Owner(e, l, p), NEW c \in InFlight(e), c \in Lives
    PROVE  Owner(BatchDropped(e, c), l, p)
<1> DEFINE f == BatchDropped(e, c)
<1>1. Good(e, Callers) /\ Sound(e, Callers) /\ Unlocking(e) /\ OthersWait(e, c)
  BY DEF Owner, Good, AllWait, OthersWait
<1>2. /\ Worked(e, f, c, Callers) /\ f.batch[c] = None
      /\ f.active = e.active /\ f.pending = e.pending
  BY <1>1, CallersApart, BatchSettles
<1> HIDE DEF f
<1>3. Owner(f, l, p)
  BY <1>2, OutdatedKept DEF Worked, Elsewhere
<1> QED
  BY <1>3 DEF f

LEMMA AnswerKept ==
    ASSUME NEW e, NEW l, NEW p, Owner(e, l, p), NEW c \in Callers, e.unlocking[c] # "fresh"
    PROVE  Owner(UnlockResolved(e, c), l, p) /\ Owner(UnlockRejected(e, c), l, p)
<1> DEFINE f == UnlockResolved(e, c)
           g == UnlockRejected(e, c)
<1>1. Good(e, Callers)
  BY DEF Owner
<1>2. /\ Good(f, Callers) /\ f.active = e.active /\ f.pending = e.pending /\ f.batch = e.batch
      /\ f.unlocking[c] = "no" /\ (\A d \in Callers : d # c => f.unlocking[d] = e.unlocking[d])
      /\ f.running = e.running /\ f.stop = e.stop /\ f.beat = e.beat
      /\ f.unlocked = e.unlocked /\ f.phase = e.phase
  BY <1>1, UnlockResolvedGood
<1>3. /\ Good(g, Callers) /\ g.active = e.active /\ g.pending = e.pending /\ g.batch = e.batch
      /\ g.unlocking[c] = "no" /\ (\A d \in Callers : d # c => g.unlocking[d] = e.unlocking[d])
      /\ g.running = e.running /\ g.stop = e.stop /\ g.beat = e.beat
      /\ g.unlocked = e.unlocked /\ g.phase = e.phase
  BY <1>1, UnlockRejectedGood
<1> HIDE DEF f, g
<1>4. Owner(f, l, p)
  <2>1. \A d \in Callers : f.unlocking[d] = "fresh" <=> e.unlocking[d] = "fresh"
    BY <1>2
  <2> QED
    BY <1>2, <2>1, OutdatedKept
<1>5. Owner(g, l, p)
  <2>1. \A d \in Callers : g.unlocking[d] = "fresh" <=> e.unlocking[d] = "fresh"
    BY <1>3
  <2> QED
    BY <1>3, <2>1, OutdatedKept
<1> QED
  BY <1>4, <1>5 DEF f, g

(***************************************************************************)
(* The callbacks of the transport.                                         *)
(***************************************************************************)
LEMMA CallbackOwned ==
    ASSUME Owner(engine, lease, pc), Callback
    PROVE  Owner(engine', lease', pc')
<1>1. Good(engine, Callers) /\ Single(engine) /\ UNCHANGED <<lease, pc>>
  BY DEF Owner, Callback
<1>2. \A g \in InFlight(engine) : engine.running /\ engine.batch[g].fresh => g \in Lives /\ pc[g] = "playing"
  <2> TAKE g \in InFlight(engine)
  <2>1. g \in Callers /\ g \in Holders
    BY HoldersAre DEF InFlight
  <2>2. engine.running => pc[g] # "preparing"
    BY <2>1 DEF Owner, Sounding, Standing
  <2> QED
    BY <2>1, <2>2 DEF Owner, Phased
<1>3. ASSUME NEW t \in Tracks, Due(engine, t), engine' = AtBoundary(engine, t)
      PROVE  Owner(engine', lease', pc')
  <2>1. Good(engine', Callers) /\ Elsewhere(engine, engine') /\ engine'.batch = engine.batch
    BY <1>1, <1>3, CallersApart, OneTrackGood
  <2>2. InFlight(engine') = InFlight(engine)
    BY <2>1 DEF InFlight
  <2>3. engine.running /\ engine'.running /\ engine'.unlocking = engine.unlocking
        /\ engine'.stop = engine.stop
    BY <1>3, <2>1 DEF Due, Elsewhere
  <2>4. Single(engine') /\ \A g \in InFlight(engine') : engine'.batch[g].fresh => g \in Lives /\ pc[g] = "playing"
    BY <1>1, <1>2, <2>1, <2>2, <2>3 DEF Single
  <2> QED
    BY <1>1, <2>1, <2>3, <2>4, RunningKept
<1>4. ASSUME StopDue(engine), engine' = Stopped(engine)
      PROVE  Owner(engine', lease', pc')
  <2>1. AtRest(engine') /\ engine'.phase = "stopped"
    BY <1>1, <1>4, StoppedRests
  <2>2. lease \in Lives /\ pc[lease] = "playing" /\ lease \in Callers /\ Standing(lease, pc)
    BY <1>4 DEF StopDue, Owner, Sounding
  <2>3. \A h \in Holders : h # lease => pc[h] = "idle"
    BY <2>2 DEF Standing
  <2>4. Sounding(engine', lease, pc)
    BY <2>1, <2>2, <2>3, HoldersAre DEF Sounding, AtRest, Silent
  <2>5. \A h \in Callers : Phased(engine', lease, pc, h)
    <3> TAKE h \in Callers
    <3>1. pc[h] \in {"idle", "playing"}
      BY <2>2, <2>3, HoldersAre
    <3> QED
      BY <2>1, <3>1 DEF Phased, AtRest, Silent, Usable, InFlight
  <2> QED
    BY <1>1, <2>1, <2>2, <2>4, <2>5 DEF Owner, AtRest
<1>5. ASSUME Advancing(engine), engine' = [engine EXCEPT !.beat = @ + 1]
      PROVE  Owner(engine', lease', pc')
  <2>1. /\ Good(engine', Callers) /\ engine'.batch = engine.batch
        /\ engine'.unlocking = engine.unlocking /\ engine'.stop = engine.stop
        /\ engine'.running = engine.running
    BY <1>1, <1>5, TickGood
  <2>2. InFlight(engine') = InFlight(engine)
    BY <2>1 DEF InFlight
  <2>3. engine.running /\ engine'.running
    BY <1>5, <2>1 DEF Advancing
  <2>4. Single(engine') /\ \A g \in InFlight(engine') : engine'.batch[g].fresh => g \in Lives /\ pc[g] = "playing"
    BY <1>1, <1>2, <2>1, <2>2, <2>3 DEF Single
  <2> QED
    BY <1>1, <2>1, <2>3, <2>4, RunningKept
<1> QED
  BY <1>3, <1>4, <1>5 DEF Callback

(***************************************************************************)
(* A session that plays schedules its clips and its end.                   *)
(***************************************************************************)
LEMMA LiveSchedulesOwned ==
    ASSUME Owner(engine, lease, pc), NEW l \in Lives, LiveSchedules(l)
    PROVE  Owner(engine', lease', pc')
<1>1. PICK t \in Tracks :
         LET requests == << Launch(l, t, engine.beat + 1) >>
         IN  /\ engine.beat < MaxBeat /\ ~BatchRefused(engine, requests)
             /\ ~AllRetries(engine, requests)
             /\ engine' = BatchBegun(engine, l, requests)
  BY DEF LiveSchedules
<1> DEFINE requests == << Launch(l, t, engine.beat + 1) >>
           f == BatchBegun(engine, l, requests)
<1>2. /\ pc[l] = "playing" /\ engine.running /\ engine.batch[l] = None
      /\ UNCHANGED <<lease, pc>> /\ l \in Callers /\ l \in Holders
  BY HoldersAre DEF LiveSchedules
<1>3. Good(engine, Callers) /\ Single(engine) /\ engine \in Engines(Callers)
  BY DEF Owner, Good, Sound
<1>4. engine.beat + 1 \in 0 .. MaxBeat
  BY <1>1, <1>3, EngineAssumption DEF Engines
<1>5. requests \in Seq(Requests(Callers)) /\ Len(requests) = 1 /\ requests[1].kind = "launch"
  BY <1>2, <1>4, LaunchIs
<1>6. ~BatchRefused(engine, requests) /\ ~AllRetries(engine, requests) /\ engine' = f
  BY <1>1
<1> HIDE DEF requests
<1>7. Underway(engine, f, l, Callers, requests)
  BY <1>2, <1>3, <1>5, <1>6, CallersApart, BegunUnderway
<1>8. ~Prepared(f, l)
  BY <1>2, <1>3, <1>5, LaunchBegun
<1> HIDE DEF f
<1>9. Worked(engine, f, l, Callers) /\ f.batch[l].requests = requests
  BY <1>2, <1>3, <1>7, <1>8, CallersApart, UnderwaySettles
<1>10. Single(f)
  BY <1>2, <1>3, <1>5, <1>9, WorkedSingle
<1>11. \A g \in InFlight(f) : f.batch[g].fresh => g \in Lives /\ pc[g] = "playing"
  <2> TAKE g \in InFlight(f)
  <2>1. CASE g = l
    BY <1>2, <2>1
  <2>2. CASE g # l
    <3>1. g \in Callers /\ g \in InFlight(engine) /\ f.batch[g] = engine.batch[g]
      BY <1>9, <2>2 DEF Worked, InFlight
    <3>2. lease \in Callers /\ pc[lease] = "playing"
      BY <1>2 DEF Owner, Sounding
    <3>3. pc[g] # "preparing"
      BY <1>2, <3>1, HoldersAre DEF Owner, Sounding, Standing
    <3> QED
      BY <3>1, <3>3 DEF Owner, Phased
  <2> QED
    BY <2>1, <2>2
<1>12. Owner(f, lease, pc)
  BY <1>2, <1>9, <1>10, <1>11, RunningKept DEF Worked, Elsewhere
<1> QED
  BY <1>2, <1>6, <1>12

LEMMA LivePreparesOwned ==
    ASSUME Owner(engine, lease, pc), NEW l \in Lives, LivePrepares(l)
    PROVE  Owner(engine', lease', pc')
<1> DEFINE e == MaterialPrepared(engine, l, FreshVoice(engine))
           f == Committed(e, l)
           requests == engine.batch[l].requests
<1>1. /\ l \in InFlight(engine) /\ UNCHANGED <<lease, pc>> /\ l \in Callers /\ l \in Holders
      /\ engine' = IF Voices # engine.voices /\ Committable(e, l) THEN f ELSE BatchDropped(engine, l)
  BY HoldersAre DEF LivePrepares
<1>2. Good(engine, Callers) /\ Single(engine) /\ Len(requests) = 1
  BY <1>1 DEF Owner, Single
<1>3. ASSUME Voices # engine.voices, Committable(e, l) PROVE Owner(f, lease, pc)
  <2>1. /\ Underway(engine, e, l, Callers, requests)
        /\ e.batch[l].fresh <=> engine.batch[l].fresh
        /\ Committable(e, l) => InTime(engine, requests)
    BY <1>1, <1>2, <1>3, CallersApart, PreparedUnderway
  <2>2. Prepared(e, l)
    BY <1>1, <1>2, <1>3, LaunchPrepared
  <2>3. engine.batch[l].fresh
    BY <1>3, <2>1 DEF Committable
  <2> HIDE DEF e
  <2>4. Worked(engine, f, l, Callers) /\ f.batch[l] = None
    BY <1>1, <1>2, <1>3, <2>1, <2>2, CallersApart, UnderwaySettles
  <2> HIDE DEF f
  <2>5. Single(f)
    BY <1>1, <1>2, <2>4, WorkedSingle
  <2>6. /\ pc[l] = "playing" /\ engine.running
    BY <1>1, <2>3, HoldersAre DEF Owner, Standing, Phased
  <2>7. \A g \in InFlight(f) : f.batch[g].fresh => g \in Lives /\ pc[g] = "playing"
    <3> TAKE g \in InFlight(f)
    <3>1. g \in Callers /\ g \in InFlight(engine) /\ f.batch[g] = engine.batch[g]
      BY <2>4 DEF Worked, InFlight
    <3>2. pc[g] # "preparing"
      BY <2>6, <3>1, HoldersAre DEF Owner, Sounding, Standing
    <3> QED
      BY <3>1, <3>2 DEF Owner, Phased
  <2> QED
    BY <2>4, <2>5, <2>6, <2>7, RunningKept DEF Worked, Elsewhere
<1>4. Owner(BatchDropped(engine, l), lease, pc)
  BY <1>1, DropKept
<1> QED
  BY <1>1, <1>3, <1>4

LEMMA LiveStopsOwned ==
    ASSUME Owner(engine, lease, pc), NEW l \in Lives, LiveStopsAtBeat(l)
    PROVE  Owner(engine', lease', pc')
<1> DEFINE target == engine.beat + 1
           f == StopScheduled(engine, l, target)
<1>1. /\ pc[l] = "playing" /\ engine.running /\ engine.beat < MaxBeat /\ engine' = f
      /\ UNCHANGED <<lease, pc>> /\ l \in Callers /\ l \in Holders
  BY HoldersAre DEF LiveStopsAtBeat
<1>2. Good(engine, Callers) /\ Single(engine) /\ engine \in Engines(Callers)
  BY DEF Owner, Good, Sound
<1>3. target \in 0 .. MaxBeat
  BY <1>1, <1>2, EngineAssumption DEF Engines
<1> HIDE DEF target
<1>4. /\ Good(f, Callers) /\ f.batch = engine.batch /\ f.unlocking = engine.unlocking
      /\ f.running = engine.running
  <2>1. Good(engine, Callers) /\ l \in Callers
    BY <1>1, <1>2
  <2> QED
    BY ONLY <2>1, <1>3, StopScheduledGood
<1> HIDE DEF f
<1>5. InFlight(f) = InFlight(engine) /\ Single(f)
  BY <1>2, <1>4 DEF InFlight, Single
<1>6. lease = l
  BY <1>1 DEF Owner, Standing
<1>7. \A g \in InFlight(f) : f.batch[g].fresh => g \in Lives /\ pc[g] = "playing"
  <2> TAKE g \in InFlight(f)
  <2>1. g \in Callers /\ g \in Holders
    BY HoldersAre DEF InFlight
  <2>2. pc[g] # "preparing"
    BY <1>1, <1>6, <2>1 DEF Owner, Standing
  <2> QED
    BY <1>4, <1>5, <2>1, <2>2 DEF Owner, Phased
<1> QED
  BY <1>1, <1>4, <1>5, <1>6, <1>7, RunningKept

(***************************************************************************)
(* The awaits of a player.                                                 *)
(***************************************************************************)
LEMMA InitializedRests ==
    ASSUME NEW e, AtRest(e), Initializable(e)
    PROVE  /\ AtRest(Initialized(e)) /\ Usable(Initialized(e)) /\ InFlight(Initialized(e)) = {}
           /\ Initialized(e).unlocked = e.unlocked
           /\ Initialized(e).phase \in {"ready", "initialized"}
           /\ AtRest(Reset(Initialized(e))) /\ Usable(Reset(Initialized(e)))
           /\ InFlight(Reset(Initialized(e))) = {}
           /\ Reset(Initialized(e)).unlocked = e.unlocked
<1> DEFINE f == Initialized(e)
           x == Reset(f)
<1>1. Good(e, Callers) /\ e.beat = 0
  BY DEF AtRest, Silent
<1>2. /\ Good(f, Callers) /\ f.phase = Restored(e) /\ f.unlocked = e.unlocked /\ ~f.running
      /\ InFlight(f) = {} /\ Owning(f) = {} /\ f.stop = None /\ f.beat = e.beat
      /\ \A c \in Callers : f.unlocking[c] # "fresh"
  BY <1>1, CallersApart, InitializedGood
<1> HIDE DEF f
<1>3. Single(f) /\ Silent(f)
  BY <1>1, <1>2 DEF Single, Silent, InFlight
<1>4. Good(x, Callers) /\ Hushed(f, x) /\ x.phase = Restored(f)
  BY <1>2, CallersApart, ResetGood
<1> HIDE DEF x
<1>5. Single(x) /\ InFlight(x) = {}
  BY <1>2, <1>3, <1>4, SameJobsSingle DEF Hushed
<1>6. AtRest(f) /\ AtRest(x) /\ x.unlocked = e.unlocked
  BY <1>2, <1>3, <1>4, <1>5 DEF AtRest, Hushed
<1>7. f.phase \in {"ready", "initialized"} /\ x.phase \in {"ready", "initialized"}
  BY <1>2, <1>4 DEF Restored
<1>8. Usable(f) /\ Usable(x)
  BY <1>7 DEF Usable
<1> QED
  BY <1>2, <1>5, <1>6, <1>7, <1>8 DEF f, x

LEMMA OpensOwned ==
    ASSUME Owner(engine, lease, pc), NEW h \in Players, pc[h] = "acquiring", Opens(h)
    PROVE  Owner(engine', lease', pc')
<1> DEFINE x == Reset(Initialized(engine))
<1>1. h \in Callers /\ h \in Holders /\ lease = h /\ AtRest(engine)
  BY HoldersAre, OnlyHolder DEF Owner, Standing
<1>2. Good(engine, Callers) /\ Single(engine) /\ Silent(engine)
  BY <1>1 DEF AtRest
<1>3. CASE ~Initializable(engine)
  <2>1. GiveBack(h, engine)
    BY <1>3 DEF Opens
  <2> QED
    BY <1>1, <1>2, <2>1, GaveBack
<1>4. CASE Initializable(engine)
  <2>1. AtRest(x) /\ Usable(x) /\ InFlight(x) = {}
    BY <1>1, <1>4, InitializedRests
  <2>2. \/ x.unlocked /\ Preparation(h, x)
        \/ /\ ~x.unlocked /\ engine' = [x EXCEPT !.unlocking[h] = "fresh"]
           /\ Goto(h, "unlocking") /\ lease' = lease
    BY <1>4 DEF Opens
  <2> HIDE DEF x
  <2>3. ASSUME x.unlocked, Preparation(h, x) PROVE Owner(engine', lease', pc')
    BY <1>1, <2>1, <2>3, PreparationOwned
  <2>4. ASSUME ~x.unlocked, engine' = [x EXCEPT !.unlocking[h] = "fresh"],
               Goto(h, "unlocking"), lease' = lease
        PROVE  Owner(engine', lease', pc')
    BY <1>1, <2>1, <2>4, UnlockingOwned
  <2> QED
    BY <2>2, <2>3, <2>4
<1> QED
  BY <1>3, <1>4

(* The engine it waits for, and what the browser's answers make of it. *)
LEMMA AnswerRests ==
    ASSUME NEW e, NEW l, NEW p, Owner(e, l, p), NEW h \in Callers, p[h] = "unlocking"
    PROVE  /\ AtRest(UnlockResolved(e, h)) /\ UnlockResolved(e, h).unlocked
           /\ UnlockResolved(e, h).phase = "ready" /\ InFlight(UnlockResolved(e, h)) = {}
           /\ AtRest(UnlockRejected(e, h)) /\ UnlockRejected(e, h).phase = "blocked"
<1> DEFINE f == UnlockResolved(e, h)
           g == UnlockRejected(e, h)
<1>1. /\ Good(e, Callers) /\ Unlocking(e) /\ h \in Holders /\ l = h
      /\ e.unlocking[h] = "fresh" /\ InFlight(e) = {}
  BY HoldersAre DEF Owner, Good, Standing, Phased
<1>2. ~e.running /\ Owning(e) = {} /\ e.stop = None /\ e.beat = 0
  BY <1>1 DEF Owner, Sounding
<1>3. /\ Good(f, Callers) /\ f.active = e.active /\ f.pending = e.pending /\ f.batch = e.batch
      /\ f.unlocking[h] = "no" /\ (\A d \in Callers : d # h => f.unlocking[d] = e.unlocking[d])
      /\ f.running = e.running /\ f.stop = e.stop /\ f.beat = e.beat
      /\ f.unlocked /\ f.phase = "ready"
  BY <1>1, UnlockResolvedGood
<1>4. /\ Good(g, Callers) /\ g.active = e.active /\ g.pending = e.pending /\ g.batch = e.batch
      /\ g.unlocking[h] = "no" /\ (\A d \in Callers : d # h => g.unlocking[d] = e.unlocking[d])
      /\ g.running = e.running /\ g.stop = e.stop /\ g.beat = e.beat
      /\ g.phase = "blocked"
  BY <1>1, UnlockRejectedGood
<1> HIDE DEF f, g
<1>5. \A c \in Callers : /\ f.unlocking[c] # "fresh" /\ f.batch[c] = None
                         /\ g.unlocking[c] # "fresh" /\ g.batch[c] = None
  BY <1>1, <1>3, <1>4 DEF Unlocking, InFlight
<1>6. InFlight(f) = {} /\ InFlight(g) = {} /\ Owning(f) = {} /\ Owning(g) = {}
  BY <1>2, <1>3, <1>4, <1>5 DEF InFlight, Owning
<1>7. AtRest(f) /\ AtRest(g)
  BY <1>2, <1>3, <1>4, <1>5, <1>6 DEF AtRest, Silent, Single
<1> QED
  BY <1>3, <1>4, <1>6, <1>7 DEF f, g

LEMMA UnlocksOwned ==
    ASSUME Owner(engine, lease, pc), NEW h \in Players, Unlocks(h)
    PROVE  Owner(engine', lease', pc')
<1> DEFINE f == UnlockResolved(engine, h)
           g == UnlockRejected(engine, h)
<1>1. /\ h \in Callers /\ h \in Holders /\ pc[h] = "unlocking" /\ lease = h
      /\ Preparation(h, f) \/ GiveBack(h, g)
  BY HoldersAre DEF Unlocks, Owner, Standing
<1>2. /\ AtRest(f) /\ f.unlocked /\ f.phase = "ready" /\ InFlight(f) = {}
      /\ AtRest(g)
  BY <1>1, AnswerRests
<1> HIDE DEF f, g
<1>3. ASSUME Preparation(h, f) PROVE Owner(engine', lease', pc')
  BY <1>1, <1>2, <1>3, PreparationOwned DEF Usable
<1>4. ASSUME GiveBack(h, g) PROVE Owner(engine', lease', pc')
  BY <1>1, <1>2, <1>4, GaveBack DEF AtRest
<1> QED
  BY <1>1, <1>3, <1>4

(* The material is there: the launch takes its place on an engine that is  *)
(* unlocked and silent.                                                    *)
LEMMA PlacedGood ==
    ASSUME Owner(engine, lease, pc), NEW h \in Players, Prepares(h)
    PROVE  /\ Good(Placed(h), Callers) /\ Single(Placed(h)) /\ Usable(Placed(h))
           /\ Placed(h).unlocked /\ Placed(h).beat = 0 /\ Placed(h).stop = None
           /\ \A c \in Callers : Placed(h).unlocking[c] # "fresh"
           /\ \A c \in InFlight(Placed(h)) : ~Placed(h).batch[c].fresh
           /\ h \in Callers /\ h \in Holders /\ pc[h] = "preparing" /\ lease = h
<1> DEFINE e == MaterialPrepared(engine, h, FreshVoice(engine))
           f == Committed(e, h)
           requests == engine.batch[h].requests
<1>1. /\ h \in Callers /\ h \in Holders /\ pc[h] = "preparing" /\ Voices # engine.voices
      /\ Committable(e, h)
  BY HoldersAre DEF Prepares
<1>2. /\ lease = h /\ Usable(engine) /\ engine.unlocked /\ h \in InFlight(engine)
      /\ Good(engine, Callers) /\ Single(engine)
  BY <1>1 DEF Owner, Standing, Phased
<1>3. /\ \A g \in Holders : g # h => pc[g] = "idle"
      /\ ~engine.running /\ engine.beat = 0 /\ engine.stop = None
  BY <1>1, <1>2 DEF Owner, Standing, Sounding
<1>4. Len(requests) = 1
  BY <1>2 DEF Single
<1>5. Underway(engine, e, h, Callers, requests) /\ InTime(engine, requests)
  BY <1>1, <1>2, CallersApart, PreparedUnderway
<1>6. Prepared(e, h)
  BY <1>1, <1>2, <1>4, LaunchPrepared
<1> HIDE DEF e
<1>7. Worked(engine, f, h, Callers) /\ f.batch[h] = None
  BY <1>1, <1>2, <1>5, <1>6, CallersApart, UnderwaySettles
<1>8. f = Placed(h)
  BY DEF Placed, e
<1> HIDE DEF f
<1>9. Single(f)
  BY <1>1, <1>2, <1>7, WorkedSingle
<1>10. \A c \in Callers : f.unlocking[c] # "fresh"
  <2> TAKE c \in Callers
  <2>1. pc[c] # "unlocking"
    BY <1>1, <1>3, HoldersAre
  <2> QED
    BY <1>7, <2>1 DEF Owner, Phased, Worked, Elsewhere
<1>11. \A c \in InFlight(f) : ~f.batch[c].fresh
  <2> TAKE c \in InFlight(f)
  <2>1. c \in Callers /\ c # h /\ c \in InFlight(engine) /\ f.batch[c] = engine.batch[c]
    BY <1>7 DEF Worked, InFlight
  <2>2. pc[c] = "idle"
    BY <1>3, <2>1, HoldersAre
  <2> QED
    BY <2>1, <2>2 DEF Owner, Phased
<1>12. Usable(f) /\ f.unlocked /\ f.beat = 0 /\ f.stop = None /\ Good(f, Callers)
  BY <1>2, <1>3, <1>7 DEF Worked, Elsewhere, Usable
<1> QED
  BY <1>1, <1>2, <1>8, <1>9, <1>10, <1>11, <1>12

LEMMA PlacedOwned ==
    ASSUME Owner(engine, lease, pc), NEW h \in Players, Prepares(h),
           Sounds(h) \/ GiveBack(h, Placed(h))
    PROVE  Owner(engine', lease', pc')
<1> DEFINE x == Placed(h)
<1>1. /\ Good(x, Callers) /\ Single(x) /\ Usable(x) /\ x.unlocked /\ x.beat = 0 /\ x.stop = None
      /\ \A c \in Callers : x.unlocking[c] # "fresh"
      /\ \A c \in InFlight(x) : ~x.batch[c].fresh
      /\ h \in Callers /\ h \in Holders /\ pc[h] = "preparing" /\ lease = h
  BY PlacedGood
<1>2. ASSUME Sounds(h) PROVE Owner(engine', lease', pc')
  <2>1. engine' = Started(x, 0) /\ Goto(h, "playing") /\ lease' = lease
    BY <1>2 DEF Sounds
  <2> HIDE DEF x
  <2> QED
    BY <1>1, <2>1, RunsOwned
<1>3. ASSUME GiveBack(h, x) PROVE Owner(engine', lease', pc')
  <2> HIDE DEF x
  <2> QED
    BY <1>1, <1>3, GaveBack
<1> QED
  BY <1>2, <1>3

LEMMA PlayerFailsOwned ==
    ASSUME Owner(engine, lease, pc), NEW h \in Players, PlayerFails(h)
    PROVE  Owner(engine', lease', pc')
<1> DEFINE f == BatchDropped(engine, h)
<1>1. h \in Callers /\ h \in Holders /\ pc[h] = "preparing" /\ GiveBack(h, f)
  BY HoldersAre DEF PlayerFails
<1>2. /\ Good(engine, Callers) /\ Sound(engine, Callers) /\ Unlocking(engine) /\ Single(engine)
      /\ h \in InFlight(engine) /\ OthersWait(engine, h) /\ Usable(engine)
  BY <1>1 DEF Owner, Good, AllWait, OthersWait, Phased
<1>3. Worked(engine, f, h, Callers) /\ f.batch[h] = None
  BY <1>2, CallersApart, BatchSettles
<1> HIDE DEF f
<1>4. Single(f) /\ Usable(f) /\ Good(f, Callers)
  BY <1>1, <1>2, <1>3, WorkedSingle DEF Worked, Elsewhere, Usable
<1> QED
  BY <1>1, <1>4, GaveBack

(***************************************************************************)
(* A launcher's session, from the lease to its end.                        *)
(***************************************************************************)
LEMMA LeaseOf ==
    ASSUME Owner(engine, lease, pc), NEW h \in Holders
    PROVE  /\ pc[h] # "idle" <=> lease = h
           /\ \A g \in Holders : g # lease => pc[g] = "idle"
BY DEF Owner, Standing

LEMMA LiveOpensOwned ==
    ASSUME Owner(engine, lease, pc), NEW l \in Lives, LiveOpens(l)
    PROVE  Owner(engine', lease', pc')
<1> DEFINE x == Initialized(engine)
<1>1. /\ l \in Callers /\ l \in Holders /\ pc[l] = "acquiring" /\ lease = l /\ AtRest(engine)
  BY HoldersAre, OnlyHolder, LeaseOf DEF LiveOpens
<1>2. Good(engine, Callers) /\ Single(engine) /\ Silent(engine)
  BY <1>1 DEF AtRest
<1>3. CASE ~Initializable(engine)
  <2>1. Disposes(l, engine)
    BY <1>3 DEF LiveOpens
  <2> QED
    BY <1>1, <1>2, <2>1, DisposedOf
<1>4. CASE Initializable(engine)
  <2>1. /\ AtRest(x) /\ Usable(x) /\ InFlight(x) = {} /\ x.unlocked = engine.unlocked
    BY <1>1, <1>4, InitializedRests
  <2>2. \/ engine.unlocked /\ LiveRuns(l, x)
        \/ /\ ~engine.unlocked /\ engine' = [x EXCEPT !.unlocking[l] = "fresh"]
           /\ Goto(l, "unlocking") /\ lease' = lease
    BY <1>4 DEF LiveOpens, Opened
  <2> HIDE DEF x
  <2>3. ASSUME engine.unlocked, LiveRuns(l, x) PROVE Owner(engine', lease', pc')
    <3>1. engine' = Started(x, 0) /\ Goto(l, "playing") /\ lease' = lease
      BY <2>3 DEF LiveRuns
    <3>2. /\ Good(x, Callers) /\ Single(x) /\ x.unlocked /\ x.beat = 0 /\ x.stop = None
          /\ \A c \in Callers : x.unlocking[c] # "fresh"
          /\ \A c \in InFlight(x) : ~x.batch[c].fresh
      BY <2>1, <2>3 DEF AtRest, Silent
    <3> QED
      BY <1>1, <3>1, <3>2, RunsOwned
  <2>4. ASSUME ~engine.unlocked, engine' = [x EXCEPT !.unlocking[l] = "fresh"],
               Goto(l, "unlocking"), lease' = lease
        PROVE  Owner(engine', lease', pc')
    <3>1. ~x.unlocked
      BY <2>1, <2>4
    <3> QED
      BY <1>1, <2>1, <2>4, <3>1, UnlockingOwned
  <2> QED
    BY <2>2, <2>3, <2>4
<1> QED
  BY <1>3, <1>4

LEMMA LiveUnlocksOwned ==
    ASSUME Owner(engine, lease, pc), NEW l \in Lives, LiveUnlocks(l)
    PROVE  Owner(engine', lease', pc')
<1> DEFINE x == UnlockResolved(engine, l)
           r == UnlockRejected(engine, l)
<1>1. l \in Callers /\ l \in Holders
  BY HoldersAre
<1>2. IF pc[l] = "unlocking"
      THEN LiveRuns(l, x) \/ Disposes(l, Stopped(x)) \/ Disposes(l, r)
      ELSE engine' \in {x, r} /\ UNCHANGED <<lease, pc>>
  BY DEF LiveUnlocks
<1>3. CASE pc[l] = "unlocking"
  <2>1. /\ AtRest(x) /\ x.unlocked /\ x.phase = "ready" /\ InFlight(x) = {} /\ AtRest(r)
        /\ lease = l
    BY <1>1, <1>3, AnswerRests, LeaseOf
  <2> HIDE DEF x, r
  <2>2. ASSUME LiveRuns(l, x) PROVE Owner(engine', lease', pc')
    <3>1. engine' = Started(x, 0) /\ Goto(l, "playing") /\ lease' = lease
      BY <2>2 DEF LiveRuns
    <3>2. /\ Good(x, Callers) /\ Single(x) /\ x.unlocked /\ x.beat = 0 /\ x.stop = None
          /\ \A c \in Callers : x.unlocking[c] # "fresh"
          /\ \A c \in InFlight(x) : ~x.batch[c].fresh
      BY <2>1 DEF AtRest, Silent
    <3> QED
      BY <1>1, <2>1, <3>1, <3>2, RunsOwned
  <2>3. ASSUME Disposes(l, Stopped(x)) PROVE Owner(engine', lease', pc')
    <3>1. AtRest(Stopped(x))
      BY <2>1, StoppedRests DEF AtRest
    <3> QED
      BY <1>3, <2>3, <3>1, DisposedOf DEF AtRest
  <2>4. ASSUME Disposes(l, r) PROVE Owner(engine', lease', pc')
    BY <1>3, <2>1, <2>4, DisposedOf DEF AtRest
  <2> QED
    BY <1>2, <1>3, <2>2, <2>3, <2>4
<1>4. CASE pc[l] # "unlocking"
  <2>1. engine.unlocking[l] # "fresh"
    BY <1>1, <1>4 DEF Owner, Phased
  <2>2. Owner(x, lease, pc) /\ Owner(r, lease, pc)
    BY <1>1, <2>1, AnswerKept
  <2> HIDE DEF x, r
  <2> QED
    BY <1>2, <1>4, <2>2
<1> QED
  BY <1>3, <1>4

LEMMA LiveLeavesOwned ==
    ASSUME Owner(engine, lease, pc), NEW l \in Lives,
           \/ pc[l] = "closing" /\ Disposes(l, engine)
           \/ LiveCloses(l)
           \/ LiveEnded(l)
    PROVE  Owner(engine', lease', pc')
<1>1. l \in Callers /\ l \in Holders
  BY HoldersAre
<1>2. ASSUME pc[l] = "closing", Disposes(l, engine) PROVE Owner(engine', lease', pc')
  <2>1. AtRest(engine)
    BY <1>1, <1>2, OnlyHolder, LeaseOf
  <2> QED
    BY <1>2, <2>1, DisposedOf DEF AtRest
<1>3. ASSUME pc[l] = "acquiring", Goto(l, "closing"), UNCHANGED <<engine, lease>>
      PROVE  Owner(engine', lease', pc')
  <2> DEFINE q == [pc EXCEPT ![l] = "closing"]
  <2>1. lease = l /\ AtRest(engine)
    BY <1>1, <1>3, OnlyHolder, LeaseOf
  <2>2. Standing(l, q) /\ q[l] = "closing" /\ \A g \in Holders : g # l => q[g] = "idle"
    BY <1>1, <2>1, WentTo DEF Owner, Places
  <2>3. pc' = q
    BY <1>3 DEF Goto
  <2> HIDE DEF q
  <2> QED
    BY <1>1, <1>3, <2>1, <2>2, <2>3, HoldersAre, RestOwned
<1>4. ASSUME pc[l] \in {"unlocking", "playing"}, Disposes(l, Silenced(engine))
      PROVE  Owner(engine', lease', pc')
  <2>1. Usable(engine) /\ Good(engine, Callers) /\ Single(engine)
    BY <1>1, <1>4 DEF Owner, Phased
  <2>2. AtRest(Silenced(engine))
    BY <2>1, SilencedRests
  <2> QED
    BY <1>4, <2>2, DisposedOf DEF AtRest
<1>5. ASSUME pc[l] = "playing", ~engine.running, Disposes(l, engine)
      PROVE  Owner(engine', lease', pc')
  <2>1. \A h \in Callers : pc[h] \notin {"unlocking", "preparing"}
    BY <1>1, <1>5, LeaseOf, HoldersAre
  <2>2. AtRest(engine)
    BY <1>5, <2>1, RestsWith
  <2> QED
    BY <1>5, <2>2, DisposedOf DEF AtRest
<1> QED
  BY <1>2, <1>3, <1>4, <1>5 DEF LiveCloses, LiveEnded

(***************************************************************************)
(* The lease is taken, or the engine does not come.                        *)
(***************************************************************************)
LEMMA AcquireOwned ==
    ASSUME Owner(engine, lease, pc), NEW h \in Holders, Acquire(h), engine' = engine
    PROVE  Owner(engine', lease', pc')
<1>1. AtRest(engine)
  BY OnlyHolder DEF Acquire
<1> QED
  BY <1>1, TookLease DEF Acquire

LEMMA AcquireFailsOwned ==
    ASSUME Owner(engine, lease, pc), NEW h \in Holders, AcquireFails(h)
    PROVE  Owner(engine', lease', pc')
<1>1. /\ pc[h] \in {"acquiring", "closing"} /\ engine' = engine
      /\ lease' = (IF lease = h THEN None ELSE lease) /\ pc' = [pc EXCEPT ![h] = "idle"]
  BY DEF AcquireFails, Release, Goto
<1>2. lease = h /\ AtRest(engine)
  BY <1>1, OnlyHolder, LeaseOf, HoldersAre
<1>3. /\ Standing(None, [pc EXCEPT ![h] = "idle"])
      /\ \A g \in Holders : [pc EXCEPT ![h] = "idle"][g] = "idle"
  <2>1. pc[h] # "idle" /\ Standing(lease, pc)
    BY <1>1 DEF Owner
  <2> QED
    BY <2>1, GaveUp
<1>4. Standing(lease', pc') /\ lease' \in Holders \cup {None} /\ \A g \in Holders : pc'[g] = "idle"
  BY <1>1, <1>2, <1>3
<1> QED
  BY <1>1, <1>2, <1>4, HoldersAre, RestOwned

LEMMA JamOwned ==
    ASSUME Owner(engine, lease, pc), JamAcquired \/ JamEnds
    PROVE  Owner(engine', lease', pc')
<1>1. Jam \in Holders /\ Jam \notin Callers
  BY HoldersAre
<1>2. pc[Jam] # "idle" /\ engine' = engine
  BY DEF JamAcquired, JamEnds
<1>3. lease = Jam /\ AtRest(engine)
  BY <1>1, <1>2, OnlyHolder, LeaseOf
<1>4. ASSUME JamAcquired PROVE Owner(engine', lease', pc')
  <2> DEFINE q == [pc EXCEPT ![Jam] = "playing"]
  <2>1. Standing(Jam, q) /\ q[Jam] = "playing" /\ \A g \in Holders : g # Jam => q[g] = "idle"
    BY <1>1, <1>3, WentTo DEF Owner, Places
  <2>2. pc' = q /\ lease' = Jam
    BY <1>3, <1>4 DEF JamAcquired, Goto
  <2> HIDE DEF q
  <2> QED
    BY <1>1, <1>2, <1>3, <2>1, <2>2, HoldersAre, RestOwned
<1>5. ASSUME JamEnds PROVE Owner(engine', lease', pc')
  <2>1. /\ Standing(None, [pc EXCEPT ![Jam] = "idle"])
        /\ \A g \in Holders : [pc EXCEPT ![Jam] = "idle"][g] = "idle"
    BY <1>1, <1>2, GaveUp DEF Owner
  <2>2. lease' = None /\ pc' = [pc EXCEPT ![Jam] = "idle"]
    BY <1>3, <1>5 DEF JamEnds, Release, Goto
  <2>3. Standing(lease', pc') /\ lease' \in Holders \cup {None} /\ \A g \in Holders : pc'[g] = "idle"
    BY <2>1, <2>2
  <2> QED
    BY <1>2, <1>3, <2>3, HoldersAre, RestOwned
<1> QED
  BY <1>4, <1>5

(***************************************************************************)
(* A player begins anew, or is stopped.                                    *)
(***************************************************************************)
LEMMA BeginsOwned ==
    ASSUME Owner(engine, lease, pc), NEW h \in Players, pc[h] \in {"idle", "playing"},
           engine' = (IF pc[h] = "playing" THEN Silenced(engine) ELSE engine),
           \/ lease \in {None, h} /\ lease' = h /\ Goto(h, "acquiring")
           \/ lease \notin {None, h} /\ UNCHANGED <<lease, pc>>
    PROVE  Owner(engine', lease', pc')
<1>1. h \in Callers /\ h \in Holders
  BY HoldersAre
<1>2. CASE lease \in {None, h}
  <2>1. AtRest(engine')
    <3>1. CASE pc[h] = "playing"
      <4>1. Usable(engine) /\ Good(engine, Callers) /\ Single(engine)
        BY <1>1, <3>1 DEF Owner, Phased
      <4> QED
        BY <3>1, <4>1, SilencedRests
    <3>2. CASE pc[h] = "idle"
      <4>1. lease = None
        BY <1>1, <1>2, <3>2, LeaseOf
      <4> QED
        BY <3>2, <4>1, OnlyHolder
    <3> QED
      BY <3>1, <3>2
  <2> QED
    BY <1>1, <1>2, <2>1, TookLease
<1>3. CASE lease \notin {None, h}
  <2>1. pc[h] # "playing"
    BY <1>1, <1>3, LeaseOf
  <2> QED
    BY <1>3, <2>1
<1> QED
  BY <1>2, <1>3

LEMMA StopsOwned ==
    ASSUME Owner(engine, lease, pc), NEW h \in Players,
           IF pc[h] = "playing" THEN GiveBack(h, engine) ELSE UNCHANGED <<engine, lease, pc>>
    PROVE  Owner(engine', lease', pc')
<1>1. CASE pc[h] = "playing"
  <2>1. h \in Holders /\ Usable(engine) /\ Good(engine, Callers) /\ Single(engine)
    BY <1>1, HoldersAre DEF Owner, Phased
  <2> QED
    BY <1>1, <2>1, GaveBack
<1> QED
  BY <1>1

(***************************************************************************)
(* Every step.                                                             *)
(***************************************************************************)
LEMMA PreviewOwned ==
    ASSUME Owner(engine, lease, pc), PreviewStops \/ PreviewBegins \/ PreviewPlays
    PROVE  Owner(engine', lease', pc')
<1>1. Preview \in Players
  BY HoldersAre
<1>2. ASSUME PreviewStops PROVE Owner(engine', lease', pc')
  BY <1>1, <1>2, StopsOwned DEF PreviewStops
<1>3. ASSUME PreviewBegins PROVE Owner(engine', lease', pc')
  <2>1. /\ pc[Preview] \in {"idle", "playing"}
        /\ engine' = (IF pc[Preview] = "playing" THEN Silenced(engine) ELSE engine)
        /\ \/ lease \in {None, Preview} /\ lease' = Preview /\ Goto(Preview, "acquiring")
           \/ lease \notin {None, Preview} /\ UNCHANGED <<lease, pc>>
    BY <1>3 DEF PreviewBegins
  <2> QED
    BY <1>1, <2>1, BeginsOwned
<1>4. ASSUME PreviewPlays PROVE Owner(engine', lease', pc')
  BY <1>1, <1>4, OpensOwned, UnlocksOwned, PlacedOwned, PlayerFailsOwned DEF PreviewPlays, PreviewStep
<1> QED
  BY <1>2, <1>3, <1>4

LEMMA SongOwned ==
    ASSUME Owner(engine, lease, pc),
           SongStops \/ SongBegins \/ SilentBatch \/ SongPlays \/ PlayerEdits
    PROVE  Owner(engine', lease', pc')
<1>1. Song \in Players /\ Song \in Callers /\ Song \in Holders
  BY HoldersAre
<1>2. ASSUME SongStopped PROVE Owner(engine', lease', pc')
  BY <1>1, <1>2, StopsOwned DEF SongStopped
<1>3. ASSUME SongBegins PROVE Owner(engine', lease', pc')
  <2>1. /\ pc[Song] \in {"idle", "playing"}
        /\ engine' = (IF pc[Song] = "playing" THEN Silenced(engine) ELSE engine)
        /\ \/ lease \in {None, Song} /\ lease' = Song /\ Goto(Song, "acquiring")
           \/ lease \notin {None, Song} /\ UNCHANGED <<lease, pc>>
    BY <1>3 DEF SongBegins, Busy
  <2> QED
    BY <1>1, <2>1, BeginsOwned
<1>4. ASSUME SongStep PROVE Owner(engine', lease', pc')
  <2>1. ASSUME pc[Song] = "acquiring", IF fresh THEN Opens(Song) ELSE GiveBack(Song, engine)
        PROVE  Owner(engine', lease', pc')
    <3>1. AtRest(engine)
      BY <1>1, <2>1, OnlyHolder, LeaseOf
    <3> QED
      BY <1>1, <2>1, <3>1, OpensOwned, GaveBack DEF AtRest
  <2> QED
    BY <1>1, <1>4, <2>1, UnlocksOwned, PlacedOwned, PlayerFailsOwned DEF SongStep
<1>5. ASSUME PlayerEdits PROVE Owner(engine', lease', pc')
  BY <1>2, <1>5 DEF PlayerEdits, EditNoticed
<1> QED
  BY <1>2, <1>3, <1>4, <1>5 DEF SongStops, SilentBatch, SongPlays

LEMMA LiveOwned ==
    ASSUME Owner(engine, lease, pc), NEW l \in Lives, LiveWorks(l)
    PROVE  Owner(engine', lease', pc')
BY LiveOpensOwned, LiveUnlocksOwned, LivePreparesOwned, LiveLeavesOwned
   DEF LiveWorks, Live, LiveAcquired

LEMMA OtherOwned ==
    ASSUME Owner(engine, lease, pc), Other
    PROVE  Owner(engine', lease', pc')
<1>1. ASSUME JamBegins PROVE Owner(engine', lease', pc')
  BY <1>1, AcquireOwned, HoldersAre DEF JamBegins
<1>2. ASSUME NEW l \in Lives, LiveBegins(l) PROVE Owner(engine', lease', pc')
  BY <1>2, AcquireOwned, HoldersAre DEF LiveBegins
<1> QED
  BY <1>1, <1>2, JamOwned, CallbackOwned, LiveSchedulesOwned, LiveStopsOwned, LiveLeavesOwned DEF Other

LEMMA OwnerStep ==
    ASSUME Owner(engine, lease, pc), [Next]_vars
    PROVE  Owner(engine', lease', pc')
<1>1. ASSUME UNCHANGED vars PROVE Owner(engine', lease', pc')
  BY <1>1 DEF vars
<1>2. ASSUME NEW operation, PreviewAsked(operation) PROVE Owner(engine', lease', pc')
  BY <1>2 DEF PreviewAsked
<1> QED
  BY <1>1, <1>2, PreviewOwned, SongOwned, LiveOwned, OtherOwned, AcquireFailsOwned DEF Next

LEMMA OwnerInit == Init => Owner(engine, lease, pc)
<1> SUFFICES ASSUME Init PROVE Owner(engine, lease, pc)
  OBVIOUS
<1>1. engine = NewEngine /\ lease = None /\ pc = [h \in Holders |-> "idle"]
  BY DEF Init
<1>2. Good(engine, Callers)
  BY <1>1, NewEngineGood
<1>3. InFlight(engine) = {} /\ Owning(engine) = {} /\ engine.stop = None /\ ~engine.running
      /\ engine.beat = 0 /\ \A c \in Callers : engine.unlocking[c] = "no" /\ engine.batch[c] = None
  BY <1>1 DEF NewEngine, InFlight, Owning
<1>4. AtRest(engine)
  BY <1>2, <1>3 DEF AtRest, Single, Silent
<1>5. Standing(lease, pc)
  BY <1>1, HoldersAre DEF Standing, Places
<1> QED
  BY <1>1, <1>4, <1>5, HoldersAre, RestOwned

-----------------------------------------------------------------------------
(* THE LATEST WISH                                                         *)

(***************************************************************************)
(* The arrangement that plays is that of the song in the store; one that   *)
(* is on its way has been projected from a revision that may be committed. *)
(***************************************************************************)
SongWish ==
    /\ rev \in 0 .. MaxRev /\ base \in 0 .. rev /\ heard \in 0 .. rev
    /\ pc[Song] \notin {"idle", "playing"} => base < MaxRev
    /\ pc[Song] = "playing" => heard = rev /\ fresh

(***************************************************************************)
(* The last operation in the queue is the one asked for last, and the      *)
(* player works only on a play at its head.                                *)
(***************************************************************************)
PreviewWish ==
    /\ queue \in Seq({"play", "stop"}) /\ Len(queue) <= MaxQueue
    /\ queue # << >> => queue[Len(queue)] = asked
    /\ pc[Preview] \notin {"idle", "playing"} => queue # << >> /\ Head(queue) = "play"
    /\ queue = << >> /\ asked = "stop" => pc[Preview] = "idle"

Placing == pc \in [Holders -> Places]

LEMMA Goes ==
    ASSUME Placing, NEW h \in Holders, NEW place, Goto(h, place)
    PROVE  pc'[h] = place /\ \A g \in Holders : g # h => pc'[g] = pc[g]
BY DEF Placing, Goto

LEMMA StepGoes ==
    ASSUME Placing, NEW h \in Holders, Opens(h) \/ Unlocks(h) \/ PlayerFails(h)
    PROVE  /\ pc'[h] \in {"idle", "preparing", "unlocking"}
           /\ \A g \in Holders : g # h => pc'[g] = pc[g]
<1>1. \E place \in {"idle", "preparing", "unlocking"} : Goto(h, place)
  BY DEF Opens, Unlocks, PlayerFails, Preparation, GiveBack
<1> QED
  BY <1>1, Goes

LEMMA PlacedGoes ==
    ASSUME Placing, NEW h \in Holders
    PROVE  /\ Sounds(h) => pc'[h] = "playing" /\ \A g \in Holders : g # h => pc'[g] = pc[g]
           /\ \A e : GiveBack(h, e) => pc'[h] = "idle" /\ \A g \in Holders : g # h => pc'[g] = pc[g]
BY Goes DEF Sounds, GiveBack

(* The launcher and the Jam leave the players where they are. *)
LEMMA ApartGoes ==
    ASSUME Placing, (\E l \in Lives : LiveWorks(l)) \/ Other
    PROVE  pc'[Song] = pc[Song] /\ pc'[Preview] = pc[Preview]
           /\ UNCHANGED <<previewVars, songVars>>
<1>1. \/ \E h \in Lives \cup {Jam}, place \in Places : Goto(h, place)
      \/ pc' = pc
  BY DEF LiveWorks, Live, LiveAcquired, LiveOpens, LiveRuns, LiveUnlocks, LivePrepares, LiveEnded,
         Disposes, Other, JamBegins, JamAcquired, JamEnds, Callback, Acquire, LiveBegins,
         LiveSchedules, LiveStopsAtBeat, LiveCloses, Places
<1>2. \A h \in Lives \cup {Jam} : h \in Holders /\ h # Song /\ h # Preview
  BY HoldersAre
<1>3. Song \in Holders /\ Preview \in Holders
  BY HoldersAre
<1>4. UNCHANGED <<previewVars, songVars>>
  BY DEF LiveWorks, Other
<1> QED
  BY <1>1, <1>2, <1>3, <1>4, Goes

LEMMA SongWishKept ==
    ASSUME SongWish, pc'[Song] = pc[Song], UNCHANGED songVars
    PROVE  SongWish'
BY DEF SongWish, songVars

LEMMA PreviewWishKept ==
    ASSUME PreviewWish, pc'[Preview] = pc[Preview], UNCHANGED previewVars
    PROVE  PreviewWish'
BY DEF PreviewWish, previewVars

(* An operation is over. *)
LEMMA QueueTail ==
    ASSUME PreviewWish, queue # << >>
    PROVE  /\ Tail(queue) \in Seq({"play", "stop"}) /\ Len(Tail(queue)) <= MaxQueue
           /\ Tail(queue) # << >> => Tail(queue)[Len(Tail(queue))] = asked
           /\ Tail(queue) = << >> => Head(queue) = asked
<1>1. /\ queue \in Seq({"play", "stop"}) /\ Len(queue) <= MaxQueue /\ queue[Len(queue)] = asked
      /\ Len(queue) \in Nat \ {0} /\ MaxQueue \in Nat
  BY HolderAssumption DEF PreviewWish
<1>2. /\ Tail(queue) \in Seq({"play", "stop"}) /\ Len(Tail(queue)) = Len(queue) - 1
      /\ \A i \in 1 .. Len(queue) - 1 : Tail(queue)[i] = queue[i + 1]
      /\ Head(queue) = queue[1]
  BY <1>1
<1>3. Tail(queue) # << >> => Len(Tail(queue)) \in 1 .. Len(queue) - 1
  BY <1>1, <1>2
<1>4. Tail(queue) = << >> => Len(queue) = 1
  BY <1>1, <1>2
<1> QED
  BY <1>1, <1>2, <1>3, <1>4

(***************************************************************************)
(* The steps.                                                              *)
(***************************************************************************)
LEMMA PreviewWishStep ==
    ASSUME Owner(engine, lease, pc), PreviewWish,
           \/ \E operation \in {"play", "stop"} : PreviewAsked(operation)
           \/ PreviewStops \/ PreviewBegins \/ PreviewPlays
    PROVE  PreviewWish' /\ pc'[Song] = pc[Song] /\ UNCHANGED songVars
<1>1. /\ Placing /\ Preview \in Holders /\ Song \in Holders /\ Preview # Song
  BY HoldersAre DEF Owner, Standing, Placing
<1>2. ASSUME NEW operation \in {"play", "stop"}, PreviewAsked(operation)
      PROVE  PreviewWish' /\ pc'[Song] = pc[Song] /\ UNCHANGED songVars
  <2>1. /\ queue' = Append(queue, operation) /\ asked' = operation /\ pc' = pc
        /\ Len(queue) < MaxQueue /\ UNCHANGED songVars /\ queue \in Seq({"play", "stop"})
    BY <1>2 DEF PreviewAsked, PreviewWish
  <2>2. /\ queue' \in Seq({"play", "stop"}) /\ Len(queue') = Len(queue) + 1 /\ queue' # << >>
        /\ queue'[Len(queue')] = operation /\ (queue # << >> => Head(queue') = Head(queue))
    BY <2>1
  <2>3. Len(queue') <= MaxQueue
    BY <2>1, <2>2, HolderAssumption
  <2> QED
    BY <2>1, <2>2, <2>3 DEF PreviewWish
<1>3. ASSUME PreviewStops
      PROVE  PreviewWish' /\ pc'[Song] = pc[Song] /\ UNCHANGED songVars
  <2>1. /\ queue # << >> /\ pc[Preview] \in {"idle", "playing"} /\ queue' = Tail(queue)
        /\ asked' = asked /\ UNCHANGED songVars
    BY <1>3 DEF PreviewStops
  <2>2. pc'[Preview] = "idle" /\ pc'[Song] = pc[Song]
    BY <1>1, <1>3, PlacedGoes DEF PreviewStops
  <2> QED
    BY <2>1, <2>2, QueueTail DEF PreviewWish
<1>4. ASSUME PreviewBegins
      PROVE  PreviewWish' /\ pc'[Song] = pc[Song] /\ UNCHANGED songVars
  <2>1. /\ queue # << >> /\ Head(queue) = "play" /\ asked' = asked /\ UNCHANGED songVars
        /\ \/ Goto(Preview, "acquiring") /\ queue' = queue
           \/ pc' = pc /\ lease # Preview /\ queue' = Tail(queue)
    BY <1>4 DEF PreviewBegins
  <2>2. CASE Goto(Preview, "acquiring") /\ queue' = queue
    <3>1. pc'[Preview] = "acquiring" /\ pc'[Song] = pc[Song]
      BY <1>1, <2>2, Goes
    <3> QED
      BY <2>1, <2>2, <3>1 DEF PreviewWish
  <2>3. CASE pc' = pc /\ lease # Preview /\ queue' = Tail(queue)
    <3>1. pc[Preview] = "idle"
      BY <1>1, <2>3, LeaseOf
    <3> QED
      BY <2>1, <2>3, <3>1, QueueTail DEF PreviewWish
  <2> QED
    BY <2>1, <2>2, <2>3
<1>5. ASSUME PreviewPlays
      PROVE  PreviewWish' /\ pc'[Song] = pc[Song] /\ UNCHANGED songVars
  <2>1. /\ queue' = (IF pc'[Preview] \in {"idle", "playing"} THEN Tail(queue) ELSE queue)
        /\ asked' = asked /\ UNCHANGED songVars
    BY <1>5 DEF PreviewPlays
  <2>2. pc[Preview] \in {"acquiring", "unlocking", "preparing"}
    BY <1>5 DEF PreviewPlays, PreviewStep, Unlocks, Prepares, PlayerFails
  <2>3. queue # << >> /\ Head(queue) = "play"
    BY <2>2 DEF PreviewWish
  <2>4. pc'[Song] = pc[Song]
    BY <1>1, <1>5, StepGoes, PlacedGoes DEF PreviewPlays, PreviewStep
  <2> QED
    BY <2>1, <2>3, <2>4, QueueTail DEF PreviewWish
<1> QED
  BY <1>2, <1>3, <1>4, <1>5

LEMMA SongWishStep ==
    ASSUME Owner(engine, lease, pc), SongWish,
           SongStops \/ SongBegins \/ SilentBatch \/ SongPlays \/ PlayerEdits
    PROVE  SongWish' /\ pc'[Preview] = pc[Preview] /\ UNCHANGED previewVars
<1>1. /\ Placing /\ Preview \in Holders /\ Song \in Holders /\ Preview # Song
  BY HoldersAre DEF Owner, Standing, Placing
<1>2. /\ rev \in 0 .. MaxRev /\ base \in 0 .. rev /\ heard \in 0 .. rev /\ MaxRev \in Nat
      /\ pc[Song] \notin {"idle", "playing"} => base < MaxRev
      /\ pc[Song] = "playing" => heard = rev /\ fresh
  BY HolderAssumption DEF SongWish
<1>3. ASSUME SongStopped
      PROVE  pc'[Song] = (IF pc[Song] = "playing" THEN "idle" ELSE pc[Song]) /\ pc'[Preview] = pc[Preview]
  BY <1>1, <1>3, PlacedGoes DEF SongStopped
<1>4. ASSUME SongStops
      PROVE  SongWish' /\ pc'[Preview] = pc[Preview] /\ UNCHANGED previewVars
  <2>1. SongStopped /\ UNCHANGED <<previewVars, rev, base, heard>>
    BY <1>4 DEF SongStops
  <2> QED
    BY <1>2, <1>3, <2>1 DEF SongWish
<1>5. ASSUME SongBegins
      PROVE  SongWish' /\ pc'[Preview] = pc[Preview] /\ UNCHANGED previewVars
  <2>1. /\ pc[Song] \in {"idle", "playing"} /\ rev < MaxRev /\ base' = rev /\ fresh' = TRUE
        /\ UNCHANGED <<previewVars, rev, heard>>
        /\ Goto(Song, "acquiring") \/ (lease # Song /\ pc' = pc)
    BY <1>5 DEF SongBegins, Busy
  <2>2. CASE Goto(Song, "acquiring")
    <3>1. pc'[Song] = "acquiring" /\ pc'[Preview] = pc[Preview]
      BY <1>1, <2>2, Goes
    <3> QED
      BY <1>2, <2>1, <3>1 DEF SongWish
  <2>3. CASE lease # Song /\ pc' = pc
    <3>1. pc[Song] = "idle"
      BY <1>1, <2>3, LeaseOf
    <3> QED
      BY <1>2, <2>1, <2>3, <3>1 DEF SongWish
  <2> QED
    BY <2>1, <2>2, <2>3
<1>6. ASSUME SilentBatch
      PROVE  SongWish' /\ pc'[Preview] = pc[Preview] /\ UNCHANGED previewVars
  <2>1. /\ pc[Song] \in {"idle", "playing"} /\ rev < MaxRev /\ rev' = rev + 1 /\ SongStopped
        /\ UNCHANGED <<previewVars, base, heard>>
    BY <1>6 DEF SilentBatch, Busy
  <2>2. pc'[Song] = "idle" /\ pc'[Preview] = pc[Preview]
    BY <1>3, <2>1
  <2> QED
    BY <1>2, <2>1, <2>2 DEF SongWish
<1>7. ASSUME PlayerEdits
      PROVE  SongWish' /\ pc'[Preview] = pc[Preview] /\ UNCHANGED previewVars
  <2>1. /\ rev < MaxRev /\ rev' = rev + 1 /\ UNCHANGED <<previewVars, base, heard>>
    BY <1>7 DEF PlayerEdits, EditNoticed
  <2>2. pc'[Song] = (IF pc[Song] = "playing" THEN "idle" ELSE pc[Song]) /\ pc'[Preview] = pc[Preview]
    BY <1>3, <1>7 DEF PlayerEdits, EditNoticed
  <2> QED
    BY <1>2, <2>1, <2>2 DEF SongWish
<1>8. ASSUME SongPlays
      PROVE  SongWish' /\ pc'[Preview] = pc[Preview] /\ UNCHANGED previewVars
  <2>1. base' = base /\ fresh' = fresh /\ UNCHANGED previewVars /\ SongStep
    BY <1>8 DEF SongPlays
  <2>2. base < MaxRev
    <3>1. pc[Song] \in {"acquiring", "unlocking", "preparing"}
      BY <2>1 DEF SongStep, Unlocks, Prepares, PlayerFails
    <3> QED
      BY <1>2, <3>1
  <2>3. ASSUME UNCHANGED <<rev, heard>>, pc'[Song] # "playing" PROVE SongWish'
    BY <1>2, <2>1, <2>2, <2>3 DEF SongWish
  <2>4. ASSUME pc[Song] = "acquiring", IF fresh THEN Opens(Song) ELSE GiveBack(Song, engine)
        PROVE  pc'[Song] # "playing" /\ pc'[Preview] = pc[Preview]
    BY <1>1, <2>4, StepGoes, PlacedGoes
  <2>5. ASSUME Unlocks(Song) \/ PlayerFails(Song)
        PROVE  pc'[Song] # "playing" /\ pc'[Preview] = pc[Preview]
    BY <1>1, <2>5, StepGoes
  <2>6. ASSUME GiveBack(Song, Placed(Song))
        PROVE  pc'[Song] # "playing" /\ pc'[Preview] = pc[Preview]
    BY <1>1, <2>6, PlacedGoes
  <2>7. ASSUME Committing, rev' = rev + 1, heard' = rev + 1
        PROVE  SongWish'
    <3>1. fresh /\ rev = base
      BY <2>7 DEF Committing
    <3>2. fresh'
      BY <2>1, <3>1
    <3> QED
      BY <1>2, <2>1, <2>2, <2>7, <3>1, <3>2 DEF SongWish
  <2>8. ASSUME Sounds(Song) PROVE pc'[Preview] = pc[Preview]
    BY <1>1, <2>8, PlacedGoes
  <2> QED
    BY <2>1, <2>3, <2>4, <2>5, <2>6, <2>7, <2>8 DEF SongStep
<1> QED
  BY <1>4, <1>5, <1>6, <1>7, <1>8

-----------------------------------------------------------------------------
(* THE HOLDERS                                                             *)

(***************************************************************************)
(* What every step of the holders keeps.                                   *)
(***************************************************************************)
HolderInv == Owner(engine, lease, pc) /\ SongWish /\ PreviewWish

LEMMA AcquireFailsWish ==
    ASSUME Owner(engine, lease, pc), SongWish, PreviewWish, NEW h \in Holders, AcquireFails(h)
    PROVE  SongWish' /\ PreviewWish'
<1>1. /\ Placing /\ Preview \in Holders /\ Song \in Holders
      /\ pc[h] \in {"acquiring", "closing"} /\ Goto(h, "idle") /\ UNCHANGED songVars /\ asked' = asked
      /\ queue' = IF h = Preview THEN Tail(queue) ELSE queue
  BY HoldersAre DEF Owner, Standing, Placing, AcquireFails
<1>2. pc'[h] = "idle" /\ \A g \in Holders : g # h => pc'[g] = pc[g]
  BY <1>1, Goes
<1>3. SongWish'
  <2>1. pc'[Song] \in {"idle", pc[Song]}
    BY <1>1, <1>2
  <2> QED
    BY <1>1, <2>1 DEF SongWish, songVars
<1>4. PreviewWish'
  <2>1. CASE h = Preview
    <3>1. queue # << >> /\ Head(queue) = "play"
      BY <1>1, <2>1 DEF PreviewWish
    <3> QED
      BY <1>1, <1>2, <2>1, <3>1, QueueTail DEF PreviewWish
  <2>2. CASE h # Preview
    <3>1. pc'[Preview] = pc[Preview] /\ queue' = queue
      BY <1>1, <1>2, <2>2
    <3> QED
      BY <1>1, <3>1, PreviewWishKept DEF previewVars
  <2> QED
    BY <2>1, <2>2
<1> QED
  BY <1>3, <1>4

LEMMA HolderInit == Init => HolderInv
<1> SUFFICES ASSUME Init PROVE HolderInv
  OBVIOUS
<1>1. /\ pc = [h \in Holders |-> "idle"] /\ queue = << >> /\ asked = "stop"
      /\ rev = 0 /\ base = 0 /\ heard = 0
  BY DEF Init
<1>2. pc[Song] = "idle" /\ pc[Preview] = "idle"
  BY <1>1, HoldersAre
<1>3. SongWish
  BY <1>1, <1>2, HolderAssumption DEF SongWish
<1>4. PreviewWish
  BY <1>1, <1>2, HolderAssumption DEF PreviewWish
<1> QED
  BY <1>3, <1>4, OwnerInit DEF HolderInv

LEMMA HolderStep == HolderInv /\ [Next]_vars => HolderInv'
<1> SUFFICES ASSUME HolderInv, [Next]_vars PROVE HolderInv'
  OBVIOUS
<1>1. Owner(engine, lease, pc) /\ SongWish /\ PreviewWish
  BY DEF HolderInv
<1>2. Owner(engine', lease', pc')
  BY <1>1, OwnerStep
<1>3. /\ Placing
  BY <1>1 DEF Owner, Standing, Placing
<1>4. SongWish' /\ PreviewWish'
  <2>1. ASSUME UNCHANGED vars PROVE SongWish' /\ PreviewWish'
    BY <1>1, <2>1, SongWishKept, PreviewWishKept DEF vars
  <2>2. ASSUME \/ \E operation \in {"play", "stop"} : PreviewAsked(operation)
               \/ PreviewStops \/ PreviewBegins \/ PreviewPlays
        PROVE  SongWish' /\ PreviewWish'
    BY <1>1, <2>2, PreviewWishStep, SongWishKept
  <2>3. ASSUME SongStops \/ SongBegins \/ SilentBatch \/ SongPlays \/ PlayerEdits
        PROVE  SongWish' /\ PreviewWish'
    BY <1>1, <2>3, SongWishStep, PreviewWishKept
  <2>4. ASSUME (\E l \in Lives : LiveWorks(l)) \/ Other PROVE SongWish' /\ PreviewWish'
    BY <1>1, <1>3, <2>4, ApartGoes, SongWishKept, PreviewWishKept
  <2>5. ASSUME NEW h \in Holders, AcquireFails(h) PROVE SongWish' /\ PreviewWish'
    BY <1>1, <2>5, AcquireFailsWish
  <2> QED
    BY <2>1, <2>2, <2>3, <2>4, <2>5 DEF Next
<1> QED
  BY <1>2, <1>4 DEF HolderInv

(***************************************************************************)
(* Whatever is fresh, pending or sounds in the engine belongs to the       *)
(* holder of the lease, after every step of every holder                   *)
(* (acquireBrowserAudioLease and its callers).                             *)
(***************************************************************************)
THEOREM HolderInvariance == Spec => []HolderInv
BY HolderInit, HolderStep, PTL DEF Spec

LEMMA HolderTypes == HolderInv => TypeOK
<1> SUFFICES ASSUME HolderInv PROVE TypeOK
  OBVIOUS
<1>1. /\ Good(engine, Callers) /\ Standing(lease, pc)
      /\ \A h \in Callers : Phased(engine, lease, pc, h)
  BY DEF HolderInv, Owner
<1>2. engine \in Engines(Callers)
  BY <1>1 DEF Good, Sound
<1>3. \A h \in Callers : pc[h] = "unlocking" <=> engine.unlocking[h] = "fresh"
  BY <1>1 DEF Phased
<1>4. \A h \in Players : pc[h] = "preparing" <=> h \in InFlight(engine) /\ engine.batch[h].fresh
  <2> TAKE h \in Players
  <2>1. h \in Callers /\ h \notin Lives
    BY HoldersAre
  <2> QED
    BY <1>1, <2>1 DEF Phased
<1>5. rev \in 0 .. MaxRev /\ base <= rev /\ heard <= rev /\ Len(queue) <= MaxQueue
  BY HolderAssumption DEF HolderInv, SongWish, PreviewWish
<1> QED
  BY <1>1, <1>2, <1>3, <1>4, <1>5 DEF TypeOK, Standing

(***************************************************************************)
(* Types, however many sessions, tracks, voices, beats, revisions and      *)
(* waiting operations there are: and who awaits an unlock or a material    *)
(* has asked the engine for it in its present generation, so an answer     *)
(* never reaches a holder that has not asked (browserAudioRuntime and its  *)
(* its callers).                                                           *)
(***************************************************************************)
THEOREM HolderTyped == Spec => []TypeOK
BY HolderInvariance, HolderTypes, PTL

LEMMA NothingKept ==
    ASSUME NEW e, AtRest(e)
    PROVE  e.voices = UNION {HeldVoices(e.batch[c]) : c \in InFlight(e)}
<1>1. KeptOnce(e) /\ Owning(e) = {}
  BY DEF AtRest, Good, Sound, Silent
<1>2. \A t \in Tracks : Heard(e, t) = {} /\ Coming(e, t) = {}
  BY <1>1 DEF Heard, Coming, VoiceOf, Owning
<1>3. e.voices = UNION {Held(e, c) : c \in Callers}
  BY <1>1, <1>2 DEF KeptOnce
<1>4. \A c \in Callers : Held(e, c) = IF c \in InFlight(e) THEN HeldVoices(e.batch[c]) ELSE {}
  BY DEF Held, InFlight
<1>5. InFlight(e) \subseteq Callers
  BY DEF InFlight
<1> QED
  BY <1>3, <1>4, <1>5

LEMMA OwnedTransport == HolderInv => TransportOwned
<1> SUFFICES ASSUME HolderInv PROVE TransportOwned
  OBVIOUS
<1>1. /\ Owner(engine, lease, pc) /\ Standing(lease, pc) /\ Sounding(engine, lease, pc)
  BY DEF HolderInv, Owner
<1>2. /\ \A h \in Holders : pc[h] # "idle" => lease = h
      /\ engine.running => lease \in Callers /\ pc[lease] = "playing"
      /\ \A h \in Players : pc[h] = "playing" => engine.running
  BY <1>1 DEF Standing, Sounding
<1>3. ASSUME lease = None
      PROVE  /\ Owning(engine) = {} /\ engine.stop = None
             /\ engine.voices = UNION {HeldVoices(engine.batch[c]) : c \in InFlight(engine)}
             /\ \A c \in InFlight(engine) : ~engine.batch[c].fresh
  <2>1. AtRest(engine)
    BY <1>1, <1>3, OnlyHolder
  <2> QED
    BY <2>1, NothingKept DEF AtRest, Silent, InFlight
<1> QED
  BY <1>2, <1>3 DEF TransportOwned

LEMMA Wished == HolderInv => LatestWish
BY DEF HolderInv, SongWish, PreviewWish, LatestWish

(***************************************************************************)
(* The engine is used by one holder at a time and given back silent, with  *)
(* no material left behind, and whoever sounds plays what was asked for    *)
(* last: whatever the interleaving of preview, arrangement, launcher and   *)
(* Jam with late unlocks, preparations and transport callbacks.            *)
(***************************************************************************)
THEOREM HolderOwned == Spec => []HolderExact
<1>1. HolderInv => HolderExact
  BY OwnedTransport, Wished DEF HolderExact
<1> QED
  BY <1>1, HolderInvariance, PTL
=============================================================================

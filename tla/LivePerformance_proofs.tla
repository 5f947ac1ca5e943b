----------------------- MODULE LivePerformance_proofs -----------------------
(***************************************************************************)
(* Proofs about the live session, for any tracks, clips, materials, songs  *)
(* and bounds.                                                             *)
(*                                                                         *)
(* A step is a short composition: the runtime or the engine changes, then  *)
(* the reconciliation repairs the other one. So the proof says what the    *)
(* two share before the reconciliation (Weakly) and after it (Follows),    *)
(* and what the drain loop knows about the units it has found.             *)
(***************************************************************************)
EXTENDS LivePerformance, FiniteSetTheorems, WellFoundedInduction, TLAPS

-----------------------------------------------------------------------------
(* THE INVARIANT                                                           *)

Pending(r, t) == r.pending[t] # None
Running(r) == r.phase # "idle"

(***************************************************************************)
(* A sound runtime. An entry of a track names it, its ids are reserved, it *)
(* has a clip exactly when it is a launch; a scene stays together.         *)
(***************************************************************************)
EntrySound(r, t) ==
    LET x == r.pending[t]
    IN  /\ x.kind = "launch" <=> x.clip # None
        /\ x.id[2] = t /\ x.id \in r.ids
        /\ x.group # None => x.group \in r.ids /\ x.group[3] = "gesture"

Together(r) ==
    \A t, u \in Tracks :
        Pending(r, t) /\ Pending(r, u) /\ r.pending[t].group = r.pending[u].group
          /\ r.pending[t].group # None
        => /\ r.pending[u].status = r.pending[t].status
           /\ r.pending[u].target = r.pending[t].target

Sound(r) ==
    /\ r \in Performances(Ids)
    /\ r.phase = "stopping" <=> r.stop # None
    /\ ~Running(r) => \A t \in Tracks : r.clip[t] = None /\ r.pending[t] = None
    /\ \A t \in Tracks : Pending(r, t) => EntrySound(r, t)
    /\ Together(r)

(***************************************************************************)
(* What runtime and engine share. Agreed: outside of the reconciliation.   *)
(* Weakly: before it, when the runtime may have forgotten a transition.    *)
(***************************************************************************)
SameTransition(e, r, t) ==
    LET x == r.pending[t]
        request == e.pending[t].request
    IN  request.id = x.id /\ request.kind = x.kind /\ request.target = x.target

StopsAgree(e, r) ==
    /\ e.stop # None <=> r.stop # None /\ r.stop.status = "scheduled"
    /\ e.stop # None => e.stop.id = r.stop.id

Weakly(e, r) ==
    /\ e.running /\ e.phase = "running"
    /\ StopsAgree(e, r)
    /\ \A t \in ScheduledOn(r) : e.pending[t] # None /\ SameTransition(e, r, t)
    /\ \A t \in Tracks \ ScheduledOn(r) :
          e.pending[t] # None /\ Pending(r, t) => e.pending[t].request.id # r.pending[t].id

Agreed(e, r) ==
    /\ Weakly(e, r)
    /\ r.beat <= e.beat
    /\ \A t \in Tracks : e.pending[t] # None => t \in ScheduledOn(r)

(* The clips that the runtime says play are the ones that sound.           *)
Audible(e, r) == \A t \in Tracks : r.clip[t] # None <=> e.active[t] # None

(***************************************************************************)
(* A unit of the drain loop is one track's transition or all the open      *)
(* members that its scene will ever have.                                  *)
(***************************************************************************)
UnitSound(unit, r, requests) ==
    /\ DOMAIN unit \subseteq Tracks /\ DOMAIN unit # {}
    /\ \A t \in DOMAIN unit :
          /\ unit[t] \in Transitions(Ids) /\ unit[t].status = "pending" /\ unit[t].id[2] = t
          /\ unit[t].kind = "launch" <=> unit[t].clip # None
          /\ unit[t].group = None => DOMAIN unit = {t}
          /\ unit[t].group # None =>
                /\ unit[t].group[3] = "gesture" /\ unit[t].group[1] <= requests
                /\ Members(r, unit[t].group) \subseteq DOMAIN unit \ ScheduledOn(r)
          /\ \A u \in DOMAIN unit : unit[u].group = unit[t].group
          /\ t \in ScheduledOn(r) => r.pending[t].id # unit[t].id

(* The batch that the engine prepares is the unit's. *)
BatchOf(e, unit) ==
    LET b == e.batch[Caller]
    IN  /\ b # None
        /\ \A i \in DOMAIN b.requests :
              LET q == b.requests[i]
                  x == unit[q.track]
              IN  /\ q.track \in DOMAIN unit
                  /\ q.id = x.id /\ q.kind = x.kind /\ q.target = x.target
                  /\ \A j \in DOMAIN b.requests : i # j => b.requests[j].track # q.track
        /\ \A t \in DOMAIN unit :
              e.pending[t] = None /\ \E i \in DOMAIN b.requests : b.requests[i].track = t

(* What the loop finds to be scheduled at once. *)
Units == UNION {[tracks -> Transitions(Ids)] : tracks \in SUBSET Tracks}

LoopSound ==
    /\ \A i \in DOMAIN sync.units : UnitSound(sync.units[i], runtime, made.requests)
    /\ \A i, j \in DOMAIN sync.units : i # j => DOMAIN sync.units[i] \cap DOMAIN sync.units[j] = {}
    /\ IF sync.pc = "preparing"
       THEN sync.units # << >> /\ BatchOf(engine, Head(sync.units))
       ELSE engine.batch[Caller] = None
    /\ session \in {"starting", "outdated"} => sync.pc \in {"idle", "failed"}

(* Nothing sounds and nothing is scheduled. *)
Silent(e) == e.stop = None /\ \A t \in Tracks : e.active[t] = None /\ e.pending[t] = None

(***************************************************************************)
(* What holds in every reachable state.                                    *)
(***************************************************************************)
Types ==
    /\ engine \in SessionEngines
    /\ song \in Songs
    /\ session \in {"none", "starting", "outdated", "active"}
    /\ sync \in [pc : {"idle", "head", "units", "preparing", "failed"}, dirty : BOOLEAN,
                 units : Seq(Units)]
    /\ made \in [requests : Nat, edits : Nat, sessions : Nat, refreshes : Nat]

Numbered(r, requests) == \A id \in r.ids : id[3] = "gesture" => id[1] <= requests

IInv ==
    /\ Types
    /\ Sound(runtime)
    /\ Numbered(runtime, made.requests)
    /\ Running(runtime) => session = "active" /\ Agreed(engine, runtime)
    /\ LoopSound
    /\ session = "starting" => Silent(engine)

(***************************************************************************)
(* What holds in the first session, as long as there are ids left.         *)
(***************************************************************************)
RefreshNumbered(r, refreshes) == \A id \in r.ids : id[3] = "refresh" => id[1] <= refreshes

(* Nothing was edited since the loop has looked, or it has ended. *)
Current ==
    /\ Running(runtime)
    /\ sync.pc = "idle" \/ (sync.pc \in {"units", "preparing"} /\ ~sync.dirty)

Wanted(s, e, r) == \A t \in ScheduledOn(r) : e.pending[t].request.material = MaterialOf(s, t, r.pending[t].clip)

InUnits(r, t) ==
    \E i \in DOMAIN sync.units : t \in DOMAIN sync.units[i] /\ Matches(r, sync.units[i])

Covered ==
    Current =>
        /\ Wanted(song, engine, runtime)
        /\ \A t \in Tracks :
              Pending(runtime, t) /\ t \notin ScheduledOn(runtime)
              => sync.pc # "idle" /\ InUnits(runtime, t)

(* What the engine prepares is what the song holds, unless the loop will   *)
(* look again.                                                             *)
BatchCurrent ==
    sync.pc = "preparing" /\ ~sync.dirty /\ session = "active" =>
        \A i \in DOMAIN engine.batch[Caller].requests :
            LET q == engine.batch[Caller].requests[i]
            IN  q.material = MaterialOf(song, q.track, Head(sync.units)[q.track].clip)

FirstSession ==
    made.sessions = 0 =>
        session = "none" /\ sync.pc = "idle" /\ runtime.ids = {} /\ made.refreshes = 0

JInv ==
    /\ RefreshNumbered(runtime, made.refreshes)
    /\ FirstSession
    /\ Running(runtime) => Audible(engine, runtime)
    /\ Covered /\ BatchCurrent

-----------------------------------------------------------------------------
(* ARITHMETIC                                                              *)

LEMMA LoopBoundary ==
    ASSUME NEW a \in Nat, NEW l \in Nat \ {0}
    PROVE  ((a \div l) + 1) * l \in Nat /\ ((a \div l) + 1) * l > a
<1> QED
  BY SMTT(30)

-----------------------------------------------------------------------------
(* THE ENGINE                                                              *)

SameTransport(e, f) ==
    /\ f.phase = e.phase /\ f.running = e.running /\ f.beat = e.beat /\ f.stop = e.stop
    /\ f.unlocked = e.unlocked /\ f.unlocking = e.unlocking

(* Batches are outdated at most. *)
SameRequests(e, f) ==
    \A c \in Callers :
        /\ f.batch[c] = None <=> e.batch[c] = None
        /\ e.batch[c] # None => f.batch[c].requests = e.batch[c].requests

Fewer(e, f) == \A t \in Tracks : f.pending[t] # None => f.pending[t] = e.pending[t]

SameHeard(e, f) ==
    \A t \in Tracks :
        /\ f.active[t] = None <=> e.active[t] = None
        /\ e.active[t] # None => f.active[t].request = e.active[t].request

Quiet(f) ==
    /\ ~f.running /\ f.stop = None
    /\ \A t \in Tracks : f.active[t] = None /\ f.pending[t] = None

(* None is no source, no job and no stop. *)
LEMMA NoneIs ==
    /\ None \notin SessionSources /\ None \notin SessionJobs /\ None \notin Ids
    /\ None \notin [id : Ids, target : Nat] /\ None \notin Clips /\ None \notin Materials
    /\ None \notin Transitions(Ids) /\ None \notin Stops(Ids) /\ None \notin Tracks
BY PerformanceAssumption, EngineAssumption

LEMMA CallerIs == Caller \in Callers
BY PerformanceAssumption DEF Caller

(* Cancelling one transition. *)
LEMMA CancelledIs ==
    ASSUME NEW e \in SessionEngines, NEW t \in Tracks
    PROVE  LET f == Cancelled(e, t)
           IN  /\ f.pending[t] = None
               /\ f.active[t] \in SessionSources \cup {None}
               /\ f.active[t] = None <=> e.active[t] = None
               /\ e.active[t] # None => f.active[t].request = e.active[t].request
<1>1. CASE e.active[t] = None
  BY <1>1 DEF Cancelled, ClearPending, CutActive, SessionEngines
<1>2. CASE e.active[t] # None
  <2>1. e.active[t] \in SessionSources
    BY <1>2 DEF SessionEngines
  <2> DEFINE a == [e.active[t] EXCEPT !.cutoff = None]
  <2>2. a \in SessionSources /\ a.request = e.active[t].request
    BY <2>1 DEF SessionSources
  <2>3. Cancelled(e, t).active[t] = a /\ Cancelled(e, t).pending[t] = None
    BY <1>2 DEF Cancelled, ClearPending, CutActive, SessionEngines
  <2> QED
    BY <1>2, <2>2, <2>3, NoneIs
<1> QED
  BY <1>1, <1>2

(* Cancelling several. *)
LEMMA CancelledAllIs ==
    ASSUME NEW e \in SessionEngines, NEW tracks \in SUBSET Tracks
    PROVE  LET f == CancelledAll(e, tracks)
           IN  /\ f \in SessionEngines
               /\ SameTransport(e, f) /\ f.batch = e.batch /\ SameHeard(e, f)
               /\ \A t \in Tracks : f.pending[t] = IF t \in tracks THEN None ELSE e.pending[t]
<1> DEFINE f == CancelledAll(e, tracks)
           held == {t \in tracks : e.pending[t] # None}
<1>1. /\ f = [e EXCEPT !.pending = f.pending, !.active = f.active, !.voices = f.voices]
      /\ f.pending = [t \in Tracks |->
                         IF t \in held THEN Cancelled(e, t).pending[t] ELSE e.pending[t]]
      /\ f.active = [t \in Tracks |->
                         IF t \in held THEN Cancelled(e, t).active[t] ELSE e.active[t]]
      /\ f.voices \subseteq e.voices
  BY DEF CancelledAll, SessionEngines
<1> HIDE DEF f
<1>2. \A t \in held : /\ Cancelled(e, t).pending[t] = None
                      /\ Cancelled(e, t).active[t] \in SessionSources \cup {None}
                      /\ Cancelled(e, t).active[t] = None <=> e.active[t] = None
                      /\ e.active[t] # None => Cancelled(e, t).active[t].request = e.active[t].request
  BY CancelledIs
<1>3. \A t \in Tracks : f.pending[t] = IF t \in tracks THEN None ELSE e.pending[t]
  BY <1>1, <1>2
<1>4. f.pending \in [Tracks -> SessionSources \cup {None}]
  BY <1>1, <1>3 DEF SessionEngines
<1>5. f.active \in [Tracks -> SessionSources \cup {None}]
  BY <1>1, <1>2 DEF SessionEngines
<1>6. SameHeard(e, f)
  BY <1>1, <1>2 DEF SameHeard
<1>7. f \in SessionEngines /\ SameTransport(e, f) /\ f.batch = e.batch
  <2>1. f.voices \in SUBSET Voices
    BY <1>1 DEF SessionEngines
  <2> QED
    BY <1>1, <1>4, <1>5, <2>1 DEF SessionEngines, SameTransport
<1> QED
  BY <1>3, <1>6, <1>7 DEF f

(* stop silences the engine; what is prepared for it is outdated. *)
LEMMA StoppedIs ==
    ASSUME NEW e \in SessionEngines
    PROVE  LET f == Stopped(e)
           IN  /\ f \in SessionEngines /\ f.phase = "stopped" /\ Quiet(f) /\ f.beat = 0
               /\ SameRequests(e, f)
<1> DEFINE f == Stopped(e)
           unlocking == [c \in Callers |-> IF e.unlocking[c] = "fresh" THEN "stale" ELSE e.unlocking[c]]
           batch == [c \in Callers |-> IF e.batch[c] = None THEN None
                                       ELSE [e.batch[c] EXCEPT !.fresh = FALSE]]
           n == NewGeneration(e)
           k == CleanTracks(n)
<1>1. /\ n = [e EXCEPT !.unlocking = unlocking, !.batch = batch]
      /\ unlocking \in [Callers -> {"no", "fresh", "stale"}]
  BY DEF NewGeneration, SessionEngines
<1>2. \A c \in Callers : e.batch[c] # None =>
         batch[c] \in SessionJobs /\ batch[c].requests = e.batch[c].requests
  BY DEF SessionEngines, SessionJobs
<1>3. batch \in [Callers -> SessionJobs \cup {None}]
  BY <1>2
<1> HIDE DEF unlocking, batch, n
<1>4. n \in SessionEngines /\ n.batch = batch
  BY <1>1, <1>3 DEF SessionEngines
<1>5. /\ k = [n EXCEPT !.stop = None, !.active = k.active, !.pending = k.pending, !.voices = k.voices]
      /\ k.active = [t \in Tracks |-> None] /\ k.pending = [t \in Tracks |-> None]
      /\ k.voices \in SUBSET Voices
  BY <1>4 DEF CleanTracks, SessionEngines
<1> HIDE DEF k
<1>6. f = [k EXCEPT !.phase = "stopped", !.running = FALSE, !.beat = 0]
  BY DEF Stopped, k, n
<1>7. k \in SessionEngines /\ k.batch = batch /\ k.stop = None
  <2>1. /\ k.active \in [Tracks -> SessionSources \cup {None}]
        /\ k.pending \in [Tracks -> SessionSources \cup {None}]
    BY <1>5
  <2> QED
    BY <1>4, <1>5, <2>1 DEF SessionEngines
<1>8. /\ f \in SessionEngines /\ f.phase = "stopped" /\ Quiet(f) /\ f.beat = 0 /\ f.batch = batch
  <2> HIDE DEF f
  <2>1. /\ f.phase = "stopped" /\ ~f.running /\ f.beat = 0
        /\ f.batch = k.batch /\ f.stop = k.stop /\ f.active = k.active /\ f.pending = k.pending
    BY <1>6, <1>7 DEF SessionEngines
  <2>2. f \in SessionEngines
    BY <1>6, <1>7 DEF SessionEngines
  <2> QED
    BY <1>5, <1>7, <2>1, <2>2 DEF Quiet
<1>9. SameRequests(e, f)
  <2> SUFFICES ASSUME NEW c \in Callers
               PROVE  /\ f.batch[c] = None <=> e.batch[c] = None
                      /\ e.batch[c] # None => f.batch[c].requests = e.batch[c].requests
    BY DEF SameRequests
  <2>1. e.batch[c] = None => batch[c] = None
    BY DEF batch
  <2> QED
    BY <1>2, <1>8, <2>1, NoneIs
<1> QED
  BY <1>8, <1>9

(* The same, for several steps one after the other. *)
LEMMA RequestsKept ==
    ASSUME NEW e, NEW f, NEW g, SameRequests(e, f), SameRequests(f, g)
    PROVE  SameRequests(e, g)
BY DEF SameRequests

LEMMA BatchKept ==
    ASSUME NEW e, NEW f, f.batch = e.batch
    PROVE  SameRequests(e, f)
BY DEF SameRequests

-----------------------------------------------------------------------------
(* ORDERS                                                                  *)

(* A set as a sequence: each of its elements is there. *)
LEMMA SetToSeqIs ==
    ASSUME NEW S, IsFiniteSet(S)
    PROVE  /\ SetToSeq(S) \in Seq(S) /\ SetToSeq(S) \in [1 .. Cardinality(S) -> S]
           /\ \A x \in S : \E i \in 1 .. Cardinality(S) : SetToSeq(S)[i] = x
           /\ \A i, j \in 1 .. Cardinality(S) : SetToSeq(S)[i] = SetToSeq(S)[j] => i = j
           /\ Cardinality(S) \in Nat
<1> DEFINE n == Cardinality(S)
           f == SetToSeq(S)
<1>1. n \in Nat /\ ExistsBijection(1..n, S)
  BY FS_CardinalityType
<1> HIDE DEF n
<1>2. PICK g \in [1..n -> S] : IsInjective(g)
  BY <1>1 DEF ExistsBijection, Bijection, Injection
<1>3. f \in [1..n -> S] /\ IsInjective(f)
  BY <1>2 DEF SetToSeq, n
<1> HIDE DEF f
<1>4. f \in Injection(1..n, S)
  BY <1>3 DEF IsInjective, Injection
<1>5. Cardinality(1..n) = n
  <2>1. Cardinality(1..n) = IF 1 > n THEN 0 ELSE n - 1 + 1
    BY <1>1, FS_Interval
  <2> QED
    BY <1>1, <2>1
<1>6. f \in Surjection(1..n, S)
  BY <1>4, <1>5, FS_Injection DEF n
<1>7. \A x \in S : \E i \in 1..n : f[i] = x
  BY <1>6 DEF Surjection
<1>8. f \in Seq(S)
  BY <1>1, <1>3
<1>9. \A i, j \in 1 .. n : f[i] = f[j] => i = j
  BY <1>3 DEF IsInjective
<1> QED
  BY <1>1, <1>3, <1>7, <1>8, <1>9 DEF f, n

LEMMA PlaceIs == \A t \in Tracks : Place(t) \in Nat
<1> TAKE t \in Tracks
<1>1. \E i \in 1 .. Cardinality(Tracks) : SetToSeq(Tracks)[i] = t
  BY SetToSeqIs, EngineAssumption
<1>2. Cardinality(Tracks) \in Nat
  BY SetToSeqIs, EngineAssumption
<1> QED
  BY <1>1, <1>2 DEF Place

(* Of some tracks, one comes first. *)
LEMMA FirstIs ==
    ASSUME NEW S \in SUBSET Tracks, S # {}
    PROVE  \E t \in S : \A u \in S : Place(t) <= Place(u)
<1> DEFINE R == OpToRel(<, Nat)
           places == {Place(t) : t \in S}
<1>1. IsWellFoundedOn(R, Nat)
  BY NatLessThanWellFounded
<1>2. \A x, y \in Nat : y < x => <<y, x>> \in R
  BY DEF OpToRel
<1>3. places \subseteq Nat /\ places # {}
  BY PlaceIs
<1> HIDE DEF R, places
<1>4. PICK x \in places : \A y \in places : ~(<<y, x>> \in R)
  BY <1>1, <1>3, WFMin
<1>5. \A y \in places : x <= y
  <2>1. \A y \in places : ~(y < x)
    BY <1>2, <1>3, <1>4
  <2> QED
    BY <1>3, <2>1
<1> QED
  BY <1>4, <1>5 DEF places

-----------------------------------------------------------------------------
(* THE RUNTIME                                                             *)

(* Everything but the entries of the tracks stays. *)
SameElse(r, f) == f = [r EXCEPT !.pending = f.pending]

(* An entry is what it was, but for its status. *)
SameEntry(r, f, t) ==
    Pending(r, t) /\ f.pending[t] = [r.pending[t] EXCEPT !.status = f.pending[t].status]

LEMMA EntryIs ==
    ASSUME NEW r, Sound(r), NEW t \in Tracks, Pending(r, t)
    PROVE  /\ r.pending[t] \in Transitions(Ids)
           /\ EntrySound(r, t)
           /\ Running(r)
BY DEF Sound, Performances, Pending

LEMMA StatusSet ==
    ASSUME NEW x \in Transitions(Ids), NEW status \in {"pending", "scheduled"}
    PROVE  LET y == [x EXCEPT !.status = status]
           IN  /\ y \in Transitions(Ids) /\ y.status = status
               /\ y.id = x.id /\ y.kind = x.kind /\ y.clip = x.clip /\ y.requested = x.requested
               /\ y.target = x.target /\ y.group = x.group
BY DEF Transitions

(* A change of the entries alone that keeps them, drops them or changes    *)
(* the status of whole scenes.                                             *)
LEMMA EntriesSound ==
    ASSUME NEW r, Sound(r), NEW f, SameElse(r, f),
           f.pending \in [Tracks -> Transitions(Ids) \cup {None}],
           \A t \in Tracks : Pending(f, t) => SameEntry(r, f, t),
           \A t, u \in Tracks : Pending(f, t) /\ Pending(f, u) /\ r.pending[t].group # None
               /\ r.pending[t].group = r.pending[u].group
               /\ r.pending[t].status = r.pending[u].status
             => f.pending[t].status = f.pending[u].status
    PROVE  /\ Sound(f)
           /\ \A g \in Ids : Members(f, g) \subseteq Members(r, g)
           /\ f.ids = r.ids /\ f.phase = r.phase /\ f.beat = r.beat /\ f.stop = r.stop
           /\ f.clip = r.clip
           /\ \A t \in Tracks : Pending(f, t) =>
                 /\ f.pending[t].id = r.pending[t].id /\ f.pending[t].kind = r.pending[t].kind
                 /\ f.pending[t].clip = r.pending[t].clip
                 /\ f.pending[t].target = r.pending[t].target
                 /\ f.pending[t].group = r.pending[t].group
<1>1. r \in Performances(Ids)
  BY DEF Sound
<1>2. /\ f.ids = r.ids /\ f.phase = r.phase /\ f.beat = r.beat /\ f.stop = r.stop
      /\ f.clip = r.clip
  BY <1>1 DEF SameElse, Performances
<1>3. f \in Performances(Ids)
  BY <1>1 DEF SameElse, Performances
<1>4. \A t \in Tracks : Pending(f, t) =>
         /\ f.pending[t].id = r.pending[t].id /\ f.pending[t].kind = r.pending[t].kind
         /\ f.pending[t].clip = r.pending[t].clip
         /\ f.pending[t].target = r.pending[t].target
         /\ f.pending[t].group = r.pending[t].group
  <2> TAKE t \in Tracks
  <2> HAVE Pending(f, t)
  <2>1. Pending(r, t) /\ r.pending[t] \in Transitions(Ids)
    BY EntryIs DEF SameEntry
  <2>2. f.pending[t] \in Transitions(Ids)
    BY DEF Pending
  <2>3. f.pending[t].status \in {"pending", "scheduled"}
    BY <2>2 DEF Transitions
  <2>4. f.pending[t] = [r.pending[t] EXCEPT !.status = f.pending[t].status]
    BY DEF SameEntry
  <2> DEFINE status == f.pending[t].status
             y == [r.pending[t] EXCEPT !.status = status]
  <2> HIDE DEF status
  <2>5. /\ y.id = r.pending[t].id /\ y.kind = r.pending[t].kind /\ y.clip = r.pending[t].clip
        /\ y.target = r.pending[t].target /\ y.group = r.pending[t].group
    BY <2>1, <2>3, StatusSet DEF status
  <2> QED
    BY <2>4, <2>5 DEF status
<1>5. \A t \in Tracks : Pending(f, t) => Pending(r, t)
  BY DEF SameEntry
<1>6. \A g \in Ids : Members(f, g) \subseteq Members(r, g)
  BY <1>4, <1>5 DEF Members, Pending
<1>7. \A t \in Tracks : Pending(f, t) => EntrySound(f, t)
  BY <1>2, <1>4, <1>5 DEF Sound, EntrySound
<1>8. Together(f)
  <2> SUFFICES ASSUME NEW t \in Tracks, NEW u \in Tracks, Pending(f, t), Pending(f, u),
                      f.pending[t].group = f.pending[u].group, f.pending[t].group # None
               PROVE  /\ f.pending[u].status = f.pending[t].status
                      /\ f.pending[u].target = f.pending[t].target
    BY DEF Together
  <2>1. /\ Pending(r, t) /\ Pending(r, u) /\ r.pending[t].group = r.pending[u].group
        /\ r.pending[t].group # None
    BY <1>4, <1>5
  <2>2. r.pending[u].status = r.pending[t].status /\ r.pending[u].target = r.pending[t].target
    BY <2>1 DEF Sound, Together
  <2>3. f.pending[t].status = f.pending[u].status
    BY <2>1, <2>2
  <2> QED
    BY <1>4, <2>2, <2>3
<1>9. ~Running(f) => \A t \in Tracks : f.clip[t] = None /\ f.pending[t] = None
  BY <1>2, <1>5 DEF Sound, Running, Pending
<1>10. f.phase = "stopping" <=> f.stop # None
  BY <1>2 DEF Sound
<1>11. Sound(f)
  BY <1>3, <1>7, <1>8, <1>9, <1>10 DEF Sound
<1> QED
  BY <1>2, <1>4, <1>6, <1>11

(* Dropping some of them. *)
LEMMA WithdrawnIs ==
    ASSUME NEW r, Sound(r), NEW tracks
    PROVE  LET f == Withdrawn(r, tracks)
           IN  /\ Sound(f) /\ SameElse(r, f)
               /\ \A t \in Tracks : f.pending[t] = IF t \in tracks THEN None ELSE r.pending[t]
               /\ \A g \in Ids : Members(f, g) \subseteq Members(r, g)
               /\ f.ids = r.ids /\ f.phase = r.phase /\ f.beat = r.beat /\ f.stop = r.stop
               /\ f.clip = r.clip
<1> DEFINE f == Withdrawn(r, tracks)
<1>1. r \in Performances(Ids)
  BY DEF Sound
<1>2. /\ SameElse(r, f)
      /\ f.pending = [t \in Tracks |-> IF t \in tracks THEN None ELSE r.pending[t]]
  BY <1>1 DEF Withdrawn, SameElse, Performances
<1> HIDE DEF f
<1>3. f.pending \in [Tracks -> Transitions(Ids) \cup {None}]
  BY <1>1, <1>2 DEF Performances
<1>4. \A t \in Tracks : Pending(f, t) => SameEntry(r, f, t) /\ f.pending[t] = r.pending[t]
  <2> TAKE t \in Tracks
  <2> HAVE Pending(f, t)
  <2>1. f.pending[t] = r.pending[t] /\ Pending(r, t)
    BY <1>2 DEF Pending
  <2>2. r.pending[t] = [r.pending[t] EXCEPT !.status = r.pending[t].status]
    BY <2>1, EntryIs DEF Transitions
  <2> QED
    BY <2>1, <2>2 DEF SameEntry
<1>5. \A t, u \in Tracks : Pending(f, t) /\ Pending(f, u) /\ r.pending[t].group # None
               /\ r.pending[t].group = r.pending[u].group
               /\ r.pending[t].status = r.pending[u].status
             => f.pending[t].status = f.pending[u].status
  BY <1>4
<1>6. /\ Sound(f)
      /\ \A g \in Ids : Members(f, g) \subseteq Members(r, g)
      /\ f.ids = r.ids /\ f.phase = r.phase /\ f.beat = r.beat /\ f.stop = r.stop
      /\ f.clip = r.clip
  BY <1>2, <1>3, <1>4, <1>5, EntriesSound
<1> QED
  BY <1>2, <1>6 DEF f

(* A set of tracks with whole scenes. *)
Whole(r, tracks) ==
    \A t \in tracks, u \in Tracks :
        Pending(r, u) /\ r.pending[t].group # None /\ r.pending[u].group = r.pending[t].group
        => u \in tracks

(* Changing the status of some of them, of scenes as a whole. *)
LEMMA WithStatusIs ==
    ASSUME NEW r, Sound(r), NEW tracks \in SUBSET Tracks, \A t \in tracks : Pending(r, t),
           Whole(r, tracks), NEW status \in {"pending", "scheduled"}
    PROVE  LET f == WithStatus(r, tracks, status)
           IN  /\ Sound(f) /\ SameElse(r, f)
               /\ \A t \in tracks : f.pending[t] = [r.pending[t] EXCEPT !.status = status]
               /\ \A t \in Tracks : t \notin tracks => f.pending[t] = r.pending[t]
               /\ \A t \in Tracks : Pending(f, t) <=> Pending(r, t)
               /\ \A t \in tracks : f.pending[t].status = status
               /\ \A t \in Tracks : Pending(f, t) =>
                     /\ f.pending[t].id = r.pending[t].id /\ f.pending[t].kind = r.pending[t].kind
                     /\ f.pending[t].clip = r.pending[t].clip
                     /\ f.pending[t].target = r.pending[t].target
                     /\ f.pending[t].group = r.pending[t].group
               /\ \A g \in Ids : Members(f, g) \subseteq Members(r, g)
               /\ f.ids = r.ids /\ f.phase = r.phase /\ f.beat = r.beat /\ f.stop = r.stop
               /\ f.clip = r.clip
<1> DEFINE f == WithStatus(r, tracks, status)
<1>1. r \in Performances(Ids)
  BY DEF Sound
<1>2. /\ SameElse(r, f)
      /\ f.pending = [t \in Tracks |-> IF t \in tracks THEN [r.pending[t] EXCEPT !.status = status]
                                       ELSE r.pending[t]]
  BY <1>1 DEF WithStatus, SameElse, Performances
<1> HIDE DEF f
<1>3. \A t \in tracks : /\ f.pending[t] \in Transitions(Ids) /\ f.pending[t].status = status
                        /\ f.pending[t] = [r.pending[t] EXCEPT !.status = f.pending[t].status]
  <2> TAKE t \in tracks
  <2>1. r.pending[t] \in Transitions(Ids)
    BY EntryIs
  <2>2. f.pending[t] = [r.pending[t] EXCEPT !.status = status]
    BY <1>2
  <2> DEFINE y == [r.pending[t] EXCEPT !.status = status]
  <2>3. y \in Transitions(Ids) /\ y.status = status
    BY <2>1, StatusSet
  <2> QED
    BY <2>2, <2>3
<1>4. f.pending \in [Tracks -> Transitions(Ids) \cup {None}]
  BY <1>1, <1>2, <1>3 DEF Performances
<1>5. \A t \in Tracks : Pending(f, t) => SameEntry(r, f, t)
  <2> TAKE t \in Tracks
  <2> HAVE Pending(f, t)
  <2>1. CASE t \in tracks
    BY <1>3, <2>1 DEF SameEntry
  <2>2. CASE t \notin tracks
    <3>1. f.pending[t] = r.pending[t] /\ Pending(r, t)
      BY <1>2, <2>2 DEF Pending
    <3>2. r.pending[t] = [r.pending[t] EXCEPT !.status = r.pending[t].status]
      BY <3>1, EntryIs DEF Transitions
    <3> QED
      BY <3>1, <3>2 DEF SameEntry
  <2> QED
    BY <2>1, <2>2
<1>6. \A t, u \in Tracks : Pending(f, t) /\ Pending(f, u) /\ r.pending[t].group # None
               /\ r.pending[t].group = r.pending[u].group
               /\ r.pending[t].status = r.pending[u].status
             => f.pending[t].status = f.pending[u].status
  <2> SUFFICES ASSUME NEW t \in Tracks, NEW u \in Tracks, Pending(f, t), Pending(f, u),
                      r.pending[t].group # None, r.pending[t].group = r.pending[u].group,
                      r.pending[t].status = r.pending[u].status
               PROVE  f.pending[t].status = f.pending[u].status
    OBVIOUS
  <2>1. Pending(r, t) /\ Pending(r, u)
    BY <1>5 DEF SameEntry
  <2>2. t \in tracks <=> u \in tracks
    BY <2>1 DEF Whole
  <2> QED
    BY <1>2, <1>3, <2>2
<1>7. /\ Sound(f)
      /\ \A g \in Ids : Members(f, g) \subseteq Members(r, g)
      /\ f.ids = r.ids /\ f.phase = r.phase /\ f.beat = r.beat /\ f.stop = r.stop
      /\ f.clip = r.clip
  BY <1>2, <1>4, <1>5, <1>6, EntriesSound
<1>9. \A t \in Tracks : Pending(f, t) =>
            /\ f.pending[t].id = r.pending[t].id /\ f.pending[t].kind = r.pending[t].kind
            /\ f.pending[t].clip = r.pending[t].clip
            /\ f.pending[t].target = r.pending[t].target
            /\ f.pending[t].group = r.pending[t].group
  BY <1>2, <1>4, <1>5, <1>6, EntriesSound
<1>8. \A t \in Tracks : Pending(f, t) <=> Pending(r, t)
  <2> TAKE t \in Tracks
  <2>1. t \in tracks => Pending(f, t)
    BY <1>3, NoneIs DEF Pending
  <2>2. t \notin tracks => f.pending[t] = r.pending[t]
    BY <1>2
  <2> QED
    BY <2>1, <2>2 DEF Pending
<1> QED
  BY <1>2, <1>3, <1>7, <1>8, <1>9 DEF f

(* What changes together. *)
LEMMA UnitIs ==
    ASSUME NEW r, Sound(r), NEW t \in Tracks, Pending(r, t)
    PROVE  /\ t \in Unit(r, t) /\ Unit(r, t) \subseteq Tracks
           /\ \A u \in Unit(r, t) : /\ Pending(r, u) /\ r.pending[u].status = r.pending[t].status
                                    /\ r.pending[u].group = r.pending[t].group
           /\ Whole(r, Unit(r, t))
<1>1. CASE r.pending[t].group = None
  <2>1. Unit(r, t) = {t}
    BY <1>1 DEF Unit
  <2> QED
    BY <1>1, <2>1 DEF Whole
<1>2. CASE r.pending[t].group # None
  <2>1. Unit(r, t) = Members(r, r.pending[t].group)
    BY <1>2 DEF Unit
  <2>2. \A u \in Unit(r, t) : u \in Tracks /\ Pending(r, u) /\ r.pending[u].group = r.pending[t].group
    BY <2>1 DEF Members, Pending
  <2>3. \A u \in Unit(r, t) : r.pending[u].status = r.pending[t].status
    BY <1>2, <2>2 DEF Sound, Together
  <2>4. t \in Unit(r, t)
    BY <2>1 DEF Members, Pending
  <2>5. Whole(r, Unit(r, t))
    BY <2>1, <2>2 DEF Whole, Members, Pending
  <2> QED
    BY <2>2, <2>3, <2>4, <2>5
<1> QED
  BY <1>1, <1>2

LEMMA ScheduledIs ==
    ASSUME NEW r, Sound(r)
    PROVE  /\ ScheduledOn(r) \subseteq Tracks
           /\ \A t \in Tracks : t \in ScheduledOn(r) <=> Pending(r, t) /\ r.pending[t].status = "scheduled"
           /\ \A t \in Tracks : Pending(r, t) /\ t \notin ScheduledOn(r) => r.pending[t].status = "pending"
<1>1. \A t \in Tracks : t \in ScheduledOn(r) <=> Pending(r, t) /\ r.pending[t].status = "scheduled"
  BY DEF ScheduledOn, Pending
<1>2. \A t \in Tracks : Pending(r, t) => r.pending[t].status \in {"pending", "scheduled"}
  BY EntryIs DEF Transitions
<1> QED
  BY <1>1, <1>2 DEF ScheduledOn

-----------------------------------------------------------------------------
(* THE RECONCILIATION                                                      *)

(* The state of both sides, as the controller passes it on. *)
Sides(p) ==
    p \in [engine : SessionEngines, runtime : Performances(Ids), refreshes : Nat,
           done : {"no", "reset", "thrown"}]

(* What is scheduled afterwards was scheduled before. *)
Kept(r, f) == \A t \in ScheduledOn(f) : t \in ScheduledOn(r) /\ f.pending[t].id = r.pending[t].id

(* A step of the reconciliation, before it decides about what plays. *)
Repaired(p, q) ==
    /\ Sides(q) /\ q.refreshes = p.refreshes /\ q.done = p.done
    /\ SameTransport(p.engine, q.engine) /\ q.engine.batch = p.engine.batch
    /\ Fewer(p.engine, q.engine) /\ SameHeard(p.engine, q.engine)
    /\ Sound(q.runtime) /\ SameElse(p.runtime, q.runtime) /\ Kept(p.runtime, q.runtime)
    /\ \A g \in Ids : Members(q.runtime, g) \subseteq Members(p.runtime, g)
    /\ Weakly(p.engine, p.runtime) => Weakly(q.engine, q.runtime)

LEMMA RequeueIs ==
    ASSUME NEW p, Sides(p), Sound(p.runtime), NEW s
    PROVE  LET q == RequeueEdited(p, s)
           IN  Repaired(p, q) /\ (Weakly(p.engine, p.runtime) => Wanted(s, q.engine, q.runtime))
<1> DEFINE r == p.runtime
           e == p.engine
           units == {Unit(r, t) : t \in ScheduledOn(r)}
           edited == {unit \in units : \E t \in unit : ~Owned(p, s, t)}
           again == UNION {unit \in edited : Requeueable(r, unit)}
           gone == UNION {unit \in edited : ~Requeueable(r, unit)}
           all == again \cup gone
           r1 == Requeued(r, again)
           r2 == Withdrawn(r1, gone)
           e2 == CancelledAll(e, all)
           q == RequeueEdited(p, s)
<1>1. q = [p EXCEPT !.engine = e2, !.runtime = r2]
  <2>1. RequeueEdited(p, s) = [p EXCEPT !.engine = CancelledAll(@, all), !.runtime = Withdrawn(Requeued(@, again), gone)]
    BY DEF RequeueEdited
  <2> QED
    BY <2>1 DEF Sides
<1>2. e \in SessionEngines /\ Sound(r)
  BY DEF Sides
<1>3. \A unit \in units : /\ unit \subseteq ScheduledOn(r) /\ Whole(r, unit)
  <2> SUFFICES ASSUME NEW t \in ScheduledOn(r)
               PROVE  Unit(r, t) \subseteq ScheduledOn(r) /\ Whole(r, Unit(r, t))
    OBVIOUS
  <2>1. t \in Tracks /\ Pending(r, t) /\ r.pending[t].status = "scheduled"
    BY <1>2, ScheduledIs
  <2> QED
    BY <1>2, <2>1, UnitIs, ScheduledIs
<1>4. again \subseteq ScheduledOn(r) /\ gone \subseteq ScheduledOn(r) /\ Whole(r, again)
  <2>1. again \subseteq ScheduledOn(r) /\ gone \subseteq ScheduledOn(r)
    BY <1>3
  <2>2. Whole(r, again)
    <3> SUFFICES ASSUME NEW t \in again, NEW u \in Tracks, Pending(r, u), r.pending[t].group # None,
                        r.pending[u].group = r.pending[t].group
                 PROVE  u \in again
      BY DEF Whole
    <3>1. PICK unit \in edited : Requeueable(r, unit) /\ t \in unit
      OBVIOUS
    <3>2. u \in unit
      BY <1>3, <3>1 DEF Whole
    <3> QED
      BY <3>1, <3>2
  <2> QED
    BY <2>1, <2>2
<1>5. \A t \in ScheduledOn(r) : t \notin all => Owned(p, s, t)
  <2> TAKE t \in ScheduledOn(r)
  <2>1. t \in Unit(r, t)
    BY <1>2, UnitIs, ScheduledIs
  <2> SUFFICES ASSUME ~Owned(p, s, t) PROVE t \in all
    OBVIOUS
  <2>2. Unit(r, t) \in edited
    BY <2>1
  <2> QED
    BY <2>1, <2>2
<1> HIDE DEF again, gone
<1>6. /\ Sound(r1) /\ SameElse(r, r1)
      /\ \A t \in Tracks : t \notin again => r1.pending[t] = r.pending[t]
      /\ \A t \in again : r1.pending[t].status = "pending"
      /\ \A g \in Ids : Members(r1, g) \subseteq Members(r, g)
      /\ r1.ids = r.ids /\ r1.phase = r.phase /\ r1.beat = r.beat /\ r1.stop = r.stop
      /\ r1.clip = r.clip
  <2>1. again \in SUBSET Tracks /\ \A t \in again : Pending(r, t)
    BY <1>2, <1>4, ScheduledIs
  <2>2. r1 = WithStatus(r, again, "pending")
    BY DEF Requeued
  <2> DEFINE w == WithStatus(r, again, "pending")
  <2> HIDE DEF r
  <2>4. \A t \in again : w.pending[t].status = "pending"
    BY <1>2, <1>4, <2>1, WithStatusIs
  <2>5. \A t \in Tracks : t \notin again => w.pending[t] = r.pending[t]
    BY <1>2, <1>4, <2>1, WithStatusIs
  <2>3. /\ Sound(w) /\ SameElse(r, w)
        /\ \A g \in Ids : Members(w, g) \subseteq Members(r, g)
        /\ w.ids = r.ids /\ w.phase = r.phase /\ w.beat = r.beat /\ w.stop = r.stop
        /\ w.clip = r.clip
    BY <1>2, <1>4, <2>1, WithStatusIs
  <2> QED
    BY <2>2, <2>3, <2>4, <2>5
<1> HIDE DEF r1
<1>7. /\ Sound(r2) /\ SameElse(r1, r2)
      /\ \A t \in Tracks : r2.pending[t] = IF t \in gone THEN None ELSE r1.pending[t]
      /\ \A g \in Ids : Members(r2, g) \subseteq Members(r1, g)
      /\ r2.ids = r1.ids /\ r2.phase = r1.phase /\ r2.beat = r1.beat /\ r2.stop = r1.stop
      /\ r2.clip = r1.clip
  BY <1>6, WithdrawnIs
<1> HIDE DEF r2
<1>8. /\ e2 \in SessionEngines /\ SameTransport(e, e2) /\ e2.batch = e.batch /\ SameHeard(e, e2)
      /\ \A t \in Tracks : e2.pending[t] = IF t \in all THEN None ELSE e.pending[t]
  <2>1. all \in SUBSET Tracks
    BY <1>2, <1>4, ScheduledIs
  <2> QED
    BY <1>2, <2>1, CancelledAllIs
<1> HIDE DEF e2
<1>9. SameElse(r, r2)
  BY <1>2, <1>6, <1>7 DEF SameElse, Sound, Performances
<1>10. /\ q.engine = e2 /\ q.runtime = r2 /\ q.refreshes = p.refreshes /\ q.done = p.done
       /\ Sides(q)
  <2>1. r2 \in Performances(Ids)
    BY <1>7 DEF Sound
  <2> QED
    BY <1>1, <1>8, <2>1 DEF Sides
<1>11. \A t \in Tracks : t \notin all => r2.pending[t] = r.pending[t]
  BY <1>6, <1>7
<1>12. \A t \in all : t \notin ScheduledOn(r2)
  <2> TAKE t \in all
  <2>1. t \in Tracks
    BY <1>2, <1>4, ScheduledIs
  <2>2. r2.pending[t] = None \/ (t \in again /\ r2.pending[t] = r1.pending[t])
    BY <1>7, <2>1
  <2>3. r2.pending[t] # None => r2.pending[t].status = "pending"
    BY <1>6, <2>2
  <2> QED
    BY <2>3, <1>7, ScheduledIs, <2>1 DEF Pending
<1>13. \A t \in ScheduledOn(r2) :
          t \in ScheduledOn(r) \ all /\ e2.pending[t] = e.pending[t] /\ r2.pending[t] = r.pending[t]
  <2> TAKE t \in ScheduledOn(r2)
  <2>1. t \in Tracks /\ t \notin all
    BY <1>7, <1>12, ScheduledIs
  <2>2. e2.pending[t] = e.pending[t] /\ r2.pending[t] = r.pending[t]
    BY <1>8, <1>11, <2>1
  <2> QED
    BY <2>1, <2>2 DEF ScheduledOn
<1>14. ASSUME Weakly(e, r) PROVE Weakly(e2, r2)
  <2>1. \A t \in ScheduledOn(r2) : e2.pending[t] # None /\ SameTransition(e2, r2, t)
    BY <1>13, <1>14 DEF Weakly, SameTransition
  <2>2. \A t \in Tracks \ ScheduledOn(r2) :
          e2.pending[t] # None /\ Pending(r2, t) => e2.pending[t].request.id # r2.pending[t].id
    <3> TAKE t \in Tracks \ ScheduledOn(r2)
    <3> HAVE e2.pending[t] # None /\ Pending(r2, t)
    <3>1. t \notin all /\ e2.pending[t] = e.pending[t] /\ r2.pending[t] = r.pending[t]
      BY <1>8, <1>11
    <3>2. t \notin ScheduledOn(r)
      BY <3>1 DEF ScheduledOn
    <3> QED
      BY <1>14, <3>1, <3>2 DEF Weakly, Pending
  <2>3. StopsAgree(e2, r2) /\ e2.running /\ e2.phase = "running"
    BY <1>6, <1>7, <1>8, <1>14 DEF Weakly, StopsAgree, SameTransport
  <2> QED
    BY <2>1, <2>2, <2>3 DEF Weakly
<1>15. Wanted(s, e2, r2)
  <2>1. \A t \in ScheduledOn(r2) : e.pending[t].request.material = MaterialOf(s, t, r.pending[t].clip)
    BY <1>5, <1>13 DEF Owned
  <2> QED
    BY <1>13, <2>1 DEF Wanted
<1>16. Fewer(e, e2)
  BY <1>8 DEF Fewer
<1>17. \A g \in Ids : Members(r2, g) \subseteq Members(r, g)
  BY <1>6, <1>7
<1>18. Kept(r, r2)
  BY <1>13 DEF Kept
<1> QED
  BY <1>7, <1>8, <1>9, <1>10, <1>14, <1>15, <1>16, <1>17, <1>18 DEF Repaired, q

(* Orphans: afterwards the engine has what the runtime has scheduled. *)
LEMMA OrphansIs ==
    ASSUME NEW p, Sides(p), Sound(p.runtime)
    PROVE  LET q == CancelOrphans(p)
           IN  /\ Repaired(p, q) /\ q.runtime = p.runtime
               /\ Weakly(p.engine, p.runtime) =>
                     \A t \in Tracks : q.engine.pending[t] # None => t \in ScheduledOn(q.runtime)
               /\ \A s : Weakly(p.engine, p.runtime) /\ Wanted(s, p.engine, p.runtime)
                            => Wanted(s, q.engine, q.runtime)
<1> DEFINE r == p.runtime
           e == p.engine
           Known(t) == r.pending[t] # None /\ r.pending[t].id = e.pending[t].request.id
           orphans == {t \in Tracks : e.pending[t] # None /\ ~Known(t)}
           e2 == CancelledAll(e, orphans)
           q == CancelOrphans(p)
<1>1. q = [p EXCEPT !.engine = e2]
  <2>1. CancelOrphans(p) = [p EXCEPT !.engine = CancelledAll(@, orphans)]
    BY DEF CancelOrphans
  <2> QED
    BY <2>1 DEF Sides
<1>2. /\ e2 \in SessionEngines /\ SameTransport(e, e2) /\ e2.batch = e.batch /\ SameHeard(e, e2)
      /\ \A t \in Tracks : e2.pending[t] = IF t \in orphans THEN None ELSE e.pending[t]
  BY CancelledAllIs DEF Sides
<1> HIDE DEF e2
<1>3. q.engine = e2 /\ q.runtime = r /\ q.refreshes = p.refreshes /\ q.done = p.done /\ Sides(q)
  BY <1>1, <1>2 DEF Sides
<1>4. Fewer(e, e2)
  BY <1>2 DEF Fewer
<1>5. SameElse(r, r)
  BY DEF SameElse, Sound, Performances
<1>6. ASSUME Weakly(e, r)
      PROVE  /\ Weakly(e2, r)
             /\ \A t \in Tracks : e2.pending[t] # None => t \in ScheduledOn(r)
             /\ \A t \in ScheduledOn(r) : e2.pending[t] = e.pending[t]
  <2>1. \A t \in ScheduledOn(r) : t \in Tracks /\ Pending(r, t) /\ e.pending[t] # None
            /\ SameTransition(e, r, t)
    BY <1>6, ScheduledIs DEF Weakly
  <2>2. \A t \in ScheduledOn(r) : e2.pending[t] = e.pending[t]
    BY <1>2, <2>1 DEF SameTransition, Pending
  <2>3. \A t \in Tracks : e2.pending[t] # None => t \in ScheduledOn(r)
    BY <1>2, <1>6 DEF Weakly, Pending
  <2>4. StopsAgree(e2, r) /\ e2.running /\ e2.phase = "running"
    BY <1>2, <1>6 DEF Weakly, StopsAgree, SameTransport
  <2> QED
    BY <2>1, <2>2, <2>3, <2>4 DEF Weakly, SameTransition
<1>7. ASSUME NEW s, Weakly(e, r), Wanted(s, e, r) PROVE Wanted(s, e2, r)
  BY <1>6, <1>7 DEF Wanted
<1> QED
  BY <1>2, <1>3, <1>4, <1>5, <1>6, <1>7 DEF Repaired, Kept, q

(***************************************************************************)
(* Refreshing.                                                             *)
(***************************************************************************)
LEMMA OutdatedIs ==
    ASSUME NEW p, Sides(p), NEW s \in Songs
    PROVE  /\ Outdated(p, s) \subseteq Tracks /\ IsFiniteSet(Outdated(p, s))
           /\ \A t \in Outdated(p, s) :
                 /\ p.runtime.clip[t] \in Clips
                 /\ p.engine.active[t] \in SessionSources /\ p.runtime.pending[t] = None
           /\ \A t \in Tracks :
                 /\ IsFiniteSet(Before(p, s, t)) /\ Cardinality(Before(p, s, t)) \in Nat
                 /\ Before(p, s, t) \subseteq Outdated(p, s) /\ t \notin Before(p, s, t)
                 /\ \A u \in Before(p, s, t) : Before(p, s, u) \subseteq Before(p, s, t)
<1>1. Outdated(p, s) \subseteq Tracks
  BY DEF Outdated
<1>2. IsFiniteSet(Outdated(p, s))
  BY <1>1, FS_Subset, EngineAssumption
<1>3. \A t \in Outdated(p, s) :
                 /\ p.runtime.clip[t] \in Clips
                 /\ p.engine.active[t] \in SessionSources /\ p.runtime.pending[t] = None
  <2> TAKE t \in Outdated(p, s)
  <2>1. t \in Tracks /\ p.engine.active[t] # None /\ p.runtime.pending[t] = None
        /\ MaterialOf(s, t, p.runtime.clip[t]) # None
    BY DEF Outdated, Playing
  <2>2. p.runtime.clip[t] # None
    BY <2>1 DEF MaterialOf
  <2>3. p.runtime.clip \in [Tracks -> Clips \cup {None}]
        /\ p.engine.active \in [Tracks -> SessionSources \cup {None}]
    BY DEF Sides, Performances, SessionEngines
  <2> QED
    BY <2>1, <2>2, <2>3
<1>4. ASSUME NEW t \in Tracks
      PROVE  /\ IsFiniteSet(Before(p, s, t)) /\ Cardinality(Before(p, s, t)) \in Nat
             /\ Before(p, s, t) \subseteq Outdated(p, s) /\ t \notin Before(p, s, t)
             /\ \A u \in Before(p, s, t) : Before(p, s, u) \subseteq Before(p, s, t)
  <2>1. Before(p, s, t) \subseteq Outdated(p, s)
    BY DEF Before
  <2>2. t \notin Before(p, s, t)
    BY PlaceIs DEF Before
  <2>3. IsFiniteSet(Before(p, s, t)) /\ Cardinality(Before(p, s, t)) \in Nat
    BY <1>2, <2>1, FS_Subset, FS_CardinalityType
  <2>4. \A u, v \in Outdated(p, s) : Place(u) < Place(t) /\ Place(v) < Place(u) => Place(v) < Place(t)
    BY <1>1, PlaceIs
  <2>5. \A u \in Before(p, s, t) : Before(p, s, u) \subseteq Before(p, s, t)
    BY <2>4 DEF Before
  <2> QED
    BY <2>1, <2>2, <2>3, <2>5
<1> QED
  BY <1>1, <1>2, <1>3, <1>4

LEMMA RefreshKind ==
    ASSUME NEW p, NEW s, NEW t
    PROVE  Refresh(p, s, t).kind = "launch"
BY DEF Refresh, Transition

LEMMA RefreshIs ==
    ASSUME NEW p, Sides(p), NEW s \in Songs, NEW t \in Outdated(p, s), ~Lost(p, s, t)
    PROVE  LET x == Refresh(p, s, t)
           IN  /\ x \in Transitions(Ids)
               /\ x.clip # None /\ x.group = None /\ x.status = "pending"
               /\ x.id \in Ids /\ x.id[1] = p.refreshes + Cardinality(Before(p, s, t)) + 1
               /\ x.id[2] = t /\ x.id[3] = "refresh"
               /\ x.requested = p.runtime.beat /\ x.target > p.runtime.beat
               /\ Queued(p.runtime, t, x, TRUE).pending[t] = x
<1> DEFINE x == Refresh(p, s, t)
           r == p.runtime
           start == p.engine.active[t].request.target
           a == r.beat - start
<1>1. t \in Tracks /\ r.clip[t] \in Clips /\ r.pending[t] = None /\ p.engine.active[t] \in SessionSources
      /\ Cardinality(Before(p, s, t)) \in Nat
  BY OutdatedIs
<1>2. r.beat \in Nat /\ start \in Nat /\ p.refreshes \in Nat
  BY <1>1 DEF Sides, Performances, SessionSources, SessionRequests
<1>3. start <= r.beat
  BY <1>2 DEF Lost
<1>4. a \in Nat /\ start + a = r.beat
  BY <1>2, <1>3
<1>5. LoopLength \in Nat \ {0}
  BY PerformanceAssumption
<1> DEFINE ahead == ((a \div LoopLength) + 1) * LoopLength
<1>6. ahead \in Nat /\ ahead > a
  BY <1>4, <1>5, LoopBoundary
<1>7. NextLoop(p.engine.active[t], r.beat) = start + ahead
  BY DEF NextLoop
<1> HIDE DEF ahead, a, start
<1>8. NextLoop(p.engine.active[t], r.beat) \in Nat /\ NextLoop(p.engine.active[t], r.beat) > r.beat
  BY <1>2, <1>4, <1>6, <1>7
<1> DEFINE id == <<p.refreshes + Cardinality(Before(p, s, t)) + 1, t, "refresh">>
<1>9. /\ id \in Ids /\ id[1] = p.refreshes + Cardinality(Before(p, s, t)) + 1
      /\ id[2] = t /\ id[3] = "refresh"
  BY <1>1, <1>2 DEF Ids
<1>10. x = [id |-> id, kind |-> "launch", clip |-> r.clip[t], requested |-> r.beat,
            target |-> NextLoop(p.engine.active[t], r.beat), group |-> None, status |-> "pending"]
  BY DEF Refresh, Transition
<1> HIDE DEF id, x
<1>11. x \in Transitions(Ids)
  BY <1>1, <1>2, <1>8, <1>9, <1>10 DEF Transitions
<1>12. x.clip # None
  BY <1>1, <1>10, NoneIs
<1>13. Queued(r, t, x, TRUE).pending[t] = x
  <2>1. ~Same(r.pending[t], x)
    BY <1>1 DEF Same
  <2>2. Queued(r, t, x, TRUE) = [[r EXCEPT !.ids = @ \cup {x.id}] EXCEPT !.pending[t] = x]
    BY <2>1 DEF Queued
  <2>3. r \in Performances(Ids)
    BY DEF Sides
  <2> QED
    BY <1>1, <2>2, <2>3 DEF Performances
<1>14. /\ x.clip = r.clip[t] /\ x.group = None /\ x.status = "pending"
       /\ x.id = id /\ x.requested = r.beat /\ x.target > r.beat
  BY <1>8, <1>10
<1> QED
  BY <1>9, <1>11, <1>12, <1>13, <1>14 DEF x

(* Some are refreshed, and with each one those that come before it. *)
LEMMA RefreshedIs ==
    ASSUME NEW p, Sides(p), Sound(p.runtime), NEW s \in Songs, NEW tracks \in SUBSET Outdated(p, s),
           \A t \in tracks : ~Lost(p, s, t) /\ Before(p, s, t) \subseteq tracks
    PROVE  LET q == Refreshed(p, s, tracks)
               r == p.runtime
               f == q.runtime
           IN  /\ Sides(q) /\ q.engine = p.engine /\ q.done = p.done /\ Sound(f)
               /\ q.refreshes = p.refreshes + Cardinality(tracks) /\ Cardinality(tracks) \in Nat
               /\ f.phase = r.phase /\ f.beat = r.beat /\ f.stop = r.stop /\ f.clip = r.clip
               /\ \A t \in Tracks :
                     IF t \in tracks THEN Pending(f, t) /\ f.pending[t].status = "pending"
                                          /\ f.pending[t].group = None
                     ELSE f.pending[t] = r.pending[t]
               /\ r.ids \subseteq f.ids
               /\ \A id \in f.ids \ r.ids : id[3] = "refresh"
               /\ RefreshNumbered(r, p.refreshes) => RefreshNumbered(f, q.refreshes)
<1> DEFINE q == Refreshed(p, s, tracks)
           r == p.runtime
           f == q.runtime
           new == {Refresh(p, s, t).id : t \in tracks}
           entries == [t \in Tracks |-> IF t \in tracks THEN Queued(r, t, Refresh(p, s, t), TRUE).pending[t]
                                        ELSE r.pending[t]]
<1>1. r \in Performances(Ids) /\ tracks \subseteq Tracks /\ p.refreshes \in Nat
  BY OutdatedIs DEF Sides
<1>2. IsFiniteSet(tracks) /\ Cardinality(tracks) \in Nat
  BY OutdatedIs, FS_Subset, FS_CardinalityType
<1>3. \A t \in tracks :
         /\ Refresh(p, s, t) \in Transitions(Ids) /\ Refresh(p, s, t).clip # None
         /\ Refresh(p, s, t).group = None /\ Refresh(p, s, t).status = "pending"
         /\ Refresh(p, s, t).id \in Ids /\ Refresh(p, s, t).id[1] = p.refreshes + Cardinality(Before(p, s, t)) + 1
         /\ Refresh(p, s, t).id[2] = t /\ Refresh(p, s, t).id[3] = "refresh"
         /\ Queued(r, t, Refresh(p, s, t), TRUE).pending[t] = Refresh(p, s, t)
  <2> TAKE t \in tracks
  <2>1. t \in Outdated(p, s) /\ ~Lost(p, s, t)
    OBVIOUS
  <2> QED
    BY <2>1, RefreshIs
<1>4. \A t \in Tracks : entries[t] = IF t \in tracks THEN Refresh(p, s, t) ELSE r.pending[t]
  BY <1>3
<1>5. new \subseteq Ids /\ \A id \in new : id[3] = "refresh"
  <2>1. \A t \in tracks : Refresh(p, s, t).id \in Ids /\ Refresh(p, s, t).id[3] = "refresh"
    BY <1>3
  <2> QED
    BY <2>1
<1>6. \A t \in tracks : Refresh(p, s, t).id \in new
  OBVIOUS
<1>7. q = [p EXCEPT !.runtime = [r EXCEPT !.ids = r.ids \cup new, !.pending = entries],
                    !.refreshes = p.refreshes + Cardinality(tracks)]
  BY <1>1 DEF Refreshed, Sides, Performances
<1>8. entries \in [Tracks -> Transitions(Ids) \cup {None}]
  <2>1. \A t \in Tracks : entries[t] \in Transitions(Ids) \cup {None}
    <3> TAKE t \in Tracks
    <3>1. t \in tracks => entries[t] \in Transitions(Ids)
      BY <1>3, <1>4
    <3>2. t \notin tracks => entries[t] \in Transitions(Ids) \cup {None}
      BY <1>1, <1>4 DEF Performances
    <3> QED
      BY <3>1, <3>2
  <2> QED
    BY <2>1
<1>9. \A id \in new : RefreshNumbered(r, p.refreshes) => id[1] <= p.refreshes + Cardinality(tracks)
  <2> SUFFICES ASSUME NEW t \in tracks PROVE Refresh(p, s, t).id[1] <= p.refreshes + Cardinality(tracks)
    OBVIOUS
  <2> DEFINE B == Before(p, s, t)
  <2>1. t \in Tracks /\ B \subseteq tracks /\ t \notin B /\ IsFiniteSet(B) /\ Cardinality(B) \in Nat
    BY <1>1, OutdatedIs
  <2>2. Cardinality(B \cup {t}) = Cardinality(B) + 1
    BY <2>1, FS_AddElement
  <2>3. Cardinality(B \cup {t}) <= Cardinality(tracks)
    BY <1>2, <2>1, FS_Subset
  <2>4. Refresh(p, s, t).id[1] = p.refreshes + Cardinality(B) + 1
    BY <1>3
  <2> QED
    BY <1>1, <1>2, <2>1, <2>2, <2>3, <2>4
<1> HIDE DEF new, entries
<1>10. f = [r EXCEPT !.ids = r.ids \cup new, !.pending = entries]
  BY <1>7 DEF Sides
<1>11. /\ f.phase = r.phase /\ f.beat = r.beat /\ f.stop = r.stop /\ f.clip = r.clip
       /\ f.ids = r.ids \cup new /\ f.pending = entries
  BY <1>1, <1>10 DEF Performances
<1>12. f \in Performances(Ids)
  <2>1. r.ids \cup new \in SUBSET Ids
    BY <1>1, <1>5 DEF Performances
  <2> QED
    BY <1>1, <1>8, <1>10, <2>1 DEF Performances
<1>13. /\ q.engine = p.engine /\ q.done = p.done /\ q.refreshes = p.refreshes + Cardinality(tracks)
       /\ Sides(q)
  <2>1. p.refreshes + Cardinality(tracks) \in Nat
    BY <1>1, <1>2
  <2>2. /\ q.engine = p.engine /\ q.done = p.done /\ q.refreshes = p.refreshes + Cardinality(tracks)
    BY <1>7 DEF Sides
  <2>3. q = [p EXCEPT !.runtime = f, !.refreshes = p.refreshes + Cardinality(tracks)]
    BY <1>7, <1>10
  <2> QED
    BY <1>12, <2>1, <2>2, <2>3 DEF Sides
<1>14. ASSUME NEW t \in Tracks
       PROVE  /\ t \in tracks => /\ f.pending[t] = Refresh(p, s, t) /\ Pending(f, t) /\ f.pending[t].status = "pending"
                                 /\ f.pending[t].group = None
              /\ t \notin tracks => f.pending[t] = r.pending[t]
  <2>1. t \notin tracks => f.pending[t] = r.pending[t]
    BY <1>4, <1>11
  <2>2. t \in tracks => f.pending[t] = Refresh(p, s, t)
    BY <1>4, <1>11
  <2>3. t \in tracks => Pending(f, t)
    BY <1>3, <2>2, NoneIs DEF Pending
  <2>4. t \in tracks => Refresh(p, s, t).status = "pending" /\ Refresh(p, s, t).group = None
    BY <1>3
  <2> QED
    BY <2>1, <2>2, <2>3, <2>4
<1> HIDE DEF q
<1>15. \A t \in Tracks : Pending(f, t) => EntrySound(f, t)
  <2> TAKE t \in Tracks
  <2> HAVE Pending(f, t)
  <2>1. CASE t \in tracks
    <3> DEFINE x == Refresh(p, s, t)
    <3>1. f.pending[t] = x /\ x.id \in f.ids
      BY <1>6, <1>11, <1>14, <2>1
    <3>2. x.id[2] = t /\ x.clip # None /\ x.group = None
      BY <1>3, <2>1
    <3>3. x.kind = "launch"
      BY RefreshKind
    <3> HIDE DEF x
    <3> QED
      BY <3>1, <3>2, <3>3 DEF EntrySound
  <2>2. CASE t \notin tracks
    <3>1. f.pending[t] = r.pending[t]
      BY <1>14, <2>2
    <3>2. Pending(r, t) /\ EntrySound(r, t)
      BY <3>1, EntryIs DEF Pending
    <3> QED
      BY <1>11, <3>1, <3>2 DEF EntrySound
  <2> QED
    BY <2>1, <2>2
<1>16. Together(f)
  <2> SUFFICES ASSUME NEW t \in Tracks, NEW u \in Tracks, Pending(f, t), Pending(f, u),
                      f.pending[t].group = f.pending[u].group, f.pending[t].group # None
               PROVE  /\ f.pending[u].status = f.pending[t].status
                      /\ f.pending[u].target = f.pending[t].target
    BY DEF Together
  <2>1. t \notin tracks /\ u \notin tracks
    BY <1>14
  <2>2. f.pending[t] = r.pending[t] /\ f.pending[u] = r.pending[u]
    BY <1>14, <2>1
  <2> QED
    BY <2>2 DEF Sound, Together, Pending
<1>17. ~Running(f) => \A t \in Tracks : f.clip[t] = None /\ f.pending[t] = None
  <2> SUFFICES ASSUME ~Running(f), NEW t \in Tracks PROVE f.clip[t] = None /\ f.pending[t] = None
    OBVIOUS
  <2>1. r.clip[t] = None /\ r.pending[t] = None
    BY <1>11 DEF Running, Sound
  <2>2. t \notin tracks
    BY <2>1, OutdatedIs, NoneIs
  <2> QED
    BY <1>11, <1>14, <2>1, <2>2
<1>18. Sound(f)
  BY <1>11, <1>12, <1>15, <1>16, <1>17 DEF Sound
<1>19. RefreshNumbered(r, p.refreshes) => RefreshNumbered(f, q.refreshes)
  <2> SUFFICES ASSUME RefreshNumbered(r, p.refreshes), NEW id \in f.ids, id[3] = "refresh"
               PROVE  id[1] <= q.refreshes
    BY DEF RefreshNumbered
  <2>1. CASE id \in new
    BY <1>9, <1>13, <2>1
  <2>2. CASE id \in r.ids
    <3>1. id[1] <= p.refreshes /\ id[1] \in Nat
      BY <1>1, <2>2 DEF RefreshNumbered, Performances, Ids
    <3> QED
      BY <1>1, <1>2, <1>13, <3>1
  <2> QED
    BY <1>11, <2>1, <2>2
<1>20. r.ids \subseteq f.ids /\ \A id \in f.ids \ r.ids : id[3] = "refresh"
  BY <1>5, <1>11
<1> QED
  BY <1>2, <1>11, <1>13, <1>14, <1>18, <1>19, <1>20 DEF q

(* The runtime was given refreshes, and nothing else. *)
Extended(p, q) ==
    LET r == p.runtime
        f == q.runtime
    IN  /\ Sides(q) /\ q.engine = p.engine /\ Sound(f)
        /\ f.phase = r.phase /\ f.beat = r.beat /\ f.stop = r.stop /\ f.clip = r.clip
        /\ \A t \in Tracks :
              \/ f.pending[t] = r.pending[t]
              \/ /\ r.pending[t] = None /\ Pending(f, t)
                 /\ f.pending[t].status = "pending" /\ f.pending[t].group = None
        /\ r.ids \subseteq f.ids
        /\ \A id \in f.ids \ r.ids : id[3] = "refresh"
        /\ RefreshNumbered(r, p.refreshes) => RefreshNumbered(f, q.refreshes)

(* Every loop that plays is the song's, or something is pending for it. *)
Replaced(s, e, f) ==
    \A t \in Tracks :
        e.active[t] # None =>
            /\ f.clip[t] # None
            /\ e.active[t].request.material # s[t][f.clip[t]] => Pending(f, t)

IsReset(p, q) ==
    /\ Sides(q) /\ q.done = "reset" /\ q.runtime = NewPerformance
    /\ q.engine = IF Usable(p.engine) THEN Stopped(p.engine) ELSE p.engine

LEMMA NewIs == NewPerformance \in Performances(Ids) /\ Sound(NewPerformance) /\ ~Running(NewPerformance)
<1>1. NewPerformance \in Performances(Ids)
  BY DEF NewPerformance, Performances
<1>2. \A t \in Tracks : NewPerformance.clip[t] = None /\ NewPerformance.pending[t] = None
  BY DEF NewPerformance
<1>3. NewPerformance.phase = "idle" /\ NewPerformance.stop = None
  BY DEF NewPerformance
<1> HIDE DEF NewPerformance
<1> QED
  BY <1>1, <1>2, <1>3 DEF Sound, Together, Pending, Running

LEMMA FailSafeIs ==
    ASSUME NEW p, Sides(p)
    PROVE  /\ IsReset(p, FailSafe(p))
           /\ FailSafe(p).engine \in SessionEngines /\ SameRequests(p.engine, FailSafe(p).engine)
           /\ \A t \in Tracks : p.engine.pending[t] = None => FailSafe(p).engine.pending[t] = None
<1> DEFINE q == FailSafe(p)
           e == IF Usable(p.engine) THEN Stopped(p.engine) ELSE p.engine
<1>1. q = [p EXCEPT !.engine = e, !.runtime = NewPerformance, !.done = "reset"]
  BY DEF FailSafe, Sides
<1>2. p.engine \in SessionEngines
  BY DEF Sides
<1>3. CASE Usable(p.engine)
  <2>1. e = Stopped(p.engine)
    BY <1>3
  <2>2. e \in SessionEngines /\ SameRequests(p.engine, e) /\ Quiet(e)
    BY <1>2, <2>1, StoppedIs
  <2> HIDE DEF e
  <2>3. q.engine = e /\ Sides(q) /\ q.done = "reset" /\ q.runtime = NewPerformance
    BY <1>1, <2>2, NewIs DEF Sides
  <2> QED
    BY <1>3, <2>1, <2>2, <2>3 DEF IsReset, Quiet
<1>4. CASE ~Usable(p.engine)
  <2>1. e = p.engine /\ SameRequests(p.engine, e)
    BY <1>4 DEF SameRequests
  <2> HIDE DEF e
  <2>2. q.engine = e /\ Sides(q) /\ q.done = "reset" /\ q.runtime = NewPerformance
    BY <1>1, <1>2, <2>1, NewIs DEF Sides
  <2> QED
    BY <1>2, <1>4, <2>1, <2>2 DEF IsReset
<1> QED
  BY <1>3, <1>4

(* Refreshing some, in the terms above. *)
LEMMA ExtendedIs ==
    ASSUME NEW p, Sides(p), Sound(p.runtime), NEW s \in Songs, NEW tracks \in SUBSET Outdated(p, s),
           \A t \in tracks : ~Lost(p, s, t) /\ Before(p, s, t) \subseteq tracks
    PROVE  LET q == Refreshed(p, s, tracks)
           IN  /\ Extended(p, q) /\ q.done = p.done
               /\ q.refreshes = p.refreshes + Cardinality(tracks)
               /\ \A t \in tracks : Pending(q.runtime, t)
               /\ \A t \in Tracks : t \notin tracks => q.runtime.pending[t] = p.runtime.pending[t]
<1> DEFINE q == Refreshed(p, s, tracks)
           r == p.runtime
           f == q.runtime
<1>1. /\ Sides(q) /\ q.engine = p.engine /\ q.done = p.done /\ Sound(f)
      /\ q.refreshes = p.refreshes + Cardinality(tracks)
      /\ f.phase = r.phase /\ f.beat = r.beat /\ f.stop = r.stop /\ f.clip = r.clip
  BY RefreshedIs
<1>2. \A t \in Tracks :
         IF t \in tracks THEN Pending(f, t) /\ f.pending[t].status = "pending" /\ f.pending[t].group = None
         ELSE f.pending[t] = r.pending[t]
  BY RefreshedIs
<1>3. /\ r.ids \subseteq f.ids
      /\ \A id \in f.ids \ r.ids : id[3] = "refresh"
      /\ RefreshNumbered(r, p.refreshes) => RefreshNumbered(f, q.refreshes)
  BY RefreshedIs
<1>4. \A t \in tracks : t \in Tracks /\ r.pending[t] = None
  BY OutdatedIs
<1> HIDE DEF q
<1>5. \A t \in Tracks :
         \/ f.pending[t] = r.pending[t]
         \/ /\ r.pending[t] = None /\ Pending(f, t)
            /\ f.pending[t].status = "pending" /\ f.pending[t].group = None
  BY <1>2, <1>4
<1>6. Extended(p, q)
  BY <1>1, <1>3, <1>5 DEF Extended
<1> QED
  BY <1>1, <1>2, <1>4, <1>6 DEF q

(* A refresh that is refused, refused for want of ids. *)
LEMMA RefusedIs ==
    ASSUME NEW p, Sides(p), Sound(p.runtime), NEW s \in Songs, NEW t \in Tracks,
           Refused(p, s, t), ~Lost(p, s, t),
           \A u \in Before(p, s, t) : ~Lost(p, s, u),
           RefreshNumbered(p.runtime, p.refreshes)
    PROVE  ~(Cardinality(Refreshed(p, s, Before(p, s, t)).runtime.ids) < IdCapacity)
<1> DEFINE B == Before(p, s, t)
           q == Refreshed(p, s, B)
           f == q.runtime
           x == Refresh(p, s, t)
<1>1. t \in Outdated(p, s) /\ ~Refreshable(f, t, x)
  BY DEF Refused
<1>2. /\ B \subseteq Outdated(p, s) /\ t \notin B /\ Cardinality(B) \in Nat
      /\ \A u \in B : Before(p, s, u) \subseteq B
  BY OutdatedIs
<1>3. /\ Extended(p, q) /\ q.refreshes = p.refreshes + Cardinality(B)
      /\ f.pending[t] = p.runtime.pending[t]
  <2> HIDE DEF B
  <2>1. \A u \in B : ~Lost(p, s, u) /\ Before(p, s, u) \subseteq B
    BY <1>2 DEF B
  <2> QED
    BY <1>2, <2>1, ExtendedIs
<1> HIDE DEF q, B
<1>4. /\ f.beat = p.runtime.beat /\ f.clip = p.runtime.clip /\ RefreshNumbered(f, q.refreshes)
  BY <1>3 DEF Extended
<1>5. f.pending[t] = None
  BY <1>1, <1>3, OutdatedIs
<1>6. x.id[1] = p.refreshes + Cardinality(B) + 1 /\ x.id[3] = "refresh"
  BY <1>1, RefreshIs DEF B
<1>7. x.requested = p.runtime.beat /\ x.target > p.runtime.beat
  <2>1. Refresh(p, s, t).target > p.runtime.beat
    BY <1>1, RefreshIs
  <2>2. Refresh(p, s, t).requested = p.runtime.beat
    BY DEF Refresh, Transition
  <2> QED
    BY <2>1, <2>2
<1>8. x.clip = p.runtime.clip[t]
  BY DEF Refresh, Transition
<1> HIDE DEF x
<1>9. p.refreshes + Cardinality(B) \in Nat
  BY <1>2 DEF Sides
<1>10. x.id \notin f.ids
  BY <1>3, <1>4, <1>6, <1>9 DEF RefreshNumbered
<1>11. p.runtime.beat \in Nat
  BY DEF Sides, Performances
<1>12. x.requested >= f.beat
  BY <1>4, <1>7, <1>11
<1>13. ~Queueable(f, t, x)
  BY <1>1, <1>4, <1>7, <1>8 DEF Refreshable
<1> QED
  BY <1>5, <1>10, <1>12, <1>13 DEF Queueable, f, q, B

LEMMA RefreshActiveIs ==
    ASSUME NEW p, Sides(p), Sound(p.runtime), NEW s \in Songs
    PROVE  LET q == RefreshActive(p, s)
           IN  \/ Extended(p, q) /\ q.done = p.done /\ Replaced(s, q.engine, q.runtime)
               \/ /\ Sides(q) /\ q.done = "reset" /\ q.runtime = NewPerformance
                  /\ SameRequests(p.engine, q.engine)
                  /\ \A t \in Tracks : p.engine.pending[t] = None => q.engine.pending[t] = None
               \/ /\ Extended(p, q) /\ q.done = "thrown"
                  /\ RefreshNumbered(p.runtime, p.refreshes) => ~(Cardinality(q.runtime.ids) < IdCapacity)
<1> DEFINE ends == {t \in Tracks : Lost(p, s, t) \/ Refused(p, s, t)}
           first == CHOOSE t \in ends : \A u \in ends : Place(t) <= Place(u)
           B == Before(p, s, first)
           reached == Refreshed(p, s, B)
           all == Refreshed(p, s, Outdated(p, s))
           q == RefreshActive(p, s)
<1>1. q = IF ends = {} THEN all
          ELSE IF Lost(p, s, first) THEN FailSafe(reached)
          ELSE [reached EXCEPT !.refreshes = @ + 1, !.done = "thrown"]
  BY DEF RefreshActive
<1>2. CASE ends = {}
  <2>1. \A t \in Tracks : ~Lost(p, s, t)
    BY <1>2
  <2>2. \A t \in Outdated(p, s) : ~Lost(p, s, t) /\ Before(p, s, t) \subseteq Outdated(p, s)
    BY <2>1, OutdatedIs
  <2>3. /\ Extended(p, all) /\ all.done = p.done
        /\ \A t \in Outdated(p, s) : Pending(all.runtime, t)
        /\ \A t \in Tracks : t \notin Outdated(p, s) => all.runtime.pending[t] = p.runtime.pending[t]
    BY <2>2, ExtendedIs
  <2>4. Replaced(s, all.engine, all.runtime)
    <3> DEFINE f == all.runtime
    <3>0. all.engine = p.engine /\ f.clip = p.runtime.clip
      BY <2>3 DEF Extended
    <3> SUFFICES ASSUME NEW t \in Tracks, p.engine.active[t] # None
                 PROVE  /\ f.clip[t] # None
                        /\ p.engine.active[t].request.material # s[t][f.clip[t]] => Pending(f, t)
      BY <3>0 DEF Replaced
    <3> HIDE DEF all
    <3>1. Playing(p, s, t) # None
      BY <2>1 DEF Lost
    <3>2. p.runtime.clip[t] # None /\ Playing(p, s, t) = s[t][p.runtime.clip[t]]
      BY <3>1 DEF Playing, MaterialOf
    <3>3. CASE t \in Outdated(p, s)
      BY <2>3, <3>0, <3>2, <3>3
    <3>4. CASE t \notin Outdated(p, s)
      <4>1. f.pending[t] = p.runtime.pending[t]
        BY <2>3, <3>4
      <4>2. p.runtime.pending[t] # None \/ Playing(p, s, t) = p.engine.active[t].request.material
        BY <3>1, <3>4 DEF Outdated
      <4> QED
        BY <3>0, <3>2, <4>1, <4>2 DEF Pending
    <3> QED
      BY <3>3, <3>4
  <2> QED
    BY <1>1, <1>2, <2>3, <2>4
<1>3. CASE ends # {}
  <2>1. ends \in SUBSET Tracks
    OBVIOUS
  <2>2. \E t \in ends : \A u \in ends : Place(t) <= Place(u)
    BY <1>3, <2>1, FirstIs
  <2>3. first \in ends /\ \A u \in ends : Place(first) <= Place(u)
    BY <2>2
  <2> HIDE DEF first
  <2>4. first \in Tracks /\ (Lost(p, s, first) \/ Refused(p, s, first))
    BY <2>3
  <2>5. \A u \in B : u \notin ends
    <3> SUFFICES ASSUME NEW u \in B, u \in ends PROVE FALSE
      OBVIOUS
    <3>1. Place(u) < Place(first) /\ u \in Tracks
      BY DEF Before
    <3>2. Place(first) <= Place(u)
      BY <2>3
    <3> QED
      BY <2>4, <3>1, <3>2, PlaceIs
  <2>6. B \in SUBSET Outdated(p, s) /\ \A u \in B : Before(p, s, u) \subseteq B
    BY <2>4, OutdatedIs
  <2>7. \A u \in B : ~Lost(p, s, u)
    <3>1. \A u \in B : u \in Tracks
      BY <2>6, OutdatedIs
    <3> QED
      BY <2>5, <3>1
  <2>8. Extended(p, reached)
    <3> HIDE DEF B
    <3> QED
      BY <2>6, <2>7, ExtendedIs
  <2>9. CASE Lost(p, s, first)
    <3>1. q = FailSafe(reached)
      BY <1>1, <1>3, <2>9
    <3>2. Sides(reached) /\ reached.engine = p.engine
      BY <2>8 DEF Extended
    <3> HIDE DEF reached
    <3>3. /\ IsReset(reached, q) /\ SameRequests(reached.engine, q.engine)
          /\ \A t \in Tracks : reached.engine.pending[t] = None => q.engine.pending[t] = None
      BY <3>1, <3>2, FailSafeIs
    <3> QED
      BY <3>2, <3>3 DEF IsReset
  <2>10. CASE ~Lost(p, s, first)
    <3>1. q = [reached EXCEPT !.refreshes = @ + 1, !.done = "thrown"]
      BY <1>1, <1>3, <2>10
    <3>2. RefreshNumbered(p.runtime, p.refreshes) => ~(Cardinality(reached.runtime.ids) < IdCapacity)
      BY <2>4, <2>7, <2>10, RefusedIs
    <3> HIDE DEF reached
    <3>3. Sides(reached) /\ reached.refreshes \in Nat
      BY <2>8 DEF Extended, Sides
    <3>7. reached.refreshes + 1 \in Nat
      BY <3>3
    <3>4. /\ Sides(q) /\ q.engine = reached.engine /\ q.runtime = reached.runtime
          /\ q.refreshes = reached.refreshes + 1 /\ reached.refreshes \in Nat /\ q.done = "thrown"
      BY <3>1, <3>3, <3>7 DEF Sides
    <3>5. RefreshNumbered(reached.runtime, reached.refreshes) => RefreshNumbered(q.runtime, q.refreshes)
      <4> SUFFICES ASSUME RefreshNumbered(reached.runtime, reached.refreshes),
                          NEW id \in reached.runtime.ids, id[3] = "refresh"
                   PROVE  id[1] <= reached.refreshes + 1
        BY <3>4 DEF RefreshNumbered
      <4>1. id \in Ids
        BY <3>3 DEF Sides, Performances
      <4>2. id[1] \in Nat /\ id[1] <= reached.refreshes
        BY <4>1 DEF Ids, RefreshNumbered
      <4> QED
        BY <3>4, <4>2
    <3>6. Extended(p, q)
      BY <2>8, <3>4, <3>5 DEF Extended
    <3> QED
      BY <3>2, <3>4, <3>6
  <2> QED
    BY <2>9, <2>10
<1> QED
  BY <1>2, <1>3

LEMMA AdvancedIs ==
    ASSUME NEW r, Sound(r), NEW beat \in Nat
    PROVE  LET f == Advanced(r, beat)
           IN  /\ Sound(f) /\ f.phase = r.phase /\ f.stop = r.stop /\ f.ids = r.ids
               /\ f.clip = r.clip /\ f.pending = r.pending
               /\ f.beat >= beat /\ f.beat >= r.beat /\ (r.beat <= beat => f.beat = beat)
               /\ f.beat \in Nat /\ r.beat \in Nat
<1> DEFINE f == Advanced(r, beat)
           b == IF beat > r.beat THEN beat ELSE r.beat
<1>1. r \in Performances(Ids) /\ r.beat \in Nat
  BY DEF Sound, Performances
<1>2. b \in Nat /\ b >= beat /\ b >= r.beat /\ (r.beat <= beat => b = beat)
  BY <1>1
<1>3. f = [r EXCEPT !.beat = b]
  BY <1>1 DEF Advanced, Performances
<1> HIDE DEF b
<1>4. /\ f \in Performances(Ids) /\ f.beat = b /\ f.phase = r.phase /\ f.stop = r.stop
      /\ f.ids = r.ids /\ f.clip = r.clip /\ f.pending = r.pending
  BY <1>1, <1>2, <1>3 DEF Performances
<1> HIDE DEF f
<1>5. Sound(f)
  BY <1>4 DEF Sound, Together, EntrySound, Pending, Running
<1> QED
  BY <1>1, <1>2, <1>4, <1>5 DEF f

(* Same entries, same terms. *)
LEMMA EntriesAlike ==
    ASSUME NEW r, NEW f, f.pending = r.pending
    PROVE  /\ ScheduledOn(f) = ScheduledOn(r) /\ Kept(r, f)
           /\ \A g : Members(f, g) = Members(r, g)
           /\ \A t : Pending(f, t) <=> Pending(r, t)
BY DEF ScheduledOn, Members, Kept, Pending

LEMMA WeaklyAlike ==
    ASSUME NEW e, NEW r, NEW f, f.pending = r.pending, f.stop = r.stop, Weakly(e, r)
    PROVE  Weakly(e, f)
BY EntriesAlike DEF Weakly, StopsAgree, SameTransition, Pending

(* Refreshes change nothing that is scheduled. *)
LEMMA ExtendedKeeps ==
    ASSUME NEW p, Sides(p), Sound(p.runtime), NEW q, Extended(p, q)
    PROVE  LET r == p.runtime
               f == q.runtime
           IN  /\ ScheduledOn(f) = ScheduledOn(r) /\ Kept(r, f)
               /\ \A t \in ScheduledOn(f) : f.pending[t] = r.pending[t]
               /\ \A g \in Ids : Members(f, g) \subseteq Members(r, g)
               /\ Agreed(p.engine, r) => Agreed(q.engine, f)
               /\ \A s : Wanted(s, p.engine, r) => Wanted(s, q.engine, f)
<1> DEFINE r == p.runtime
           f == q.runtime
<1>1. /\ q.engine = p.engine /\ f.stop = r.stop /\ f.beat = r.beat
      /\ \A t \in Tracks :
              \/ f.pending[t] = r.pending[t]
              \/ /\ r.pending[t] = None /\ Pending(f, t)
                 /\ f.pending[t].status = "pending" /\ f.pending[t].group = None
  BY DEF Extended
<1>2. \A t \in Tracks : t \in ScheduledOn(f) <=> t \in ScheduledOn(r)
  BY <1>1 DEF ScheduledOn
<1>3. ScheduledOn(f) = ScheduledOn(r)
  BY <1>2 DEF ScheduledOn
<1>4. \A t \in ScheduledOn(f) : t \in Tracks /\ f.pending[t] = r.pending[t]
  BY <1>1 DEF ScheduledOn
<1>5. Kept(r, f)
  BY <1>3, <1>4 DEF Kept
<1>6. \A g \in Ids : Members(f, g) \subseteq Members(r, g)
  BY <1>1, NoneIs DEF Members
<1>7. ASSUME Agreed(p.engine, r) PROVE Agreed(p.engine, f)
  <2>1. \A t \in ScheduledOn(f) : p.engine.pending[t] # None /\ SameTransition(p.engine, f, t)
    BY <1>3, <1>4, <1>7 DEF Agreed, Weakly, SameTransition
  <2>2. \A t \in Tracks : p.engine.pending[t] # None => t \in ScheduledOn(f)
    BY <1>3, <1>7 DEF Agreed
  <2>3. StopsAgree(p.engine, f)
    BY <1>1, <1>7 DEF Agreed, Weakly, StopsAgree
  <2> QED
    BY <1>1, <1>7, <2>1, <2>2, <2>3 DEF Agreed, Weakly
<1>8. ASSUME NEW s, Wanted(s, p.engine, r) PROVE Wanted(s, p.engine, f)
  BY <1>3, <1>4, <1>8 DEF Wanted
<1> QED
  BY <1>1, <1>3, <1>4, <1>5, <1>6, <1>7, <1>8

(***************************************************************************)
(* The reconciliation.                                                     *)
(***************************************************************************)

(* What is left of the runtime p and the engine that it follows. *)
Remaining(p, q) ==
    /\ Sides(q) /\ Sound(q.runtime)
    /\ SameRequests(p.engine, q.engine)
    /\ \A t \in Tracks : p.engine.pending[t] = None => q.engine.pending[t] = None
    /\ \A g \in Ids : Members(q.runtime, g) \subseteq Members(p.runtime, g)
    /\ Kept(p.runtime, q.runtime)
    /\ \A id \in q.runtime.ids : id \in p.runtime.ids \/ id[3] = "refresh"
    /\ Running(q.runtime) => Running(p.runtime)
    /\ RefreshNumbered(p.runtime, p.refreshes) => RefreshNumbered(q.runtime, q.refreshes)

LEMMA ResetRemains ==
    ASSUME NEW p, Sides(p), NEW q, Sides(q), q.runtime = NewPerformance,
           SameRequests(p.engine, q.engine),
           \A t \in Tracks : p.engine.pending[t] = None => q.engine.pending[t] = None
    PROVE  Remaining(p, q) /\ ~Running(q.runtime)
<1> DEFINE f == q.runtime
<1>1. Sound(f) /\ ~Running(f)
  BY NewIs
<1>2. f.ids = {} /\ \A t \in Tracks : f.pending[t] = None
  BY DEF NewPerformance
<1>3. ScheduledOn(f) = {} /\ \A g \in Ids : Members(f, g) = {}
  BY <1>2 DEF ScheduledOn, Members
<1> QED
  BY <1>1, <1>2, <1>3 DEF Remaining, Kept, RefreshNumbered

LEMMA RemainingTwice ==
    ASSUME NEW a, NEW b, NEW c, Remaining(a, b), Remaining(b, c)
    PROVE  Remaining(a, c)
<1>1. SameRequests(a.engine, c.engine)
  BY RequestsKept DEF Remaining
<1>2. Kept(a.runtime, c.runtime)
  BY DEF Remaining, Kept
<1>3. \A g \in Ids : Members(c.runtime, g) \subseteq Members(a.runtime, g)
  BY DEF Remaining
<1> QED
  BY <1>1, <1>2, <1>3 DEF Remaining

LEMMA RepairedRemains ==
    ASSUME NEW p, Sides(p), Sound(p.runtime), NEW q, Repaired(p, q)
    PROVE  /\ Remaining(p, q)
           /\ q.runtime.phase = p.runtime.phase /\ q.runtime.beat = p.runtime.beat
           /\ q.runtime.clip = p.runtime.clip /\ q.runtime.stop = p.runtime.stop
           /\ q.runtime.ids = p.runtime.ids /\ q.engine.beat = p.engine.beat
<1>1. /\ q.runtime.phase = p.runtime.phase /\ q.runtime.beat = p.runtime.beat
      /\ q.runtime.clip = p.runtime.clip /\ q.runtime.stop = p.runtime.stop
      /\ q.runtime.ids = p.runtime.ids
  BY DEF Repaired, SameElse, Sides, Performances
<1>2. SameRequests(p.engine, q.engine)
  BY BatchKept DEF Repaired
<1>3. \A t \in Tracks : p.engine.pending[t] = None => q.engine.pending[t] = None
  BY DEF Repaired, Fewer
<1>4. Running(q.runtime) => Running(p.runtime)
  BY <1>1 DEF Running
<1>5. RefreshNumbered(p.runtime, p.refreshes) => RefreshNumbered(q.runtime, q.refreshes)
  BY <1>1 DEF RefreshNumbered, Repaired
<1> QED
  BY <1>1, <1>2, <1>3, <1>4, <1>5 DEF Remaining, Repaired, SameTransport

LEMMA ExtendedRemains ==
    ASSUME NEW p, Sides(p), Sound(p.runtime), NEW q, Extended(p, q)
    PROVE  Remaining(p, q)
<1>1. /\ Kept(p.runtime, q.runtime)
      /\ \A g \in Ids : Members(q.runtime, g) \subseteq Members(p.runtime, g)
  BY ExtendedKeeps
<1>2. SameRequests(p.engine, q.engine)
  BY BatchKept DEF Extended
<1> QED
  BY <1>1, <1>2 DEF Remaining, Extended, Running

(* The steps before the refreshes. *)
LEMMA MendedIs ==
    ASSUME NEW p, Sides(p), Sound(p.runtime), NEW s
    PROVE  LET q == CancelOrphans(RequeueEdited(
                        [p EXCEPT !.runtime = Advanced(@, p.engine.beat), !.done = "no"], s))
           IN  /\ Remaining(p, q) /\ q.done = "no"
               /\ (RefreshNumbered(p.runtime, p.refreshes) => RefreshNumbered(q.runtime, q.refreshes))
               /\ Weakly(p.engine, p.runtime) /\ p.runtime.beat <= p.engine.beat
                  => Agreed(q.engine, q.runtime) /\ Wanted(s, q.engine, q.runtime)
<1> DEFINE a == [p EXCEPT !.runtime = Advanced(@, p.engine.beat), !.done = "no"]
           b == RequeueEdited(a, s)
           c == CancelOrphans(b)
<1>0. p.engine.beat \in Nat /\ p.runtime.beat \in Nat
  BY DEF Sides, SessionEngines, Performances
<1> DEFINE r1 == Advanced(p.runtime, p.engine.beat)
<1>1. /\ Sound(r1) /\ r1.phase = p.runtime.phase /\ r1.stop = p.runtime.stop /\ r1.ids = p.runtime.ids
      /\ r1.clip = p.runtime.clip /\ r1.pending = p.runtime.pending
      /\ r1.beat >= p.engine.beat /\ (p.runtime.beat <= p.engine.beat => r1.beat = p.engine.beat)
  BY <1>0, AdvancedIs
<1> HIDE DEF r1
<1>2. /\ Sides(a) /\ a.engine = p.engine /\ a.refreshes = p.refreshes /\ a.done = "no"
      /\ a.runtime = r1
  <2>1. a = [p EXCEPT !.runtime = r1, !.done = "no"]
    BY DEF r1, Sides
  <2>2. r1 \in Performances(Ids)
    BY <1>1 DEF Sound
  <2> HIDE DEF a
  <2> QED
    BY <2>1, <2>2 DEF Sides
<1> HIDE DEF a
<1>3. /\ Kept(p.runtime, a.runtime) /\ \A g : Members(a.runtime, g) = Members(p.runtime, g)
  BY <1>1, <1>2, EntriesAlike
<1>4. Remaining(p, a)
  <2>1. SameRequests(p.engine, a.engine)
    BY <1>2, BatchKept
  <2> QED
    BY <1>1, <1>2, <1>3, <2>1 DEF Remaining, Running, RefreshNumbered
<1>5. Repaired(a, b) /\ (Weakly(a.engine, a.runtime) => Wanted(s, b.engine, b.runtime))
  BY <1>1, <1>2, RequeueIs
<1> HIDE DEF b
<1>6. Sides(b) /\ Sound(b.runtime) /\ b.done = "no"
  BY <1>2, <1>5 DEF Repaired
<1>7. /\ Repaired(b, c) /\ c.runtime = b.runtime
      /\ Weakly(b.engine, b.runtime) =>
            \A t \in Tracks : c.engine.pending[t] # None => t \in ScheduledOn(c.runtime)
      /\ Weakly(b.engine, b.runtime) /\ Wanted(s, b.engine, b.runtime) => Wanted(s, c.engine, c.runtime)
  BY <1>6, OrphansIs
<1> HIDE DEF c
<1>8. Remaining(a, b) /\ b.runtime.beat = a.runtime.beat /\ b.engine.beat = a.engine.beat
  BY <1>1, <1>2, <1>5, RepairedRemains
<1>9. Remaining(b, c) /\ c.runtime.beat = b.runtime.beat /\ c.engine.beat = b.engine.beat
  BY <1>6, <1>7, RepairedRemains
<1>10. Remaining(p, c)
  <2>1. Remaining(p, b)
    BY <1>4, <1>8, RemainingTwice
  <2> QED
    BY <1>9, <2>1, RemainingTwice
<1>11. ASSUME Weakly(p.engine, p.runtime), p.runtime.beat <= p.engine.beat
       PROVE  Agreed(c.engine, c.runtime) /\ Wanted(s, c.engine, c.runtime)
  <2>1. Weakly(a.engine, a.runtime)
    BY <1>1, <1>2, <1>11, WeaklyAlike
  <2>2. Weakly(b.engine, b.runtime) /\ Wanted(s, b.engine, b.runtime)
    BY <1>5, <2>1 DEF Repaired
  <2>3. Weakly(c.engine, c.runtime) /\ Wanted(s, c.engine, c.runtime)
    BY <1>7, <2>2 DEF Repaired
  <2>4. c.runtime.beat <= c.engine.beat
    BY <1>0, <1>1, <1>2, <1>8, <1>9, <1>11
  <2> QED
    BY <1>7, <2>2, <2>3, <2>4 DEF Agreed
<1>12. c.done = "no"
  BY <1>6, <1>7 DEF Repaired
<1>13. RefreshNumbered(p.runtime, p.refreshes) => RefreshNumbered(c.runtime, c.refreshes)
  BY <1>10 DEF Remaining
<1> QED
  BY <1>10, <1>11, <1>12, <1>13 DEF a, b, c

(* What the reconciliation of p with the song s leaves. *)
Reconciles(p, s, q) ==
    /\ Remaining(p, q)
    /\ Running(q.runtime) /\ Weakly(p.engine, p.runtime) /\ p.runtime.beat <= p.engine.beat
       => /\ Agreed(q.engine, q.runtime) /\ Wanted(s, q.engine, q.runtime)
          /\ q.done # "thrown" => Audible(q.engine, q.runtime) /\ Replaced(s, q.engine, q.runtime)
    /\ q.done = "thrown" /\ RefreshNumbered(p.runtime, p.refreshes)
       => ~(Cardinality(q.runtime.ids) < IdCapacity)

LEMMA ReconciledIs ==
    ASSUME NEW p, Sides(p), Sound(p.runtime), NEW s \in Songs
    PROVE  Reconciles(p, s, Reconciled(p, s))
<1> DEFINE c == CancelOrphans(RequeueEdited([p EXCEPT !.runtime = Advanced(@, p.engine.beat), !.done = "no"], s))
           d == RefreshActive(c, s)
           q == Reconciled(p, s)
<1>1. q = IF ClaimsMissing(d) THEN FailSafe(d) ELSE d
  BY DEF Reconciled, Accounted
<1>2. /\ Remaining(p, c) /\ c.done = "no"
      /\ (RefreshNumbered(p.runtime, p.refreshes) => RefreshNumbered(c.runtime, c.refreshes))
      /\ Weakly(p.engine, p.runtime) /\ p.runtime.beat <= p.engine.beat
         => Agreed(c.engine, c.runtime) /\ Wanted(s, c.engine, c.runtime)
  BY MendedIs
<1> HIDE DEF c, q
<1>3. Sides(c) /\ Sound(c.runtime)
  BY <1>2 DEF Remaining
<1>4. \/ Extended(c, d) /\ d.done = c.done /\ Replaced(s, d.engine, d.runtime)
      \/ /\ Sides(d) /\ d.done = "reset" /\ d.runtime = NewPerformance
         /\ SameRequests(c.engine, d.engine)
         /\ \A t \in Tracks : c.engine.pending[t] = None => d.engine.pending[t] = None
      \/ /\ Extended(c, d) /\ d.done = "thrown"
         /\ RefreshNumbered(c.runtime, c.refreshes) => ~(Cardinality(d.runtime.ids) < IdCapacity)
  BY <1>3, RefreshActiveIs
<1> HIDE DEF d
<1>5. ASSUME Extended(c, d)
      PROVE  /\ Remaining(p, d)
             /\ Weakly(p.engine, p.runtime) /\ p.runtime.beat <= p.engine.beat
                => Agreed(d.engine, d.runtime) /\ Wanted(s, d.engine, d.runtime)
  <2>1. Remaining(c, d)
    BY <1>3, <1>5, ExtendedRemains
  <2>2. Agreed(c.engine, c.runtime) => Agreed(d.engine, d.runtime)
    BY <1>3, <1>5, ExtendedKeeps
  <2>3. Wanted(s, c.engine, c.runtime) => Wanted(s, d.engine, d.runtime)
    BY <1>3, <1>5, ExtendedKeeps
  <2>4. Remaining(p, d)
    BY <1>2, <2>1, RemainingTwice
  <2> QED
    BY <1>2, <2>2, <2>3, <2>4
<1>6. CASE Extended(c, d) /\ d.done = c.done /\ Replaced(s, d.engine, d.runtime)
  <2>1. CASE ClaimsMissing(d)
    <3>1. q = FailSafe(d) /\ Sides(d)
      BY <1>1, <1>6, <2>1 DEF Extended
    <3>2. /\ IsReset(d, q) /\ SameRequests(d.engine, q.engine)
          /\ \A t \in Tracks : d.engine.pending[t] = None => q.engine.pending[t] = None
      BY <3>1, FailSafeIs
    <3>3. Remaining(d, q) /\ ~Running(q.runtime)
      BY <3>1, <3>2, ResetRemains DEF IsReset
    <3>4. Remaining(p, q)
      BY <1>5, <1>6, <3>3, RemainingTwice
    <3>5. q.done = "reset"
      BY <3>2 DEF IsReset
    <3> HIDE DEF c, d
    <3>6. Reconciles(p, s, q)
      BY <3>3, <3>4, <3>5 DEF Reconciles
    <3> QED
      BY <3>6 DEF q
  <2>2. CASE ~ClaimsMissing(d)
    <3>1. q = d /\ d.done = "no"
      BY <1>1, <1>2, <1>6, <2>2
    <3>2. ASSUME Agreed(d.engine, d.runtime) PROVE Audible(d.engine, d.runtime)
      <4>1. d.engine.phase = "running"
        BY <3>2 DEF Agreed, Weakly
      <4>2. \A t \in Tracks : d.runtime.clip[t] # None => d.engine.active[t] # None
        BY <2>2, <3>1, <4>1 DEF ClaimsMissing
      <4>3. \A t \in Tracks : d.engine.active[t] # None => d.runtime.clip[t] # None
        BY <1>6 DEF Replaced
      <4> QED
        BY <4>2, <4>3 DEF Audible
    <3>3. Reconciles(p, s, d)
      BY <1>5, <1>6, <3>1, <3>2 DEF Reconciles
    <3> QED
      BY <3>1, <3>3 DEF q
  <2> QED
    BY <2>1, <2>2
<1>7. CASE /\ Sides(d) /\ d.done = "reset" /\ d.runtime = NewPerformance
           /\ SameRequests(c.engine, d.engine)
           /\ \A t \in Tracks : c.engine.pending[t] = None => d.engine.pending[t] = None
  <2>1. q = d
    BY <1>1, <1>7 DEF ClaimsMissing
  <2>2. Remaining(c, d) /\ ~Running(d.runtime)
    BY <1>3, <1>7, ResetRemains
  <2>3. Remaining(p, d)
    BY <1>2, <2>2, RemainingTwice
  <2>4. Reconciles(p, s, d)
    BY <1>7, <2>2, <2>3 DEF Reconciles
  <2> QED
    BY <2>1, <2>4 DEF q
<1>8. CASE /\ Extended(c, d) /\ d.done = "thrown"
           /\ RefreshNumbered(c.runtime, c.refreshes) => ~(Cardinality(d.runtime.ids) < IdCapacity)
  <2>1. q = d
    BY <1>1, <1>8 DEF ClaimsMissing
  <2>2. Reconciles(p, s, d)
    BY <1>2, <1>5, <1>8 DEF Reconciles
  <2> QED
    BY <2>1, <2>2 DEF q
<1> QED
  BY <1>4, <1>6, <1>7, <1>8 DEF q

-----------------------------------------------------------------------------
(* THE LOOP, SEEN FROM OUTSIDE                                             *)

Counters == [requests : Nat, edits : Nat, sessions : Nat, refreshes : Nat]

(* The scenes that were asked for until then do not grow. *)
Waning(r, f, requests) ==
    \A g \in Ids : g[3] = "gesture" /\ g[1] <= requests => Members(f, g) \subseteq Members(r, g)

LEMMA UnitKeptApart ==
    ASSUME NEW unit, NEW r, NEW f, NEW n \in Nat, NEW m \in Nat, n <= m,
           UnitSound(unit, r, n), Waning(r, f, n),
           \A t \in DOMAIN unit : t \in ScheduledOn(f) =>
              t \in ScheduledOn(r) /\ f.pending[t].id = r.pending[t].id
    PROVE  UnitSound(unit, f, m)
<1>1. ASSUME NEW t \in DOMAIN unit
      PROVE  /\ unit[t] \in Transitions(Ids)
             /\ t \in ScheduledOn(r) => r.pending[t].id # unit[t].id
             /\ unit[t].group # None =>
                   /\ unit[t].group[3] = "gesture" /\ unit[t].group[1] <= n
                   /\ Members(r, unit[t].group) \subseteq DOMAIN unit \ ScheduledOn(r)
  BY <1>1 DEF UnitSound
<1>2. ASSUME NEW t \in DOMAIN unit, unit[t].group # None
      PROVE  /\ unit[t].group[3] = "gesture" /\ unit[t].group[1] <= m
             /\ Members(f, unit[t].group) \subseteq DOMAIN unit \ ScheduledOn(f)
  <2>1. unit[t].group \in Ids
    BY <1>1, <1>2 DEF Transitions
  <2>2. /\ unit[t].group[3] = "gesture" /\ unit[t].group[1] <= n
        /\ Members(r, unit[t].group) \subseteq DOMAIN unit \ ScheduledOn(r)
    BY <1>1, <1>2
  <2>3. unit[t].group[1] \in Nat
    BY <2>1 DEF Ids
  <2>4. Members(f, unit[t].group) \subseteq Members(r, unit[t].group)
    BY <2>1, <2>2 DEF Waning
  <2> QED
    BY <2>2, <2>3, <2>4
<1>3. ASSUME NEW t \in DOMAIN unit, t \in ScheduledOn(f) PROVE f.pending[t].id # unit[t].id
  BY <1>1, <1>3
<1>4. /\ DOMAIN unit \subseteq Tracks /\ DOMAIN unit # {}
      /\ \A t \in DOMAIN unit :
            /\ unit[t].status = "pending" /\ unit[t].id[2] = t
            /\ (unit[t].kind = "launch" <=> unit[t].clip # None)
            /\ (unit[t].group = None => DOMAIN unit = {t})
            /\ \A u \in DOMAIN unit : unit[u].group = unit[t].group
  BY Zenon DEF UnitSound
<1> QED
  BY <1>1, <1>2, <1>3, <1>4, Zenon DEF UnitSound

LEMMA UnitKept ==
    ASSUME NEW unit, NEW r, NEW f, NEW n \in Nat, NEW m \in Nat, n <= m,
           UnitSound(unit, r, n), Kept(r, f), Waning(r, f, n)
    PROVE  UnitSound(unit, f, m)
BY UnitKeptApart DEF Kept

LEMMA BatchStays ==
    ASSUME NEW e, NEW f, NEW unit, BatchOf(e, unit), SameRequests(e, f), DOMAIN unit \subseteq Tracks,
           \A t \in Tracks : e.pending[t] = None => f.pending[t] = None
    PROVE  BatchOf(f, unit)
<1>1. f.batch[Caller] # None /\ f.batch[Caller].requests = e.batch[Caller].requests
  BY CallerIs DEF BatchOf, SameRequests
<1> QED
  BY <1>1 DEF BatchOf

(* What a task hands to the reconciliation, and the counters with it. *)
Handed(p, counters) ==
    /\ Sides(p) /\ Sound(p.runtime)
    /\ SameRequests(engine, p.engine)
    /\ \A t \in Tracks : engine.pending[t] = None => p.engine.pending[t] = None
    /\ Waning(runtime, p.runtime, made.requests) /\ Kept(runtime, p.runtime)
    /\ counters \in Counters /\ made.requests <= counters.requests
    /\ Numbered(p.runtime, counters.requests)
    /\ Running(p.runtime) => Weakly(p.engine, p.runtime) /\ p.runtime.beat <= p.engine.beat

(* The units stay sound, and so does the preparation. *)
LEMMA LoopStays ==
    ASSUME IInv, NEW e, NEW r, NEW n \in Nat, made.requests <= n,
           SameRequests(engine, e), \A t \in Tracks : engine.pending[t] = None => e.pending[t] = None,
           Waning(runtime, r, made.requests), Kept(runtime, r)
    PROVE  /\ \A i \in DOMAIN sync.units : UnitSound(sync.units[i], r, n)
           /\ sync.pc = "preparing" => BatchOf(e, Head(sync.units))
           /\ sync.pc # "preparing" => e.batch[Caller] = None
<1>1. made.requests \in Nat /\ sync.units \in Seq(Units)
  BY DEF IInv, Types
<1>2. \A i \in DOMAIN sync.units : UnitSound(sync.units[i], runtime, made.requests)
  BY DEF IInv, LoopSound
<1>3. \A i \in DOMAIN sync.units : UnitSound(sync.units[i], r, n)
  BY <1>1, <1>2, UnitKept
<1>4. ASSUME sync.pc = "preparing" PROVE BatchOf(e, Head(sync.units))
  <2>1. sync.units # << >> /\ BatchOf(engine, Head(sync.units))
    BY <1>4 DEF IInv, LoopSound
  <2>2. 1 \in DOMAIN sync.units /\ Head(sync.units) = sync.units[1]
    BY <1>1, <2>1
  <2>3. DOMAIN Head(sync.units) \subseteq Tracks
    BY <1>2, <2>2 DEF UnitSound
  <2> QED
    BY <2>1, <2>3, BatchStays
<1>5. ASSUME sync.pc # "preparing" PROVE e.batch[Caller] = None
  <2>1. engine.batch[Caller] = None
    BY <1>5 DEF IInv, LoopSound
  <2> QED
    BY <2>1, CallerIs DEF SameRequests
<1> QED
  BY <1>3, <1>4, <1>5

LEMMA SyncPendingKeeps ==
    ASSUME IInv, Yielded, NEW p, NEW s \in Songs, NEW counters, Handed(p, counters),
           SyncPending(p, s, counters), song' = s, session' = "active"
    PROVE  /\ IInv' /\ Reconciles(p, s, Reconciled(p, s))
           /\ engine' = Reconciled(p, s).engine /\ runtime' = Reconciled(p, s).runtime
           /\ made'.refreshes = Reconciled(p, s).refreshes /\ made'.sessions = counters.sessions
           /\ Reconciled(p, s).done # "thrown" =>
                 \/ sync'.pc = "head" /\ sync'.units = sync.units
                 \/ sync'.pc = "preparing" /\ sync'.dirty
<1> DEFINE q == Reconciled(p, s)
<1>1. Reconciles(p, s, q)
  BY ReconciledIs DEF Handed
<1>2. /\ engine' = q.engine /\ runtime' = q.runtime
      /\ made' = [counters EXCEPT !.refreshes = q.refreshes]
      /\ sync' = IF q.done = "thrown" THEN sync
                 ELSE IF sync.pc \in {"idle", "failed"} THEN [sync EXCEPT !.pc = "head"]
                 ELSE [sync EXCEPT !.dirty = TRUE]
  BY DEF SyncPending, LoopAsked
<1> HIDE DEF q
<1>3. Remaining(p, q)
  BY <1>1 DEF Reconciles
<1>4. Sides(q) /\ Sound(q.runtime) /\ counters \in Counters
  BY <1>3 DEF Remaining, Handed
<1>5. sync \in [pc : {"idle", "head", "units", "preparing", "failed"}, dirty : BOOLEAN, units : Seq(Units)]
  BY DEF IInv, Types
<1>6. /\ sync' \in [pc : {"idle", "head", "units", "preparing", "failed"}, dirty : BOOLEAN, units : Seq(Units)]
      /\ sync'.units = sync.units
      /\ sync'.pc = "preparing" <=> sync.pc = "preparing"
      /\ q.done # "thrown" =>
            \/ sync'.pc = "head" /\ sync'.units = sync.units
            \/ sync'.pc = "preparing" /\ sync'.dirty
  BY <1>2, <1>5 DEF Yielded
<1>7. /\ made' \in Counters /\ made'.requests = counters.requests
      /\ made'.refreshes = q.refreshes /\ made'.sessions = counters.sessions
  BY <1>2, <1>4 DEF Sides, Counters
<1>8. Types'
  BY <1>2, <1>4, <1>6, <1>7 DEF Types, Sides, Counters
<1>9. Sound(runtime')
  BY <1>2, <1>4
<1>10. Numbered(runtime', made'.requests)
  <2> SUFFICES ASSUME NEW id \in q.runtime.ids, id[3] = "gesture" PROVE id[1] <= counters.requests
    BY <1>2, <1>7 DEF Numbered
  <2>1. id \in p.runtime.ids
    BY <1>3 DEF Remaining
  <2> QED
    BY <2>1 DEF Handed, Numbered
<1>11. Running(runtime') => Agreed(engine', runtime')
  <2> SUFFICES ASSUME Running(q.runtime) PROVE Agreed(q.engine, q.runtime)
    BY <1>2
  <2>1. Running(p.runtime)
    BY <1>3 DEF Remaining
  <2>2. Weakly(p.engine, p.runtime) /\ p.runtime.beat <= p.engine.beat
    BY <2>1 DEF Handed
  <2> QED
    BY <1>1, <2>2 DEF Reconciles
<1>12. /\ SameRequests(engine, q.engine)
       /\ \A t \in Tracks : engine.pending[t] = None => q.engine.pending[t] = None
       /\ Waning(runtime, q.runtime, made.requests) /\ Kept(runtime, q.runtime)
  <2>1. SameRequests(engine, q.engine)
    BY <1>3, RequestsKept DEF Remaining, Handed
  <2>2. \A t \in Tracks : engine.pending[t] = None => q.engine.pending[t] = None
    BY <1>3 DEF Remaining, Handed
  <2>3. Waning(runtime, q.runtime, made.requests)
    BY <1>3 DEF Remaining, Handed, Waning
  <2>4. Kept(runtime, q.runtime)
    BY <1>3 DEF Remaining, Handed, Kept
  <2> QED
    BY <2>1, <2>2, <2>3, <2>4
<1>13. /\ \A i \in DOMAIN sync.units : UnitSound(sync.units[i], q.runtime, counters.requests)
       /\ sync.pc = "preparing" => BatchOf(q.engine, Head(sync.units))
       /\ sync.pc # "preparing" => q.engine.batch[Caller] = None
  <2>1. counters.requests \in Nat /\ made.requests <= counters.requests
    BY DEF Handed, Counters
  <2> QED
    BY <1>12, <2>1, LoopStays
<1>14. LoopSound'
  <2>1. /\ \A i, j \in DOMAIN sync.units : i # j => DOMAIN sync.units[i] \cap DOMAIN sync.units[j] = {}
        /\ sync.pc = "preparing" => sync.units # << >>
    BY DEF IInv, LoopSound
  <2>2. \A i \in DOMAIN sync'.units : UnitSound(sync'.units[i], runtime', made'.requests)
    BY <1>2, <1>6, <1>7, <1>13
  <2>3. IF sync'.pc = "preparing" THEN sync'.units # << >> /\ BatchOf(engine', Head(sync'.units))
        ELSE engine'.batch[Caller] = None
    BY <1>2, <1>6, <1>13, <2>1
  <2> QED
    BY <1>6, <2>1, <2>2, <2>3 DEF LoopSound
<1> QED
  BY <1>1, <1>2, <1>6, <1>7, <1>8, <1>9, <1>10, <1>11, <1>14 DEF IInv, q

LEMMA SyncPendingCovers ==
    ASSUME IInv, Yielded, NEW p, NEW s \in Songs, NEW counters, Handed(p, counters),
           SyncPending(p, s, counters), song' = s, session' = "active",
           RefreshNumbered(p.runtime, p.refreshes), counters.sessions # 0,
           Cardinality(runtime'.ids) < IdCapacity
    PROVE  JInv' /\ (Running(runtime') => Replaced(s, engine', runtime'))
<1> DEFINE q == Reconciled(p, s)
<1>1. /\ Reconciles(p, s, q) /\ engine' = q.engine /\ runtime' = q.runtime
      /\ made'.refreshes = q.refreshes /\ made'.sessions = counters.sessions
      /\ q.done # "thrown" =>
            \/ sync'.pc = "head" /\ sync'.units = sync.units
            \/ sync'.pc = "preparing" /\ sync'.dirty
  BY SyncPendingKeeps
<1> HIDE DEF q
<1>2. q.done # "thrown"
  BY <1>1 DEF Reconciles
<1>3. \/ sync'.pc = "head"
      \/ sync'.pc = "preparing" /\ sync'.dirty
  BY <1>1, <1>2
<1>4. counters \in Counters /\ Remaining(p, q)
  BY <1>1 DEF Handed, Reconciles
<1>5. made'.refreshes = q.refreshes /\ made'.sessions = counters.sessions
  BY <1>1
<1>6. RefreshNumbered(runtime', made'.refreshes)
  BY <1>1, <1>4, <1>5 DEF Remaining
<1>7. FirstSession'
  BY <1>5 DEF FirstSession
<1>8. ASSUME Running(runtime') PROVE Audible(engine', runtime') /\ Replaced(s, engine', runtime')
  <2>1. Running(q.runtime) /\ Running(p.runtime)
    BY <1>1, <1>4, <1>8 DEF Remaining
  <2>2. Weakly(p.engine, p.runtime) /\ p.runtime.beat <= p.engine.beat
    BY <2>1 DEF Handed
  <2>3. Audible(q.engine, q.runtime) /\ Replaced(s, q.engine, q.runtime)
    BY <1>1, <1>2, <2>1, <2>2 DEF Reconciles
  <2> QED
    BY <1>1, <2>3
<1>9. Covered'
  BY <1>3 DEF Covered, Current
<1>10. BatchCurrent'
  BY <1>3 DEF BatchCurrent
<1> QED
  BY <1>6, <1>7, <1>8, <1>9, <1>10 DEF JInv

-----------------------------------------------------------------------------
(* GESTURES                                                                *)

(* Some tracks that are not scheduled get a transition, of the scene g or  *)
(* of none.                                                                *)
Asked(r, f, g, target) ==
    /\ f \in Performances(Ids) /\ g \in Ids \cup {None}
    /\ f.phase = r.phase /\ f.stop = r.stop /\ f.clip = r.clip /\ f.beat = r.beat
    /\ r.ids \subseteq f.ids
    /\ g # None => g \in f.ids /\ g \notin r.ids /\ g[3] = "gesture"
    /\ \A t \in Tracks :
          \/ f.pending[t] = r.pending[t]
          \/ /\ t \notin ScheduledOn(r) /\ Pending(f, t)
             /\ f.pending[t].status = "pending" /\ f.pending[t].group = g
             /\ f.pending[t].target = target
             /\ f.pending[t].id[2] = t /\ f.pending[t].id \in f.ids
             /\ (f.pending[t].kind = "launch" <=> f.pending[t].clip # None)

LEMMA AskedIs ==
    ASSUME NEW r, Sound(r), Running(r), NEW f, NEW g, NEW target, Asked(r, f, g, target)
    PROVE  /\ Sound(f) /\ Kept(r, f)
           /\ \A h \in Ids : h # g => Members(f, h) \subseteq Members(r, h)
           /\ \A e : Agreed(e, r) => Weakly(e, f) /\ f.beat <= e.beat
<1>1. /\ f \in Performances(Ids) /\ g \in Ids \cup {None}
      /\ f.phase = r.phase /\ f.stop = r.stop /\ f.clip = r.clip /\ f.beat = r.beat
      /\ r.ids \subseteq f.ids
      /\ g # None => g \in f.ids /\ g \notin r.ids /\ g[3] = "gesture"
  BY DEF Asked
<1>2. \A t \in Tracks :
          \/ f.pending[t] = r.pending[t]
          \/ /\ t \notin ScheduledOn(r) /\ Pending(f, t)
             /\ f.pending[t].status = "pending" /\ f.pending[t].group = g
             /\ f.pending[t].target = target
             /\ f.pending[t].id[2] = t /\ f.pending[t].id \in f.ids
             /\ (f.pending[t].kind = "launch" <=> f.pending[t].clip # None)
  BY DEF Asked
<1>3. \A t \in Tracks : Pending(f, t) => EntrySound(f, t)
  <2> SUFFICES ASSUME NEW t \in Tracks, Pending(f, t) PROVE EntrySound(f, t)
    OBVIOUS
  <2>1. CASE f.pending[t] = r.pending[t]
    <3>1. Pending(r, t) /\ EntrySound(r, t)
      BY <2>1, EntryIs DEF Pending
    <3> QED
      BY <1>1, <2>1, <3>1 DEF EntrySound
  <2>2. CASE f.pending[t] # r.pending[t]
    BY <1>1, <1>2, <2>2 DEF EntrySound
  <2> QED
    BY <2>1, <2>2
<1>4. Together(f)
  <2> SUFFICES ASSUME NEW t \in Tracks, NEW u \in Tracks, Pending(f, t), Pending(f, u),
                      f.pending[t].group = f.pending[u].group, f.pending[t].group # None
               PROVE  /\ f.pending[u].status = f.pending[t].status
                      /\ f.pending[u].target = f.pending[t].target
    BY DEF Together
  <2>1. \A v \in Tracks : Pending(f, v) /\ f.pending[v] = r.pending[v] /\ f.pending[v].group # None
                          => f.pending[v].group # g
    <3> SUFFICES ASSUME NEW v \in Tracks, Pending(f, v), f.pending[v] = r.pending[v],
                        f.pending[v].group # None
                 PROVE  f.pending[v].group # g
      OBVIOUS
    <3>1. r.pending[v].group \in r.ids
      BY EntryIs DEF Pending, EntrySound
    <3> QED
      BY <1>1, <3>1
  <2>2. CASE f.pending[t] = r.pending[t] /\ f.pending[u] = r.pending[u]
    BY <2>2 DEF Sound, Together, Pending
  <2>3. CASE f.pending[t] # r.pending[t] /\ f.pending[u] # r.pending[u]
    BY <1>2, <2>3
  <2>4. CASE f.pending[t] = r.pending[t] /\ f.pending[u] # r.pending[u]
    BY <1>2, <2>1, <2>4
  <2>5. CASE f.pending[t] # r.pending[t] /\ f.pending[u] = r.pending[u]
    BY <1>2, <2>1, <2>5
  <2> QED
    BY <2>2, <2>3, <2>4, <2>5
<1>5. Sound(f)
  BY <1>1, <1>3, <1>4 DEF Sound, Running
<1>6. \A t \in Tracks : t \in ScheduledOn(f) <=> t \in ScheduledOn(r)
  BY <1>2 DEF ScheduledOn
<1>7. \A t \in ScheduledOn(f) : t \in Tracks /\ f.pending[t] = r.pending[t]
  BY <1>2, <1>6 DEF ScheduledOn
<1>8. ScheduledOn(f) = ScheduledOn(r)
  BY <1>6 DEF ScheduledOn
<1>9. Kept(r, f)
  BY <1>7, <1>8 DEF Kept
<1>10. \A h \in Ids : h # g => Members(f, h) \subseteq Members(r, h)
  BY <1>2 DEF Members
<1>11. ASSUME NEW e, Agreed(e, r) PROVE Weakly(e, f) /\ f.beat <= e.beat
  <2>1. \A t \in ScheduledOn(f) : e.pending[t] # None /\ SameTransition(e, f, t)
    BY <1>7, <1>8, <1>11 DEF Agreed, Weakly, SameTransition
  <2>2. \A t \in Tracks \ ScheduledOn(f) : e.pending[t] = None
    BY <1>8, <1>11 DEF Agreed
  <2>3. StopsAgree(e, f)
    BY <1>1, <1>11 DEF Agreed, Weakly, StopsAgree
  <2> QED
    BY <1>1, <1>11, <2>1, <2>2, <2>3 DEF Agreed, Weakly
<1> QED
  BY <1>5, <1>9, <1>10, <1>11

(* A transition for a track, as it is asked for. *)
EntryFor(t, x) ==
    /\ x \in Transitions(Ids) /\ x.id[2] = t /\ x.status = "pending"
    /\ x.kind = "launch" <=> x.clip # None

(* Queueing one. *)
LEMMA QueuedIs ==
    ASSUME NEW r, Sound(r), Running(r), NEW t \in Tracks, NEW x, EntryFor(t, x), Queueable(r, t, x)
    PROVE  LET f == Queued(r, t, x, FALSE)
           IN  /\ f \in Performances(Ids)
               /\ f.phase = r.phase /\ f.stop = r.stop /\ f.clip = r.clip /\ f.beat = r.beat
               /\ r.ids \subseteq f.ids /\ f.ids \subseteq r.ids \cup {x.id}
               /\ \A u \in Tracks : u # t => f.pending[u] = r.pending[u]
               /\ \/ f.pending[t] = r.pending[t]
                  \/ f.pending[t] = x /\ t \notin ScheduledOn(r) /\ x.id \in f.ids
<1> DEFINE f == Queued(r, t, x, FALSE)
           reserved == [r EXCEPT !.ids = @ \cup {x.id}]
           idle == r.pending[t] = None /\ r.clip[t] = x.clip /\ ~FALSE
<1>1. f = IF Same(r.pending[t], x) THEN r ELSE IF idle THEN reserved
          ELSE [reserved EXCEPT !.pending[t] = x]
  BY DEF Queued
<1>2. r \in Performances(Ids) /\ x.id \in Ids
  BY DEF Sound, Transitions, EntryFor
<1>3. /\ reserved \in Performances(Ids)
      /\ reserved.phase = r.phase /\ reserved.stop = r.stop /\ reserved.clip = r.clip
      /\ reserved.beat = r.beat /\ reserved.ids = r.ids \cup {x.id} /\ reserved.pending = r.pending
  BY <1>2 DEF Performances
<1> HIDE DEF reserved, f
<1>4. CASE Same(r.pending[t], x)
  BY <1>1, <1>2, <1>4 DEF f
<1>5. CASE ~Same(r.pending[t], x) /\ idle
  BY <1>1, <1>3, <1>5 DEF f
<1>6. CASE ~Same(r.pending[t], x) /\ ~idle
  <2>1. f = [reserved EXCEPT !.pending[t] = x]
    BY <1>1, <1>6
  <2>2. /\ f \in Performances(Ids)
        /\ f.phase = r.phase /\ f.stop = r.stop /\ f.clip = r.clip
        /\ f.beat = r.beat /\ f.ids = r.ids \cup {x.id}
        /\ f.pending[t] = x /\ \A u \in Tracks : u # t => f.pending[u] = r.pending[u]
    BY <1>3, <2>1 DEF Performances, EntryFor
  <2>3. r.pending[t] # None => r.pending[t].status = "pending"
    BY <1>6 DEF Queueable
  <2>4. t \notin ScheduledOn(r)
    BY <2>3 DEF ScheduledOn
  <2> QED
    BY <2>2, <2>4 DEF f
<1> QED
  BY <1>4, <1>5, <1>6

(* A step keeps what always holds, and what holds while there are ids.     *)
Keeps == IInv' /\ (JInv /\ Cardinality(runtime'.ids) < IdCapacity => JInv')

(* Both invariants, for a task that ends with the reconciliation.          *)
LEMMA TaskKeeps ==
    ASSUME IInv, Yielded, NEW p, NEW s \in Songs, NEW counters, Handed(p, counters),
           SyncPending(p, s, counters), song' = s, session' = "active",
           JInv => RefreshNumbered(p.runtime, p.refreshes) /\ counters.sessions # 0
    PROVE  /\ Keeps
           /\ JInv /\ Cardinality(runtime'.ids) < IdCapacity =>
                 (Running(runtime') => Replaced(s, engine', runtime'))
<1>1. IInv'
  BY SyncPendingKeeps
<1>2. ASSUME JInv, Cardinality(runtime'.ids) < IdCapacity
      PROVE  JInv' /\ (Running(runtime') => Replaced(s, engine', runtime'))
  <2>1. RefreshNumbered(p.runtime, p.refreshes) /\ counters.sessions # 0
    BY <1>2
  <2> QED
    BY <1>2, <2>1, SyncPendingCovers
<1> QED
  BY <1>1, <1>2 DEF Keeps

LEMMA NowIs ==
    ASSUME IInv
    PROVE  /\ Sound(Now) /\ Now.phase = runtime.phase /\ Now.stop = runtime.stop
           /\ Now.ids = runtime.ids /\ Now.clip = runtime.clip /\ Now.pending = runtime.pending
           /\ Now.beat \in Nat /\ runtime.beat \in Nat /\ engine.beat \in Nat
           /\ Running(runtime) => Running(Now) /\ Agreed(engine, Now)
<1>1. Sound(runtime) /\ engine.beat \in Nat
  BY DEF IInv, Types, SessionEngines
<1>2. /\ Sound(Now) /\ Now.phase = runtime.phase /\ Now.stop = runtime.stop
      /\ Now.ids = runtime.ids /\ Now.clip = runtime.clip /\ Now.pending = runtime.pending
      /\ Now.beat \in Nat /\ runtime.beat \in Nat
      /\ runtime.beat <= engine.beat => Now.beat = engine.beat
  BY <1>1, AdvancedIs DEF Now
<1> HIDE DEF Now
<1>3. ASSUME Running(runtime) PROVE Running(Now) /\ Agreed(engine, Now)
  <2>1. Agreed(engine, runtime)
    BY <1>3 DEF IInv
  <2>2. Weakly(engine, Now)
    BY <1>2, <2>1, WeaklyAlike DEF Agreed
  <2>3. ScheduledOn(Now) = ScheduledOn(runtime)
    BY <1>2, EntriesAlike
  <2>4. Now.beat <= engine.beat
    BY <1>1, <1>2, <2>1 DEF Agreed
  <2> QED
    BY <1>2, <1>3, <2>1, <2>2, <2>3, <2>4 DEF Agreed, Running
<1> QED
  BY <1>1, <1>2, <1>3

LEMMA TargetIs ==
    ASSUME IInv, NEW q \in Quantizations
    PROVE  Target(q) \in Nat
<1>1. Now.beat \in Nat /\ BeatsPerBar \in Nat \ {0}
  BY NowIs, PerformanceAssumption
<1>2. (Now.beat \div BeatsPerBar + 1) * BeatsPerBar \in Nat
  BY <1>1, LoopBoundary
<1>3. CASE q = "immediate"
  BY <1>1, <1>3 DEF Target, LaunchTarget
<1>4. CASE q = "beat"
  BY <1>1, <1>4 DEF Target, LaunchTarget
<1>5. CASE q = "bar"
  BY <1>2, <1>5 DEF Target, LaunchTarget
<1> QED
  BY <1>3, <1>4, <1>5 DEF Quantizations

(* What a session has begun with. *)
LEMMA ActiveIs ==
    ASSUME IInv, JInv, session = "active"
    PROVE  RefreshNumbered(runtime, made.refreshes) /\ made.sessions # 0
BY DEF JInv, FirstSession

LEMMA BothIs ==
    ASSUME IInv, NEW f, f \in Performances(Ids)
    PROVE  LET p == [Both EXCEPT !.runtime = f]
           IN  /\ Sides(p) /\ p.engine = engine /\ p.runtime = f /\ p.refreshes = made.refreshes
<1>1. engine \in SessionEngines /\ made.refreshes \in Nat
  BY DEF IInv, Types
<1> QED
  BY <1>1 DEF Both, Sides

(* A request of the launcher. *)
LEMMA RequestKeeps ==
    ASSUME IInv, Yielded, session = "active", Running(runtime), UNCHANGED <<song, session>>,
           NEW f, Sound(f), Kept(Now, f), NEW g,
           \A h \in Ids : h # g => Members(f, h) \subseteq Members(Now, h),
           Weakly(engine, f), f.beat <= engine.beat,
           g # None => g[1] = made.requests + 1,
           \A id \in f.ids \ runtime.ids : id[3] = "gesture" /\ id[1] = made.requests + 1,
           SyncPending([Both EXCEPT !.runtime = f], song, Requesting)
    PROVE  Keeps
<1> DEFINE p == [Both EXCEPT !.runtime = f]
<1>1. Now.pending = runtime.pending
  BY NowIs
<1>3. Sides(p) /\ p.engine = engine /\ p.runtime = f /\ p.refreshes = made.refreshes
  <2>1. f \in Performances(Ids)
    BY DEF Sound
  <2> QED
    BY <2>1, BothIs
<1> HIDE DEF p
<1>4. made \in Counters /\ made.requests \in Nat
  BY DEF IInv, Types, Counters
<1>5. /\ Requesting \in Counters /\ Requesting.requests = made.requests + 1
      /\ Requesting.sessions = made.sessions
  BY <1>4 DEF Requesting, Counters
<1>6. Kept(runtime, f)
  BY <1>1 DEF Kept, ScheduledOn
<1>7. Waning(runtime, f, made.requests)
  <2> SUFFICES ASSUME NEW h \in Ids, h[1] <= made.requests
               PROVE  Members(f, h) \subseteq Members(runtime, h)
    BY DEF Waning
  <2>1. h # g
    BY <1>4, PerformanceAssumption
  <2>2. Members(Now, h) = Members(runtime, h)
    BY <1>1 DEF Members
  <2> QED
    BY <2>1, <2>2
<1>8. Numbered(f, made.requests + 1)
  <2> SUFFICES ASSUME NEW id \in f.ids, id[3] = "gesture" PROVE id[1] <= made.requests + 1
    BY DEF Numbered
  <2>1. CASE id \in runtime.ids
    <3>1. id[1] <= made.requests
      BY <2>1 DEF IInv, Numbered
    <3>2. id \in Ids
      BY DEF Sound, Performances
    <3>3. id[1] \in Nat
      BY <3>2 DEF Ids
    <3> QED
      BY <1>4, <3>1, <3>3
  <2>2. CASE id \notin runtime.ids
    BY <1>4, <2>2
  <2> QED
    BY <2>1, <2>2
<1>9. SameRequests(engine, engine)
  BY DEF SameRequests
<1>10. Handed(p, Requesting)
  BY <1>3, <1>4, <1>5, <1>6, <1>7, <1>8, <1>9 DEF Handed
<1>11. JInv => RefreshNumbered(p.runtime, p.refreshes) /\ Requesting.sessions # 0
  <2> SUFFICES ASSUME JInv PROVE RefreshNumbered(f, made.refreshes) /\ made.sessions # 0
    BY <1>3, <1>5
  <2>1. RefreshNumbered(runtime, made.refreshes) /\ made.sessions # 0
    BY ActiveIs
  <2> QED
    BY <2>1 DEF RefreshNumbered
<1>12. song \in Songs /\ song' = song /\ session' = "active"
  BY DEF IInv, Types
<1> QED
  BY <1>10, <1>11, <1>12, TaskKeeps DEF p

LEMMA QueuedEntry ==
    ASSUME NEW r, Sound(r), Running(r), NEW t \in Tracks, NEW x, EntryFor(t, x), Queueable(r, t, x)
    PROVE  /\ Queued(r, t, x, FALSE).pending[t] \in Transitions(Ids) \cup {None}
           /\ \/ Queued(r, t, x, FALSE).pending[t] = r.pending[t]
              \/ Queued(r, t, x, FALSE).pending[t] = x /\ t \notin ScheduledOn(r)
<1> DEFINE f == Queued(r, t, x, FALSE)
<1>3. LET h == Queued(r, t, x, FALSE)
      IN  /\ h \in Performances(Ids)
          /\ h.phase = r.phase /\ h.stop = r.stop /\ h.clip = r.clip /\ h.beat = r.beat
          /\ r.ids \subseteq h.ids /\ h.ids \subseteq r.ids \cup {x.id}
          /\ \A u \in Tracks : u # t => h.pending[u] = r.pending[u]
          /\ \/ h.pending[t] = r.pending[t]
             \/ h.pending[t] = x /\ t \notin ScheduledOn(r) /\ x.id \in h.ids
  BY QueuedIs, Zenon
<1>1. /\ f \in Performances(Ids)
      /\ f.pending[t] = r.pending[t] \/ (f.pending[t] = x /\ t \notin ScheduledOn(r))
  BY <1>3
<1> HIDE DEF f
<1>2. f.pending[t] \in Transitions(Ids) \cup {None}
  BY <1>1 DEF Performances
<1> QED
  BY <1>1, <1>2 DEF f

LEMMA RequestOne ==
    ASSUME IInv, NEW q \in Quantizations, Gesture(q), NEW t \in Tracks,
           NEW kind \in {"launch", "stop"}, NEW clip \in Clips \cup {None},
           kind = "launch" <=> clip # None,
           Request(t, Transition(Id(t), kind, clip, Now.beat, Target(q), None))
    PROVE  Keeps
<1> DEFINE x == Transition(Id(t), kind, clip, Now.beat, Target(q), None)
           f == Queued(Now, t, x, FALSE)
<1>1. /\ Yielded /\ session = "active" /\ Running(runtime) /\ UNCHANGED <<song, session>>
      /\ Queueable(Now, t, x)
      /\ SyncPending([Both EXCEPT !.runtime = f], song, Requesting)
  BY DEF Gesture, Request, Running
<1>2. /\ Sound(Now) /\ Now.ids = runtime.ids /\ Now.beat \in Nat
      /\ Running(Now) /\ Agreed(engine, Now)
  BY <1>1, NowIs
<1>3. Target(q) \in Nat /\ made.requests \in Nat
  BY TargetIs DEF IInv, Types
<1>4. Id(t) \in Ids /\ Id(t)[1] = made.requests + 1 /\ Id(t)[2] = t /\ Id(t)[3] = "gesture"
  BY <1>3 DEF Id, Ids
<1>5. /\ x \in Transitions(Ids) /\ x.id = Id(t) /\ x.status = "pending" /\ x.group = None
      /\ x.target = Target(q) /\ (x.kind = "launch" <=> x.clip # None)
  BY <1>2, <1>3, <1>4 DEF Transition, Transitions
<1> HIDE DEF x
<1>11. EntryFor(t, x)
  BY <1>4, <1>5 DEF EntryFor
<1>6. /\ f \in Performances(Ids)
      /\ f.phase = Now.phase /\ f.stop = Now.stop /\ f.clip = Now.clip /\ f.beat = Now.beat
      /\ Now.ids \subseteq f.ids /\ f.ids \subseteq Now.ids \cup {x.id}
      /\ \A u \in Tracks : u # t => f.pending[u] = Now.pending[u]
      /\ \/ f.pending[t] = Now.pending[t]
         \/ f.pending[t] = x /\ t \notin ScheduledOn(Now) /\ x.id \in f.ids
  BY <1>1, <1>2, <1>11, QueuedIs
<1> HIDE DEF f
<1>7. x # None
  BY <1>5, NoneIs
<1>8. Asked(Now, f, None, Target(q))
  BY <1>4, <1>5, <1>6, <1>7 DEF Asked, Pending
<1>9. /\ Sound(f) /\ Kept(Now, f)
      /\ \A h \in Ids : h # None => Members(f, h) \subseteq Members(Now, h)
      /\ Weakly(engine, f) /\ f.beat <= engine.beat
  BY <1>2, <1>8, AskedIs
<1>10. \A id \in f.ids \ runtime.ids : id[3] = "gesture" /\ id[1] = made.requests + 1
  BY <1>2, <1>4, <1>5, <1>6
<1> QED
  BY <1>1, <1>9, <1>10, RequestKeeps DEF f

LEMMA LaunchClipKeeps ==
    ASSUME IInv, NEW t \in Tracks, NEW c \in Clips, NEW q \in Quantizations, LaunchClip(t, c, q)
    PROVE  Keeps
<1>1. c # None /\ c \in Clips \cup {None}
  BY NoneIs
<1>2. Gesture(q) /\ Request(t, Transition(Id(t), "launch", c, Now.beat, Target(q), None))
  BY DEF LaunchClip
<1> QED
  BY <1>1, <1>2, RequestOne

LEMMA StopTrackKeeps ==
    ASSUME IInv, NEW t \in Tracks, NEW q \in Quantizations, StopTrack(t, q)
    PROVE  Keeps
<1>1. None \in Clips \cup {None}
  OBVIOUS
<1>2. Gesture(q) /\ Request(t, Transition(Id(t), "stop", None, Now.beat, Target(q), None))
  BY DEF StopTrack
<1> QED
  BY <1>1, <1>2, RequestOne

LEMMA LaunchSceneKeeps ==
    ASSUME IInv, NEW c \in Clips, NEW q \in Quantizations, LaunchScene(c, q)
    PROVE  Keeps
<1> DEFINE clips == [t \in Tracks |-> c]
           g == Id(None)
           target == Target(q)
           x(t) == SceneTransition(g, t, clips, Now.beat, target)
           f == SceneQueued(Now, g, clips, target)
<1>1. /\ Yielded /\ session = "active" /\ Running(runtime) /\ UNCHANGED <<song, session>>
      /\ SceneQueueable(Now, g, clips, target)
      /\ SyncPending([Both EXCEPT !.runtime = f], song, Requesting)
  BY DEF LaunchScene, Gesture, Running
<1>2. /\ Sound(Now) /\ Now.ids = runtime.ids /\ Now.beat \in Nat
      /\ Running(Now) /\ Agreed(engine, Now)
  BY <1>1, NowIs
<1>3. target \in Nat /\ made.requests \in Nat /\ c # None
  BY TargetIs, NoneIs DEF IInv, Types
<1>4. g = <<made.requests + 1, None, "gesture">>
  BY DEF Id
<1>5. g \in Ids /\ g[1] = made.requests + 1 /\ g[3] = "gesture"
  BY <1>3, <1>4 DEF Ids
<1>6. \A t \in Tracks : [g EXCEPT ![2] = t] = <<made.requests + 1, t, "gesture">>
  BY <1>4
<1> DEFINE id(t) == [g EXCEPT ![2] = t]
<1>7. \A t \in Tracks : id(t) \in Ids /\ id(t)[1] = made.requests + 1 /\ id(t)[2] = t /\ id(t)[3] = "gesture"
  BY <1>3, <1>6 DEF Ids
<1>8. g \notin Now.ids /\ \A t \in Tracks : Queueable(Now, t, x(t))
  BY <1>1 DEF SceneQueueable
<1>9. \A t \in Tracks : x(t) = [id |-> id(t), kind |-> "launch", clip |-> c, requested |-> Now.beat,
                                target |-> target, group |-> g, status |-> "pending"]
  BY <1>3 DEF SceneTransition, Transition
<1>10. f = [Now EXCEPT !.ids = Now.ids \cup {g} \cup {id(t) : t \in Tracks},
                       !.pending = [t \in Tracks |-> Queued(Now, t, x(t), FALSE).pending[t]]]
  BY <1>2 DEF SceneQueued, Sound, Performances
<1> HIDE DEF id, x, g, target
<1>11. \A t \in Tracks :
          /\ x(t) \in Transitions(Ids) /\ x(t).id = id(t) /\ x(t).status = "pending" /\ x(t).group = g
          /\ x(t).target = target /\ x(t).kind = "launch" /\ x(t).clip # None /\ x(t) # None
  <2> SUFFICES ASSUME NEW t \in Tracks
               PROVE  /\ x(t) \in Transitions(Ids) /\ x(t).id = id(t) /\ x(t).status = "pending"
                      /\ x(t).group = g /\ x(t).target = target /\ x(t).kind = "launch"
                      /\ x(t).clip # None /\ x(t) # None
    OBVIOUS
  <2>1. x(t) \in Transitions(Ids)
    BY <1>2, <1>3, <1>5, <1>7, <1>9 DEF Transitions
  <2> QED
    BY <1>3, <1>9, <2>1, NoneIs
<1> DEFINE entries == [t \in Tracks |-> Queued(Now, t, x(t), FALSE).pending[t]]
<1>12. \A t \in Tracks :
          /\ entries[t] \in Transitions(Ids) \cup {None}
          /\ \/ entries[t] = Now.pending[t]
             \/ entries[t] = x(t) /\ t \notin ScheduledOn(Now)
  <2> SUFFICES ASSUME NEW t \in Tracks
               PROVE  LET y == Queued(Now, t, x(t), FALSE).pending[t]
                      IN  /\ y \in Transitions(Ids) \cup {None}
                          /\ y = Now.pending[t] \/ (y = x(t) /\ t \notin ScheduledOn(Now))
    OBVIOUS
  <2>0. EntryFor(t, x(t)) /\ Queueable(Now, t, x(t))
    BY <1>7, <1>8, <1>11 DEF EntryFor
  <2>1. \A y :
           EntryFor(t, y) /\ Queueable(Now, t, y)
           => /\ Queued(Now, t, y, FALSE).pending[t] \in Transitions(Ids) \cup {None}
              /\ \/ Queued(Now, t, y, FALSE).pending[t] = Now.pending[t]
                 \/ Queued(Now, t, y, FALSE).pending[t] = y /\ t \notin ScheduledOn(Now)
    BY <1>2, QueuedEntry
  <2> QED
    BY <2>0, <2>1
<1> HIDE DEF entries
<1>13. entries \in [Tracks -> Transitions(Ids) \cup {None}]
  BY <1>12 DEF entries
<1> DEFINE ids == Now.ids \cup {g} \cup {id(t) : t \in Tracks}
<1>14. Now \in Performances(Ids) /\ ids \in SUBSET Ids
  BY <1>2, <1>5, <1>7 DEF Sound, Performances
<1>15. \A t \in Tracks : id(t) \in ids
  OBVIOUS
<1>16. g \in ids /\ Now.ids \subseteq ids
       /\ \A i \in ids \ Now.ids : i[3] = "gesture" /\ i[1] = made.requests + 1
  BY <1>5, <1>7
<1>17. f = [Now EXCEPT !.ids = ids, !.pending = entries]
  BY <1>10 DEF entries
<1> HIDE DEF ids, f
<1>18. /\ f \in Performances(Ids) /\ f.ids = ids /\ f.pending = entries
       /\ f.phase = Now.phase /\ f.stop = Now.stop /\ f.clip = Now.clip /\ f.beat = Now.beat
  BY <1>13, <1>14, <1>17 DEF Performances
<1>19. Asked(Now, f, g, target)
  <2>1. \A t \in Tracks :
          \/ f.pending[t] = Now.pending[t]
          \/ /\ t \notin ScheduledOn(Now) /\ Pending(f, t)
             /\ f.pending[t].status = "pending" /\ f.pending[t].group = g
             /\ f.pending[t].target = target
             /\ f.pending[t].id[2] = t /\ f.pending[t].id \in f.ids
             /\ (f.pending[t].kind = "launch" <=> f.pending[t].clip # None)
    BY <1>7, <1>11, <1>12, <1>15, <1>18 DEF Pending
  <2> QED
    BY <1>5, <1>8, <1>16, <1>18, <2>1 DEF Asked
<1>20. /\ Sound(f) /\ Kept(Now, f)
       /\ \A h \in Ids : h # g => Members(f, h) \subseteq Members(Now, h)
       /\ Weakly(engine, f) /\ f.beat <= engine.beat
  BY <1>2, <1>19, AskedIs
<1>21. \A i \in f.ids \ runtime.ids : i[3] = "gesture" /\ i[1] = made.requests + 1
  BY <1>2, <1>16, <1>18
<1>22. SyncPending([Both EXCEPT !.runtime = f], song, Requesting)
  BY <1>1 DEF f, g, target
<1> QED
  BY <1>1, <1>5, <1>20, <1>21, <1>22, RequestKeeps

LEMMA StopTransportKeeps ==
    ASSUME IInv, NEW q \in Quantizations, StopTransport(q)
    PROVE  Keeps
<1> DEFINE id == Id(None)
           stop == [id |-> id, requested |-> Now.beat, target |-> Target(q), status |-> "pending"]
           f == StopRequested(Now, id, Target(q))
<1>1. /\ Yielded /\ session = "active" /\ Running(runtime) /\ UNCHANGED <<song, session>>
      /\ StopRequestable(Now, id)
      /\ SyncPending([Both EXCEPT !.runtime = f], song, Requesting)
  BY DEF StopTransport, Gesture, Running
<1>2. /\ Sound(Now) /\ Now.ids = runtime.ids /\ Now.beat \in Nat
      /\ Running(Now) /\ Agreed(engine, Now)
  BY <1>1, NowIs
<1>3. Target(q) \in Nat /\ made.requests \in Nat
  BY TargetIs DEF IInv, Types
<1>4. id \in Ids /\ id[1] = made.requests + 1 /\ id[3] = "gesture"
  BY <1>3 DEF Id, Ids
<1>5. stop \in Stops(Ids) /\ stop.status = "pending"
  BY <1>2, <1>3, <1>4 DEF Stops
<1>6. f = [Now EXCEPT !.phase = "stopping", !.ids = Now.ids \cup {id}, !.stop = stop]
  BY <1>2 DEF StopRequested, Sound, Performances
<1> HIDE DEF id, stop, f
<1>7. /\ f \in Performances(Ids) /\ f.phase = "stopping" /\ f.stop = stop /\ f.ids = Now.ids \cup {id}
      /\ f.pending = Now.pending /\ f.clip = Now.clip /\ f.beat = Now.beat
  BY <1>2, <1>4, <1>5, <1>6 DEF Sound, Performances
<1>8. stop # None
  BY <1>5, NoneIs
<1>9. ScheduledOn(f) = ScheduledOn(Now) /\ Kept(Now, f) /\ \A g : Members(f, g) = Members(Now, g)
  BY <1>7, EntriesAlike
<1>10. Sound(f)
  BY <1>2, <1>7, <1>8 DEF Sound, Together, EntrySound, Pending, Running
<1>11. Weakly(engine, f) /\ f.beat <= engine.beat
  <2>1. Now.stop = None
    BY <1>1 DEF StopRequestable
  <2>2. engine.stop = None
    BY <1>2, <2>1 DEF Agreed, Weakly, StopsAgree
  <2>3. StopsAgree(engine, f)
    BY <1>5, <1>7, <2>2 DEF StopsAgree
  <2> QED
    BY <1>2, <1>7, <1>9, <2>3 DEF Agreed, Weakly, SameTransition, Pending
<1>12. \A h \in Ids : h # None => Members(f, h) \subseteq Members(Now, h)
  BY <1>9
<1>13. \A i \in f.ids \ runtime.ids : i[3] = "gesture" /\ i[1] = made.requests + 1
  BY <1>2, <1>4, <1>7
<1> QED
  BY <1>1, <1>9, <1>10, <1>11, <1>12, <1>13, RequestKeeps DEF f

(***************************************************************************)
(* A step that leaves the loop alone.                                      *)
(***************************************************************************)
LEMMA LoopKeeps ==
    ASSUME IInv, UNCHANGED sync, song' \in Songs, made' \in Counters, made'.requests = made.requests,
           session' \in {"none", "starting", "outdated", "active"},
           session' \in {"starting", "outdated"} => sync.pc \in {"idle", "failed"},
           engine' \in SessionEngines, SameRequests(engine, engine'),
           \A t \in Tracks : engine.pending[t] = None => engine'.pending[t] = None,
           Sound(runtime'), Waning(runtime, runtime', made.requests), Kept(runtime, runtime'),
           runtime'.ids \subseteq runtime.ids,
           Running(runtime') => session' = "active" /\ Agreed(engine', runtime'),
           session' = "starting" => Silent(engine')
    PROVE  IInv'
<1>1. made.requests \in Nat
  BY DEF IInv, Types
<1>2. /\ \A i \in DOMAIN sync.units : UnitSound(sync.units[i], runtime', made.requests)
      /\ sync.pc = "preparing" => BatchOf(engine', Head(sync.units))
      /\ sync.pc # "preparing" => engine'.batch[Caller] = None
  BY <1>1, LoopStays
<1>3. LoopSound'
  <2>1. /\ \A i, j \in DOMAIN sync.units : i # j => DOMAIN sync.units[i] \cap DOMAIN sync.units[j] = {}
        /\ sync.pc = "preparing" => sync.units # << >>
    BY DEF IInv, LoopSound
  <2> QED
    BY <1>2, <2>1 DEF LoopSound
<1>4. Types'
  BY DEF IInv, Types, Counters
<1>5. Numbered(runtime', made'.requests)
  BY DEF IInv, Numbered
<1> QED
  BY <1>3, <1>4, <1>5 DEF IInv

(* Entries are dropped, of scenes that wait as a whole. *)
Thinned(r, f) == \A t \in Tracks : f.pending[t] = None \/ f.pending[t] = r.pending[t]
TogetherGone(r, f) ==
    \A t, u \in Tracks :
        Pending(f, t) /\ Pending(r, t) /\ Pending(r, u) /\ r.pending[t].status = "pending"
          /\ r.pending[t].group # None /\ r.pending[u].group = r.pending[t].group
        => Pending(f, u)

LEMMA SameIs ==
    ASSUME NEW x \in Transitions(Ids), NEW y \in Transitions(Ids), Same(x, y)
    PROVE  /\ x.id = y.id /\ x.kind = y.kind /\ x.clip = y.clip /\ x.requested = y.requested
           /\ x.target = y.target /\ x.group = y.group
<1>1. [x EXCEPT !.status = y.status] = y
  BY DEF Same
<1>2. y.status \in {"pending", "scheduled"}
  BY DEF Transitions
<1> DEFINE z == [x EXCEPT !.status = y.status]
<1>3. /\ z.id = x.id /\ z.kind = x.kind /\ z.clip = x.clip /\ z.requested = x.requested
      /\ z.target = x.target /\ z.group = x.group
  BY <1>2, StatusSet
<1> QED
  BY <1>1, <1>3

(* What a match says of a unit's members. *)
LEMMA MatchIs ==
    ASSUME NEW r, Sound(r), NEW unit, NEW n, UnitSound(unit, r, n), Matches(r, unit)
    PROVE  \A t \in DOMAIN unit :
              /\ t \in Tracks /\ Pending(r, t) /\ r.pending[t].status = "pending"
              /\ r.pending[t].id = unit[t].id /\ r.pending[t].kind = unit[t].kind
              /\ r.pending[t].clip = unit[t].clip /\ r.pending[t].target = unit[t].target
              /\ r.pending[t].group = unit[t].group
<1> TAKE t \in DOMAIN unit
<1>1. t \in Tracks /\ unit[t] \in Transitions(Ids)
  BY DEF UnitSound
<1>2. Same(r.pending[t], unit[t]) /\ r.pending[t].status = "pending"
  BY DEF Matches
<1>3. Pending(r, t)
  BY <1>2 DEF Same, Pending
<1>4. r.pending[t] \in Transitions(Ids)
  BY <1>1, <1>3, EntryIs
<1> QED
  BY <1>1, <1>2, <1>3, <1>4, SameIs

LEMMA UnitTells ==
    ASSUME NEW unit, NEW r, NEW n, UnitSound(unit, r, n), NEW t \in DOMAIN unit
    PROVE  /\ t \in Tracks /\ unit[t] \in Transitions(Ids) /\ unit[t].id[2] = t
           /\ unit[t].group = None => DOMAIN unit = {t}
           /\ \A u \in DOMAIN unit : unit[u].group = unit[t].group
           /\ t \in ScheduledOn(r) => r.pending[t].id # unit[t].id
<1>1. t \in Tracks /\ unit[t] \in Transitions(Ids) /\ unit[t].id[2] = t
  BY DEF UnitSound
<1>2. unit[t].group = None => DOMAIN unit = {t}
  BY Zenon DEF UnitSound
<1>3. \A u \in DOMAIN unit : unit[u].group = unit[t].group
  BY Zenon DEF UnitSound
<1>4. t \in ScheduledOn(r) => r.pending[t].id # unit[t].id
  BY Zenon DEF UnitSound
<1> QED
  BY <1>1, <1>2, <1>3, <1>4

LEMMA UnitGroup ==
    ASSUME NEW unit, NEW r, NEW n, UnitSound(unit, r, n), NEW t \in DOMAIN unit, NEW u \in DOMAIN unit
    PROVE  unit[u].group = unit[t].group
<1>1. \A v \in DOMAIN unit : unit[v].group = unit[t].group
  BY Zenon DEF UnitSound
<1> QED
  BY <1>1

(* A unit that matches goes on to match, or is gone. *)
LEMMA MatchStays ==
    ASSUME NEW r, Sound(r), NEW unit, NEW n, UnitSound(unit, r, n), Matches(r, unit),
           NEW f, Thinned(r, f), TogetherGone(r, f), NEW t \in DOMAIN unit, Pending(f, t)
    PROVE  Matches(f, unit)
<1>1. \A u \in DOMAIN unit :
              /\ u \in Tracks /\ Pending(r, u) /\ r.pending[u].status = "pending"
              /\ r.pending[u].group = unit[u].group
  BY MatchIs
<1>2. \A u \in DOMAIN unit : Pending(f, u)
  <2> SUFFICES ASSUME NEW u \in DOMAIN unit PROVE Pending(f, u)
    OBVIOUS
  <2>1. CASE unit[t].group = None
    <3>1. DOMAIN unit = {t}
      BY <2>1, UnitTells, Zenon
    <3> QED
      BY <3>1
  <2>2. CASE unit[t].group # None
    <3>1. unit[u].group = unit[t].group
      BY UnitGroup, Zenon
    <3> QED
      BY <1>1, <2>2, <3>1 DEF TogetherGone
  <2> QED
    BY <2>1, <2>2
<1>3. \A u \in DOMAIN unit : f.pending[u] = r.pending[u]
  BY <1>1, <1>2 DEF Thinned, Pending
<1> QED
  BY <1>3 DEF Matches

LEMMA CoverKeeps ==
    ASSUME IInv, JInv, UNCHANGED sync,
           made'.refreshes = made.refreshes, made'.sessions = made.sessions,
           session = "none" => session' = "none", session' = "active" => session = "active" /\ song' = song,
           SameRequests(engine, engine'), runtime'.ids \subseteq runtime.ids,
           Running(runtime') =>
               /\ Running(runtime) /\ song' = song /\ Audible(engine', runtime')
               /\ Thinned(runtime, runtime') /\ TogetherGone(runtime, runtime')
               /\ \A t \in ScheduledOn(runtime') : engine'.pending[t].request = engine.pending[t].request
    PROVE  JInv'
<1>1. RefreshNumbered(runtime', made'.refreshes)
  BY DEF JInv, RefreshNumbered
<1>2. FirstSession'
  BY DEF JInv, FirstSession
<1>3. BatchCurrent'
  <2> SUFFICES ASSUME sync.pc = "preparing", ~sync.dirty, session' = "active",
                      NEW i \in DOMAIN engine'.batch[Caller].requests
               PROVE  LET q == engine'.batch[Caller].requests[i]
                      IN  q.material = MaterialOf(song', q.track, Head(sync.units)[q.track].clip)
    BY DEF BatchCurrent
  <2>1. engine.batch[Caller] # None
    BY DEF IInv, LoopSound, BatchOf
  <2>2. engine'.batch[Caller].requests = engine.batch[Caller].requests
    BY <2>1, CallerIs DEF SameRequests
  <2>3. BatchCurrent /\ session = "active" /\ song' = song
    BY DEF JInv
  <2> QED
    BY <2>2, <2>3 DEF BatchCurrent
<1>4. Covered'
  <2> SUFFICES ASSUME Current'
               PROVE  /\ Wanted(song', engine', runtime')
                      /\ \A t \in Tracks :
                            Pending(runtime', t) /\ t \notin ScheduledOn(runtime')
                            => /\ sync.pc # "idle"
                               /\ \E i \in DOMAIN sync.units :
                                     t \in DOMAIN sync.units[i] /\ Matches(runtime', sync.units[i])
    BY DEF Covered, InUnits
  <2>1. Running(runtime') /\ Current
    BY DEF Current
  <2>2. /\ Wanted(song, engine, runtime)
        /\ \A t \in Tracks :
              Pending(runtime, t) /\ t \notin ScheduledOn(runtime)
              => sync.pc # "idle" /\ InUnits(runtime, t)
    BY <2>1 DEF JInv, Covered
  <2>3. Sound(runtime) /\ Thinned(runtime, runtime') /\ TogetherGone(runtime, runtime')
    BY <2>1 DEF IInv
  <2>4. \A t \in ScheduledOn(runtime') : t \in ScheduledOn(runtime) /\ runtime'.pending[t] = runtime.pending[t]
    BY <2>3 DEF ScheduledOn, Thinned
  <2>5. Wanted(song', engine', runtime')
    BY <2>1, <2>2, <2>4 DEF Wanted
  <2>6. ASSUME NEW t \in Tracks, Pending(runtime', t), t \notin ScheduledOn(runtime')
        PROVE  sync.pc # "idle" /\ \E i \in DOMAIN sync.units : t \in DOMAIN sync.units[i]
                                                                /\ Matches(runtime', sync.units[i])
    <3>1. runtime'.pending[t] = runtime.pending[t]
      BY <2>3, <2>6 DEF Thinned, Pending
    <3>2. Pending(runtime, t) /\ t \notin ScheduledOn(runtime)
      BY <2>6, <3>1 DEF Pending, ScheduledOn
    <3>3. sync.pc # "idle" /\ InUnits(runtime, t)
      BY <2>2, <3>2
    <3>4. PICK i \in DOMAIN sync.units : t \in DOMAIN sync.units[i] /\ Matches(runtime, sync.units[i])
      BY <3>3 DEF InUnits
    <3>5. UnitSound(sync.units[i], runtime, made.requests)
      BY DEF IInv, LoopSound
    <3>6. Matches(runtime', sync.units[i])
      BY <2>3, <2>6, <3>4, <3>5, MatchStays
    <3> QED
      BY <3>3, <3>4, <3>6
  <2> QED
    BY <2>5, <2>6
<1>5. Running(runtime') => Audible(engine', runtime')
  OBVIOUS
<1> QED
  BY <1>1, <1>2, <1>3, <1>4, <1>5 DEF JInv

-----------------------------------------------------------------------------
(* THE OTHER TASKS                                                         *)

LEMMA RestIs ==
    ASSUME NEW r, Sound(r), ~Running(r)
    PROVE  /\ ScheduledOn(r) = {} /\ \A t \in Tracks : ~Pending(r, t)
           /\ \A g \in Ids : Members(r, g) = {}
           /\ \A f, n : Kept(f, r) /\ Waning(f, r, n)
<1>1. \A t \in Tracks : r.pending[t] = None
  BY DEF Sound
<1>2. ScheduledOn(r) = {} /\ \A g \in Ids : Members(r, g) = {}
  BY <1>1 DEF ScheduledOn, Members
<1> QED
  BY <1>1, <1>2 DEF Pending, Kept, Waning

(* A step after which nothing runs. *)
LEMMA RestKeeps ==
    ASSUME IInv, UNCHANGED sync, song' \in Songs, made' \in Counters,
           made'.requests = made.requests, made'.refreshes = made.refreshes,
           made'.sessions = made.sessions,
           session' \in {"none", "starting", "outdated", "active"},
           session' \in {"starting", "outdated"} => sync.pc \in {"idle", "failed"},
           session' = "starting" => Silent(engine'),
           session = "none" => session' = "none",
           session' = "active" => session = "active" /\ song' = song,
           engine' \in SessionEngines, SameRequests(engine, engine'),
           \A t \in Tracks : engine.pending[t] = None => engine'.pending[t] = None,
           Sound(runtime'), ~Running(runtime'), runtime'.ids \subseteq runtime.ids
    PROVE  Keeps
<1>1. Kept(runtime, runtime') /\ Waning(runtime, runtime', made.requests)
  BY RestIs
<1>2. IInv'
  BY <1>1, LoopKeeps
<1>3. JInv => JInv'
  BY CoverKeeps
<1> QED
  BY <1>2, <1>3 DEF Keeps

LEMMA RuntimeIs ==
    ASSUME IInv
    PROVE  /\ Sound(runtime) /\ engine \in SessionEngines /\ made \in Counters /\ song \in Songs
           /\ session \in {"none", "starting", "outdated", "active"}
           /\ session \in {"starting", "outdated"} => sync.pc \in {"idle", "failed"}
           /\ Running(runtime) => session = "active" /\ Agreed(engine, runtime)
           /\ SameRequests(engine, engine) /\ Kept(runtime, runtime)
           /\ \A n : Waning(runtime, runtime, n)
           /\ Thinned(runtime, runtime) /\ TogetherGone(runtime, runtime)
           /\ made.requests \in Nat /\ made.refreshes \in Nat
BY DEF IInv, Types, LoopSound, Counters, SameRequests, Kept, Waning, Thinned, TogetherGone

LEMMA SyncClockKeeps ==
    ASSUME IInv, SyncClock
    PROVE  Keeps
<1>1. /\ session = "active" /\ runtime' = Now
      /\ UNCHANGED <<engine, song, session, sync, made>>
  BY DEF SyncClock
<1>2. /\ Sound(Now) /\ Now.phase = runtime.phase /\ Now.ids = runtime.ids /\ Now.clip = runtime.clip
      /\ Now.pending = runtime.pending
      /\ Running(runtime) => Agreed(engine, Now)
  BY NowIs
<1>3. /\ ScheduledOn(Now) = ScheduledOn(runtime) /\ Kept(runtime, Now)
      /\ \A g : Members(Now, g) = Members(runtime, g)
      /\ \A t : Pending(Now, t) <=> Pending(runtime, t)
  BY <1>2, EntriesAlike
<1>4. Running(Now) => Running(runtime)
  BY <1>2 DEF Running
<1>5. IInv'
  <2>1. Waning(runtime, runtime', made.requests) /\ Kept(runtime, runtime')
    BY <1>1, <1>3 DEF Waning
  <2>2. /\ Sound(runtime') /\ runtime'.ids \subseteq runtime.ids
        /\ Running(runtime') => session' = "active" /\ Agreed(engine', runtime')
    BY <1>1, <1>2, <1>4
  <2>3. SameRequests(engine, engine') /\ engine' \in SessionEngines /\ made' \in Counters /\ song' \in Songs
    BY <1>1, RuntimeIs
  <2> QED
    BY <1>1, <2>1, <2>2, <2>3, LoopKeeps
<1>6. ASSUME JInv PROVE JInv'
  <2>1. ASSUME Running(runtime')
        PROVE  /\ Running(runtime) /\ song' = song /\ Audible(engine', runtime')
               /\ Thinned(runtime, runtime') /\ TogetherGone(runtime, runtime')
    <3>1. Running(runtime) /\ Audible(engine, runtime)
      BY <1>1, <1>4, <1>6, <2>1 DEF JInv
    <3>2. Audible(engine', runtime')
      BY <1>1, <1>2, <3>1 DEF Audible
    <3>3. Thinned(runtime, runtime') /\ TogetherGone(runtime, runtime')
      BY <1>1, <1>2 DEF Thinned, TogetherGone, Pending
    <3> QED
      BY <1>1, <3>1, <3>2, <3>3
  <2>2. SameRequests(engine, engine') /\ runtime'.ids \subseteq runtime.ids
    BY <1>1, <1>2, RuntimeIs
  <2> QED
    BY <1>1, <1>6, <2>1, <2>2, CoverKeeps
<1> QED
  BY <1>5, <1>6 DEF Keeps

LEMMA TickKeeps ==
    ASSUME IInv, Tick
    PROVE  Keeps
<1>1. /\ engine' = [engine EXCEPT !.beat = @ + 1] /\ engine.running
      /\ UNCHANGED <<runtime, song, session, sync, made>>
  BY DEF Tick, Advancing
<1>2. engine \in SessionEngines
  BY RuntimeIs
<1>3. engine.beat \in Nat /\ engine.beat + 1 \in Nat
  BY <1>2 DEF SessionEngines
<1>4. /\ engine' \in SessionEngines /\ engine'.batch = engine.batch /\ engine'.pending = engine.pending
      /\ engine'.active = engine.active /\ engine'.stop = engine.stop /\ engine'.phase = engine.phase
      /\ engine'.running = engine.running /\ engine'.beat = engine.beat + 1
  BY <1>1, <1>2, <1>3 DEF SessionEngines
<1>5. SameRequests(engine, engine')
  BY <1>4, BatchKept
<1>6. Agreed(engine, runtime) => Agreed(engine', runtime)
  <2>1. runtime.beat \in Nat
    BY RuntimeIs DEF Sound, Performances
  <2> QED
    BY <1>3, <1>4, <2>1 DEF Agreed, Weakly, StopsAgree, SameTransition
<1>7. session = "starting" => Silent(engine')
  BY <1>4 DEF IInv, Silent
<1>8. IInv'
  BY <1>1, <1>4, <1>5, <1>6, <1>7, RuntimeIs, LoopKeeps
<1>9. ASSUME JInv PROVE JInv'
  <2>1. ASSUME Running(runtime) PROVE Audible(engine', runtime)
    BY <1>4, <1>9, <2>1 DEF JInv, Audible
  <2> QED
    BY <1>1, <1>4, <1>5, <1>9, <2>1, RuntimeIs, CoverKeeps
<1> QED
  BY <1>8, <1>9 DEF Keeps

(* A step that only answers an outdated call of unlock. *)
LEMMA AlikeKeeps ==
    ASSUME IInv, UNCHANGED <<runtime, song, session, sync, made>>, engine' \in SessionEngines,
           engine'.running = engine.running, engine'.phase = engine.phase,
           engine'.beat = engine.beat, engine'.stop = engine.stop,
           engine'.pending = engine.pending, engine'.active = engine.active,
           engine'.batch = engine.batch
    PROVE  Keeps
<1>1. SameRequests(engine, engine')
  BY BatchKept
<1>2. Agreed(engine, runtime) => Agreed(engine', runtime)
  BY DEF Agreed, Weakly, StopsAgree, SameTransition
<1>3. session = "starting" => Silent(engine')
  BY DEF IInv, Silent
<1>4. IInv'
  BY <1>1, <1>2, <1>3, RuntimeIs, LoopKeeps
<1>5. ASSUME JInv PROVE JInv'
  <2>1. ASSUME Running(runtime) PROVE Audible(engine', runtime)
    BY <1>5, <2>1 DEF JInv, Audible
  <2> QED
    BY <1>1, <1>5, <2>1, RuntimeIs, CoverKeeps
<1> QED
  BY <1>4, <1>5 DEF Keeps

LEMMA QuietKept ==
    ASSUME NEW e \in SessionEngines
    PROVE  /\ Stopped(e) \in SessionEngines /\ SameRequests(e, Stopped(e)) /\ Silent(Stopped(e))
           /\ Stopped(e).phase = "stopped"
           /\ \A t \in Tracks : Stopped(e).pending[t] = None
BY StoppedIs DEF Quiet, Silent

LEMMA DisposingKeeps ==
    ASSUME IInv, NEW e \in SessionEngines, NEW r, Disposing(e, r),
           SameRequests(engine, e), \A t \in Tracks : engine.pending[t] = None => e.pending[t] = None,
           e.phase = "stopped" => Sound(r) /\ ~Running(r) /\ r.ids \subseteq runtime.ids
    PROVE  Keeps
<1>1. /\ engine' = IF e.phase = "stopped" THEN e ELSE Stopped(e)
      /\ runtime' = IF e.phase = "stopped" THEN r ELSE NewPerformance
      /\ session' = "none" /\ UNCHANGED <<song, sync, made>>
  BY DEF Disposing
<1>2. /\ engine' \in SessionEngines /\ SameRequests(engine, engine')
      /\ \A t \in Tracks : engine.pending[t] = None => engine'.pending[t] = None
  <2>1. CASE e.phase = "stopped"
    BY <1>1, <2>1
  <2>2. CASE e.phase # "stopped"
    <3>1. engine' = Stopped(e)
      BY <1>1, <2>2
    <3>2. engine' \in SessionEngines /\ SameRequests(e, engine') /\ \A t \in Tracks : engine'.pending[t] = None
      BY <3>1, QuietKept
    <3> QED
      BY <3>2, RequestsKept
  <2> QED
    BY <2>1, <2>2
<1>3. NewPerformance.ids = {}
  BY DEF NewPerformance
<1>4. Sound(runtime') /\ ~Running(runtime') /\ runtime'.ids \subseteq runtime.ids
  BY <1>1, <1>3, NewIs
<1> QED
  BY <1>1, <1>2, <1>4, RuntimeIs, RestKeeps

LEMMA RejectedIs ==
    ASSUME NEW e \in SessionEngines, e.unlocking[Caller] # "no"
    PROVE  LET f == UnlockRejected(e, Caller)
           IN  /\ f \in SessionEngines /\ f.running = e.running /\ f.beat = e.beat /\ f.stop = e.stop
               /\ f.pending = e.pending /\ f.active = e.active /\ f.batch = e.batch
               /\ f.phase = IF e.unlocking[Caller] = "fresh" THEN "blocked" ELSE e.phase
<1>1. [e.unlocking EXCEPT ![Caller] = "no"] \in [Callers -> {"no", "fresh", "stale"}]
  BY CallerIs DEF SessionEngines
<1> QED
  BY <1>1 DEF UnlockRejected, SessionEngines

LEMMA UnlockFailsKeeps ==
    ASSUME IInv, UnlockFails
    PROVE  Keeps
<1> DEFINE e == UnlockRejected(engine, Caller)
<1>1. /\ engine.unlocking[Caller] # "no"
      /\ IF engine.unlocking[Caller] = "fresh" THEN Disposing(e, runtime)
         ELSE engine' = e /\ UNCHANGED <<runtime, song, session, sync, made>>
  BY DEF UnlockFails
<1>2. /\ e \in SessionEngines /\ e.running = engine.running /\ e.beat = engine.beat
      /\ e.stop = engine.stop /\ e.pending = engine.pending /\ e.active = engine.active
      /\ e.batch = engine.batch
      /\ e.phase = IF engine.unlocking[Caller] = "fresh" THEN "blocked" ELSE engine.phase
  BY <1>1, RuntimeIs, RejectedIs
<1> HIDE DEF e
<1>3. CASE engine.unlocking[Caller] = "fresh"
  <2>1. SameRequests(engine, e)
    BY <1>2, BatchKept
  <2> QED
    BY <1>1, <1>2, <1>3, <2>1, DisposingKeeps
<1>4. CASE engine.unlocking[Caller] # "fresh"
  BY <1>1, <1>2, <1>4, AlikeKeeps
<1> QED
  BY <1>3, <1>4

LEMMA CloseIdleKeeps ==
    ASSUME IInv, CloseIdle
    PROVE  Keeps
<1>1. Disposing(engine, runtime) /\ ~Running(runtime)
  BY DEF CloseIdle, Running
<1> QED
  BY <1>1, RuntimeIs, DisposingKeeps

LEMMA EmergencyStopKeeps ==
    ASSUME IInv, EmergencyStop
    PROVE  Keeps
<1>1. Disposing(Stopped(engine), NewPerformance)
  BY DEF EmergencyStop
<1>2. NewPerformance.ids = {}
  BY DEF NewPerformance
<1>3. /\ Stopped(engine) \in SessionEngines /\ SameRequests(engine, Stopped(engine))
      /\ \A t \in Tracks : Stopped(engine).pending[t] = None
  BY RuntimeIs, QuietKept
<1> QED
  BY <1>1, <1>2, <1>3, NewIs, DisposingKeeps

LEMMA TransportStopKeeps ==
    ASSUME IInv, TransportStop
    PROVE  Keeps
<1>1. /\ engine' = Stopped(engine) /\ StopDue(engine)
      /\ UNCHANGED <<song, session, sync, made>>
      /\ runtime' = IF session = "active" /\ runtime.stop # None /\ ~Unscheduled(runtime)
                       /\ runtime.stop.id = engine.stop.id
                    THEN TransportStopped(runtime, engine.beat) ELSE runtime
  BY DEF TransportStop
<1>2. /\ engine' \in SessionEngines /\ SameRequests(engine, engine') /\ Silent(engine')
      /\ \A t \in Tracks : engine'.pending[t] = None
  BY <1>1, RuntimeIs, QuietKept
<1>3. Sound(runtime) /\ engine.beat \in Nat
  BY RuntimeIs DEF SessionEngines
<1>4. /\ Sound(TransportStopped(runtime, engine.beat)) /\ ~Running(TransportStopped(runtime, engine.beat))
      /\ TransportStopped(runtime, engine.beat).ids = runtime.ids
  <2> DEFINE beat == Advanced(runtime, engine.beat).beat
  <2>1. beat \in Nat /\ runtime.ids \in SUBSET Ids
    BY <1>3, AdvancedIs DEF Sound, Performances
  <2> HIDE DEF beat
  <2>2. TransportStopped(runtime, engine.beat) = [NewPerformance EXCEPT !.beat = beat, !.ids = runtime.ids]
    BY DEF TransportStopped, beat
  <2> DEFINE f == TransportStopped(runtime, engine.beat)
  <2>3. f = [NewPerformance EXCEPT !.beat = beat, !.ids = runtime.ids]
    BY <2>2
  <2> HIDE DEF f
  <2>4. /\ f.phase = "idle" /\ f.stop = None /\ f.ids = runtime.ids
        /\ \A t \in Tracks : f.clip[t] = None /\ f.pending[t] = None
    BY <2>3 DEF NewPerformance
  <2>5. f \in Performances(Ids)
    BY <2>1, <2>3, NewIs DEF Performances
  <2>6. /\ f \in Performances(Ids) /\ f.phase = "idle" /\ f.stop = None /\ f.ids = runtime.ids
        /\ \A t \in Tracks : f.clip[t] = None /\ f.pending[t] = None
    BY <2>4, <2>5
  <2>7. Sound(f) /\ ~Running(f)
    BY <2>6 DEF Sound, Running, Pending, Together
  <2> QED
    BY <2>6, <2>7 DEF f
<1>5. Sound(runtime') /\ ~Running(runtime') /\ runtime'.ids \subseteq runtime.ids
  <2>1. CASE ~Running(runtime)
    BY <1>1, <1>3, <1>4, <2>1
  <2>2. CASE Running(runtime)
    <3>1. session = "active" /\ StopsAgree(engine, runtime)
      BY <2>2 DEF IInv, Agreed, Weakly
    <3>2. runtime.stop # None /\ runtime.stop.status = "scheduled" /\ runtime.stop.id = engine.stop.id
      BY <1>1, <3>1 DEF StopsAgree, StopDue
    <3>3. ~Unscheduled(runtime)
      BY <3>2 DEF Unscheduled
    <3> QED
      BY <1>1, <1>4, <3>1, <3>2, <3>3
  <2> QED
    BY <2>1, <2>2
<1> QED
  BY <1>1, <1>2, <1>5, RuntimeIs, RestKeeps

(* Both sides drop the same tracks. *)
LEMMA AgreedStays ==
    ASSUME NEW e, NEW r, Agreed(e, r), NEW f, NEW g,
           f.running = e.running, f.phase = e.phase, f.beat = e.beat, g.beat = r.beat,
           StopsAgree(f, g),
           \A t \in Tracks : \/ f.pending[t] = e.pending[t] /\ g.pending[t] = r.pending[t]
                             \/ f.pending[t] = None /\ g.pending[t] = None
    PROVE  /\ Agreed(f, g)
           /\ \A t \in ScheduledOn(g) : t \in ScheduledOn(r) /\ g.pending[t] = r.pending[t]
                                        /\ f.pending[t] = e.pending[t]
           /\ Kept(r, g) /\ Thinned(r, g)
<1>1. Weakly(e, r) /\ r.beat <= e.beat /\ \A t \in Tracks : e.pending[t] # None => t \in ScheduledOn(r)
  BY DEF Agreed
<1>2. \A t \in ScheduledOn(g) : t \in ScheduledOn(r) /\ g.pending[t] = r.pending[t]
                                /\ f.pending[t] = e.pending[t]
  BY DEF ScheduledOn
<1>3. \A t \in Tracks : f.pending[t] # None =>
         t \in ScheduledOn(g) /\ f.pending[t] = e.pending[t] /\ g.pending[t] = r.pending[t]
  <2> SUFFICES ASSUME NEW t \in Tracks, f.pending[t] # None
               PROVE  t \in ScheduledOn(g) /\ f.pending[t] = e.pending[t] /\ g.pending[t] = r.pending[t]
    OBVIOUS
  <2>1. f.pending[t] = e.pending[t] /\ g.pending[t] = r.pending[t]
    OBVIOUS
  <2>2. t \in ScheduledOn(r)
    BY <1>1, <2>1
  <2> QED
    BY <2>1, <2>2 DEF ScheduledOn
<1>4. \A t \in ScheduledOn(g) : f.pending[t] # None /\ SameTransition(f, g, t)
  BY <1>1, <1>2 DEF Weakly, SameTransition
<1>5. \A t \in Tracks \ ScheduledOn(g) :
         f.pending[t] # None /\ Pending(g, t) => f.pending[t].request.id # g.pending[t].id
  BY <1>3
<1>6. f.running /\ f.phase = "running"
  BY <1>1 DEF Weakly
<1>7. Weakly(f, g)
  BY <1>4, <1>5, <1>6 DEF Weakly
<1>8. Kept(r, g) /\ Thinned(r, g)
  BY <1>2 DEF Kept, Thinned
<1> QED
  BY <1>1, <1>2, <1>3, <1>7, <1>8 DEF Agreed

LEMMA CancelUnitIs ==
    ASSUME NEW e \in SessionEngines, NEW unit
    PROVE  LET f == CancelUnit(e, unit)
           IN  /\ f \in SessionEngines
               /\ SameTransport(e, f) /\ f.batch = e.batch /\ SameHeard(e, f)
               /\ \A t \in Tracks :
                     f.pending[t] = IF e.pending[t] # None /\ e.pending[t].request.id \in IdsOf(unit)
                                    THEN None ELSE e.pending[t]
<1> DEFINE tracks == {t \in Tracks : e.pending[t] # None /\ e.pending[t].request.id \in IdsOf(unit)}
<1>1. tracks \in SUBSET Tracks
  OBVIOUS
<1>2. CancelUnit(e, unit) = CancelledAll(e, tracks)
  BY DEF CancelUnit
<1>3. \A t \in Tracks : t \in tracks <=> e.pending[t] # None /\ e.pending[t].request.id \in IdsOf(unit)
  OBVIOUS
<1> HIDE DEF tracks
<1> QED
  BY <1>1, <1>2, <1>3, CancelledAllIs

(* A track's entry, under its own id. *)
LEMMA OwnIds ==
    ASSUME NEW r, Sound(r), NEW t \in Tracks, NEW u \in Tracks, Pending(r, t), Pending(r, u),
           r.pending[t].id = r.pending[u].id
    PROVE  t = u
BY EntryIs DEF EntrySound

(* What goes together with a track that is pending is withdrawn as a whole. *)
LEMMA WholeGone ==
    ASSUME NEW r, Sound(r), NEW tracks \in SUBSET Tracks, Whole(r, tracks),
           NEW f, \A t \in Tracks : f.pending[t] = IF t \in tracks THEN None ELSE r.pending[t]
    PROVE  Thinned(r, f) /\ TogetherGone(r, f)
<1>1. Thinned(r, f)
  BY DEF Thinned
<1>2. TogetherGone(r, f)
  <2> SUFFICES ASSUME NEW t \in Tracks, NEW u \in Tracks, Pending(f, t), Pending(r, t), Pending(r, u),
                      r.pending[t].group # None, r.pending[u].group = r.pending[t].group
               PROVE  Pending(f, u)
    BY DEF TogetherGone
  <2>1. t \notin tracks
    BY DEF Pending
  <2>2. ASSUME u \in tracks PROVE FALSE
    BY <2>1, <2>2 DEF Whole
  <2> QED
    BY <2>2 DEF Pending
<1> QED
  BY <1>1, <1>2

LEMMA CancelUnitOfKeeps ==
    ASSUME IInv, NEW t \in Tracks, CancelUnitOf(t)
    PROVE  Keeps
<1> DEFINE unit == Unit(runtime, t)
           asked == [u \in unit \cap ScheduledOn(runtime) |-> runtime.pending[u]]
<1>1. /\ session = "active" /\ Pending(runtime, t)
      /\ engine' = CancelUnit(engine, asked) /\ runtime' = Withdrawn(runtime, unit)
      /\ UNCHANGED <<song, session, sync, made>>
  BY DEF CancelUnitOf, Pending
<1>2. Sound(runtime) /\ engine \in SessionEngines /\ Running(runtime) /\ Agreed(engine, runtime)
  BY <1>1, RuntimeIs, EntryIs
<1>3. unit \subseteq Tracks /\ Whole(runtime, unit) /\ \A u \in unit : Pending(runtime, u)
  BY <1>1, <1>2, UnitIs
<1>4. \A id : id \in IdsOf(asked) <=> \E u \in unit \cap ScheduledOn(runtime) : id = runtime.pending[u].id
  BY DEF IdsOf
<1> HIDE DEF unit, asked
<1>5. /\ engine' \in SessionEngines /\ SameTransport(engine, engine') /\ engine'.batch = engine.batch
      /\ SameHeard(engine, engine')
      /\ \A u \in Tracks :
            engine'.pending[u] = IF engine.pending[u] # None /\ engine.pending[u].request.id \in IdsOf(asked)
                                 THEN None ELSE engine.pending[u]
  BY <1>1, <1>2, CancelUnitIs
<1>6. /\ Sound(runtime') /\ runtime'.ids = runtime.ids /\ runtime'.phase = runtime.phase
      /\ runtime'.beat = runtime.beat /\ runtime'.stop = runtime.stop /\ runtime'.clip = runtime.clip
      /\ \A u \in Tracks : runtime'.pending[u] = IF u \in unit THEN None ELSE runtime.pending[u]
      /\ \A g \in Ids : Members(runtime', g) \subseteq Members(runtime, g)
  BY <1>1, <1>2, WithdrawnIs
<1>7. \A u \in Tracks : engine'.pending[u] = IF u \in unit THEN None ELSE engine.pending[u]
  <2> SUFFICES ASSUME NEW u \in Tracks, engine.pending[u] # None
               PROVE  engine.pending[u].request.id \in IdsOf(asked) <=> u \in unit
    BY <1>5
  <2>1. u \in ScheduledOn(runtime) /\ engine.pending[u].request.id = runtime.pending[u].id
    BY <1>2 DEF Agreed, Weakly, SameTransition
  <2>2. ASSUME engine.pending[u].request.id \in IdsOf(asked) PROVE u \in unit
    <3>1. PICK v \in unit \cap ScheduledOn(runtime) : runtime.pending[u].id = runtime.pending[v].id
      BY <1>4, <2>1, <2>2
    <3>2. u = v
      BY <1>2, <1>3, <2>1, <3>1, OwnIds, ScheduledIs
    <3> QED
      BY <3>1, <3>2
  <2>3. ASSUME u \in unit PROVE engine.pending[u].request.id \in IdsOf(asked)
    BY <1>4, <2>1, <2>3
  <2> QED
    BY <2>2, <2>3
<1>8. /\ engine'.running = engine.running /\ engine'.phase = engine.phase /\ engine'.beat = engine.beat
      /\ engine'.stop = engine.stop
  BY <1>5 DEF SameTransport
<1>9. StopsAgree(engine', runtime')
  BY <1>2, <1>6, <1>8 DEF Agreed, Weakly, StopsAgree
<1>10. /\ Agreed(engine', runtime') /\ Kept(runtime, runtime')
       /\ \A u \in ScheduledOn(runtime') : engine'.pending[u] = engine.pending[u]
  <2>1. \A u \in Tracks : \/ engine'.pending[u] = engine.pending[u] /\ runtime'.pending[u] = runtime.pending[u]
                          \/ engine'.pending[u] = None /\ runtime'.pending[u] = None
    BY <1>6, <1>7
  <2> QED
    BY <1>2, <1>6, <1>8, <1>9, <2>1, AgreedStays
<1>11. Waning(runtime, runtime', made.requests) /\ SameRequests(engine, engine')
  BY <1>5, <1>6, BatchKept DEF Waning
<1>12. IInv'
  BY <1>1, <1>5, <1>6, <1>7, <1>10, <1>11, RuntimeIs, LoopKeeps
<1>13. ASSUME JInv PROVE JInv'
  <2>1. Audible(engine', runtime')
    <3>1. Audible(engine, runtime)
      BY <1>2, <1>13 DEF JInv
    <3> QED
      BY <1>5, <1>6, <3>1 DEF Audible, SameHeard
  <2>2. Thinned(runtime, runtime') /\ TogetherGone(runtime, runtime')
    BY <1>2, <1>3, <1>6, WholeGone
  <2> QED
    BY <1>1, <1>2, <1>6, <1>10, <1>11, <1>13, <2>1, <2>2, CoverKeeps
<1> QED
  BY <1>12, <1>13 DEF Keeps

LEMMA StopCancelledIs ==
    ASSUME NEW r, Sound(r), r.stop # None
    PROVE  LET f == StopCancelled(r)
           IN  /\ Sound(f) /\ Running(f) /\ f.phase = "playing" /\ f.stop = None
               /\ f.ids = r.ids /\ f.beat = r.beat /\ f.clip = r.clip /\ f.pending = r.pending
<1> DEFINE f == StopCancelled(r)
<1>1. r \in Performances(Ids)
  BY DEF Sound
<1>2. f = [r EXCEPT !.phase = "playing", !.stop = None]
  BY DEF StopCancelled
<1> HIDE DEF f
<1>3. /\ f \in Performances(Ids) /\ f.phase = "playing" /\ f.stop = None
      /\ f.ids = r.ids /\ f.beat = r.beat /\ f.clip = r.clip /\ f.pending = r.pending
  BY <1>1, <1>2 DEF Performances
<1>4. Sound(f) /\ Running(f)
  BY <1>3 DEF Sound, Together, EntrySound, Pending, Running
<1> QED
  BY <1>3, <1>4 DEF f

LEMMA CancelTransportStopKeeps ==
    ASSUME IInv, CancelTransportStop
    PROVE  Keeps
<1>1. /\ session = "active" /\ runtime.stop # None /\ UNCHANGED <<song, session, sync, made>>
      /\ \/ /\ Unscheduled(runtime) /\ engine' = engine /\ runtime' = StopCancelled(runtime)
         \/ /\ ~Unscheduled(runtime) /\ engine' = [engine EXCEPT !.stop = None]
            /\ runtime' = NewPerformance \/ runtime' = StopCancelled(runtime)
  BY DEF CancelTransportStop
<1>2. Sound(runtime) /\ engine \in SessionEngines /\ Running(runtime)
  BY <1>1, RuntimeIs DEF Sound, Running
<1>3. Agreed(engine, runtime) /\ StopsAgree(engine, runtime)
  BY <1>2 DEF IInv, Agreed, Weakly
<1>4. /\ engine' \in SessionEngines /\ engine'.stop = None
      /\ engine'.running = engine.running /\ engine'.phase = engine.phase
      /\ engine'.beat = engine.beat /\ engine'.pending = engine.pending
      /\ engine'.active = engine.active /\ engine'.batch = engine.batch
  <2>1. CASE Unscheduled(runtime)
    <3>1. engine.stop = None
      BY <1>3, <2>1 DEF StopsAgree, Unscheduled
    <3> QED
      BY <1>1, <1>2, <2>1, <3>1
  <2>2. CASE ~Unscheduled(runtime)
    <3>1. engine' = [engine EXCEPT !.stop = None]
      BY <1>1, <2>2
    <3> QED
      BY <1>2, <3>1 DEF SessionEngines
  <2> QED
    BY <2>1, <2>2
<1>5. SameRequests(engine, engine')
  BY <1>4, BatchKept
<1>6. CASE runtime' = NewPerformance
  <2>1. Sound(runtime') /\ ~Running(runtime') /\ runtime'.ids = {}
    BY <1>6, NewIs DEF NewPerformance
  <2> QED
    BY <1>1, <1>4, <1>5, <2>1, RuntimeIs, RestKeeps
<1>7. CASE runtime' = StopCancelled(runtime)
  <2>1. /\ Sound(runtime') /\ runtime'.stop = None /\ runtime'.ids = runtime.ids
        /\ runtime'.beat = runtime.beat /\ runtime'.clip = runtime.clip
        /\ runtime'.pending = runtime.pending
    BY <1>1, <1>2, <1>7, StopCancelledIs
  <2>2. StopsAgree(engine', runtime')
    BY <1>4, <2>1 DEF StopsAgree
  <2>3. /\ Agreed(engine', runtime') /\ Kept(runtime, runtime') /\ Thinned(runtime, runtime')
        /\ \A t \in ScheduledOn(runtime') : engine'.pending[t] = engine.pending[t]
    BY <1>3, <1>4, <2>1, <2>2, AgreedStays
  <2>4. \A g : Members(runtime', g) = Members(runtime, g)
    BY <2>1, EntriesAlike
  <2>5. Waning(runtime, runtime', made.requests) /\ TogetherGone(runtime, runtime')
    BY <2>1, <2>4 DEF Waning, TogetherGone, Pending
  <2>6. IInv'
    BY <1>1, <1>4, <1>5, <2>1, <2>3, <2>5, RuntimeIs, LoopKeeps
  <2>7. ASSUME JInv PROVE JInv'
    <3>1. Audible(engine', runtime')
      BY <1>2, <1>4, <2>1, <2>7 DEF JInv, Audible
    <3> QED
      BY <1>1, <1>2, <1>4, <1>5, <2>1, <2>3, <2>5, <2>7, <3>1, CoverKeeps
  <2> QED
    BY <2>6, <2>7 DEF Keeps
<1> QED
  BY <1>1, <1>6, <1>7

-----------------------------------------------------------------------------
(* A BOUNDARY                                                              *)

LEMMA AtBoundaryIs ==
    ASSUME NEW e \in SessionEngines, NEW t \in Tracks, e.pending[t] # None
    PROVE  LET f == AtBoundary(e, t)
           IN  /\ f \in SessionEngines /\ SameTransport(e, f) /\ f.batch = e.batch
               /\ f.pending[t] = None
               /\ f.active[t] # None <=> e.pending[t].request.kind = "launch"
               /\ \A u \in Tracks : u # t => f.pending[u] = e.pending[u] /\ f.active[u] = e.active[u]
<1> DEFINE f == AtBoundary(e, t)
           source == e.pending[t]
           heard == IF source.request.kind = "launch" THEN source ELSE None
           left == e.voices \ VoiceOf(e.active[t])
<1>1. /\ source \in SessionSources /\ e.pending \in [Tracks -> SessionSources \cup {None}]
      /\ e.active \in [Tracks -> SessionSources \cup {None}] /\ e.voices \in SUBSET Voices
  BY DEF SessionEngines
<1>2. heard \in SessionSources \cup {None} /\ (heard # None <=> source.request.kind = "launch")
  BY <1>1, NoneIs
<1>3. left \in SUBSET Voices
  BY <1>1
<1>4. f = [e EXCEPT !.pending[t] = None, !.active[t] = heard, !.voices = left]
  BY DEF AtBoundary
<1> HIDE DEF f, heard, left
<1>5. /\ f.pending = [e.pending EXCEPT ![t] = None] /\ f.active = [e.active EXCEPT ![t] = heard]
      /\ f.voices = left
      /\ SameTransport(e, f) /\ f.batch = e.batch
  BY <1>4 DEF SessionEngines, SameTransport
<1>6. f.pending \in [Tracks -> SessionSources \cup {None}] /\ f.active \in [Tracks -> SessionSources \cup {None}]
  BY <1>1, <1>2, <1>5
<1>7. f \in SessionEngines
  BY <1>3, <1>4, <1>5, <1>6 DEF SessionEngines
<1>8. f.pending[t] = None /\ f.active[t] = heard
  BY <1>1, <1>5
<1>9. \A u \in Tracks : u # t => f.pending[u] = e.pending[u] /\ f.active[u] = e.active[u]
  BY <1>1, <1>5
<1> QED
  BY <1>2, <1>5, <1>7, <1>8, <1>9 DEF f

LEMMA ExecutedIs ==
    ASSUME NEW r, Sound(r), NEW t \in Tracks, Pending(r, t)
    PROVE  LET f == Executed(r, t)
           IN  /\ Sound(f) /\ f.ids = r.ids /\ f.phase = r.phase /\ f.beat = r.beat /\ f.stop = r.stop
               /\ f.clip[t] = r.pending[t].clip /\ f.pending[t] = None
               /\ \A u \in Tracks : u # t => f.clip[u] = r.clip[u] /\ f.pending[u] = r.pending[u]
               /\ \A g : Members(f, g) \subseteq Members(r, g)
<1> DEFINE f == Executed(r, t)
           clip == r.pending[t].clip
<1>1. r \in Performances(Ids) /\ r.pending[t] \in Transitions(Ids) /\ Running(r)
  BY EntryIs DEF Sound
<1>2. /\ clip \in Clips \cup {None} /\ r.clip \in [Tracks -> Clips \cup {None}]
      /\ r.pending \in [Tracks -> Transitions(Ids) \cup {None}]
  BY <1>1 DEF Transitions, Performances
<1>3. f = [r EXCEPT !.clip[t] = clip, !.pending[t] = None]
  BY DEF Executed
<1> HIDE DEF f, clip
<1>4. /\ f.clip = [r.clip EXCEPT ![t] = clip] /\ f.pending = [r.pending EXCEPT ![t] = None]
      /\ f.ids = r.ids /\ f.phase = r.phase /\ f.beat = r.beat /\ f.stop = r.stop
  BY <1>1, <1>3 DEF Performances
<1>5. f.clip \in [Tracks -> Clips \cup {None}] /\ f.pending \in [Tracks -> Transitions(Ids) \cup {None}]
  BY <1>2, <1>4
<1>6. f \in Performances(Ids)
  BY <1>1, <1>3, <1>4, <1>5 DEF Performances
<1>7. /\ f.clip[t] = clip /\ f.pending[t] = None
      /\ \A u \in Tracks : u # t => f.clip[u] = r.clip[u] /\ f.pending[u] = r.pending[u]
  BY <1>2, <1>4
<1>8. \A u \in Tracks : Pending(f, u) => Pending(r, u) /\ f.pending[u] = r.pending[u]
  BY <1>7 DEF Pending
<1>9. Together(f)
  BY <1>8 DEF Together, Sound
<1>10. \A u \in Tracks : Pending(f, u) => EntrySound(f, u)
  BY <1>4, <1>8 DEF Sound, EntrySound
<1>11. Sound(f)
  BY <1>1, <1>4, <1>6, <1>9, <1>10 DEF Sound, Running
<1>12. \A g : Members(f, g) \subseteq Members(r, g)
  BY <1>8 DEF Members, Pending
<1> QED
  BY <1>4, <1>7, <1>11, <1>12 DEF f, clip

LEMMA BoundaryKeeps ==
    ASSUME IInv, NEW t \in Tracks, Boundary(t)
    PROVE  Keeps
<1>1. /\ Due(engine, t) /\ UNCHANGED <<song, session, sync, made>>
      /\ IF session = "active" /\ ~Expected(t) THEN Silenced
         ELSE /\ engine' = AtBoundary(engine, t)
              /\ runtime' = IF session = "active" THEN Executed(runtime, t) ELSE runtime
  BY DEF Boundary
<1>2. engine.pending[t] # None /\ engine \in SessionEngines /\ Sound(runtime)
  BY <1>1, RuntimeIs DEF Due
<1>3. CASE session = "active" /\ ~Expected(t)
  <2> DEFINE p == FailSafe(Both)
  <2>1. engine' = p.engine /\ runtime' = p.runtime
    BY <1>1, <1>3 DEF Silenced
  <2>2. Sides(Both) /\ Both.engine = engine
    BY <1>2, RuntimeIs DEF Both, Sides, Sound
  <2>3. /\ IsReset(Both, p) /\ p.engine \in SessionEngines /\ SameRequests(engine, p.engine)
        /\ \A u \in Tracks : engine.pending[u] = None => p.engine.pending[u] = None
    BY <2>2, FailSafeIs
  <2> HIDE DEF p
  <2>4. Sound(runtime') /\ ~Running(runtime') /\ runtime'.ids = {}
    BY <2>1, <2>3, NewIs DEF IsReset, NewPerformance
  <2> QED
    BY <1>1, <1>3, <2>1, <2>3, <2>4, RuntimeIs, RestKeeps
<1>4. /\ AtBoundary(engine, t) \in SessionEngines /\ SameTransport(engine, AtBoundary(engine, t))
      /\ AtBoundary(engine, t).batch = engine.batch /\ AtBoundary(engine, t).pending[t] = None
      /\ AtBoundary(engine, t).active[t] # None <=> engine.pending[t].request.kind = "launch"
      /\ \A u \in Tracks : u # t => /\ AtBoundary(engine, t).pending[u] = engine.pending[u]
                                    /\ AtBoundary(engine, t).active[u] = engine.active[u]
  BY <1>2, AtBoundaryIs
<1>5. ASSUME engine' = AtBoundary(engine, t)
      PROVE  /\ SameRequests(engine, engine')
             /\ \A u \in Tracks : engine.pending[u] = None => engine'.pending[u] = None
  <2>1. SameRequests(engine, engine')
    BY <1>4, <1>5, BatchKept
  <2> QED
    BY <1>4, <1>5, <2>1
<1>6. CASE session # "active"
  <2>1. ~Running(runtime) /\ session # "starting"
    BY <1>2, <1>6 DEF IInv, Silent
  <2>2. engine' = AtBoundary(engine, t) /\ runtime' = runtime
    BY <1>1, <1>6
  <2> QED
    BY <1>1, <1>2, <1>4, <1>5, <1>6, <2>1, <2>2, RuntimeIs, RestKeeps
<1>7. CASE session = "active" /\ Expected(t)
  <2>1. engine' = AtBoundary(engine, t) /\ runtime' = Executed(runtime, t)
    BY <1>1, <1>7
  <2>2. t \in ScheduledOn(runtime) /\ Pending(runtime, t) /\ runtime.pending[t].status = "scheduled"
    BY <1>7 DEF Expected, ScheduledOn, Pending
  <2>3. Running(runtime) /\ Agreed(engine, runtime) /\ EntrySound(runtime, t)
    BY <1>2, <2>2, RuntimeIs, EntryIs
  <2>4. /\ Sound(runtime') /\ runtime'.ids = runtime.ids /\ runtime'.phase = runtime.phase
        /\ runtime'.beat = runtime.beat /\ runtime'.stop = runtime.stop
        /\ runtime'.clip[t] = runtime.pending[t].clip /\ runtime'.pending[t] = None
        /\ \A u \in Tracks : u # t => /\ runtime'.clip[u] = runtime.clip[u]
                                      /\ runtime'.pending[u] = runtime.pending[u]
        /\ \A g : Members(runtime', g) \subseteq Members(runtime, g)
    BY <1>2, <2>1, <2>2, ExecutedIs
  <2>5. /\ engine'.running = engine.running /\ engine'.phase = engine.phase
        /\ engine'.beat = engine.beat /\ engine'.stop = engine.stop
    BY <1>4, <2>1 DEF SameTransport
  <2>6. StopsAgree(engine', runtime')
    BY <2>3, <2>4, <2>5 DEF Agreed, Weakly, StopsAgree
  <2>7. \A u \in Tracks : \/ engine'.pending[u] = engine.pending[u] /\ runtime'.pending[u] = runtime.pending[u]
                          \/ engine'.pending[u] = None /\ runtime'.pending[u] = None
    BY <1>4, <2>1, <2>4
  <2>8. /\ Agreed(engine', runtime') /\ Kept(runtime, runtime') /\ Thinned(runtime, runtime')
        /\ \A u \in ScheduledOn(runtime') : engine'.pending[u] = engine.pending[u]
    BY <2>3, <2>4, <2>5, <2>6, <2>7, AgreedStays
  <2>9. TogetherGone(runtime, runtime')
    <3> SUFFICES ASSUME NEW u \in Tracks, NEW v \in Tracks, Pending(runtime', u), Pending(runtime, u),
                        Pending(runtime, v), runtime.pending[u].status = "pending",
                        runtime.pending[u].group # None,
                        runtime.pending[v].group = runtime.pending[u].group
                 PROVE  Pending(runtime', v)
      BY DEF TogetherGone
    <3>1. runtime.pending[v].status = runtime.pending[u].status
      BY <1>2 DEF Sound, Together
    <3>2. v # t
      BY <2>2, <3>1
    <3> QED
      BY <2>4, <3>2 DEF Pending
  <2>10. Waning(runtime, runtime', made.requests)
    BY <2>4 DEF Waning
  <2>11. IInv'
    BY <1>1, <1>4, <1>5, <1>7, <2>1, <2>4, <2>8, <2>10, RuntimeIs, LoopKeeps
  <2>12. ASSUME JInv PROVE JInv'
    <3>1. Audible(engine', runtime')
      <4>1. Audible(engine, runtime)
        BY <2>3, <2>12 DEF JInv
      <4>2. engine'.active[t] # None <=> runtime'.clip[t] # None
        <5>1. engine.pending[t].request.kind = runtime.pending[t].kind
          BY <2>2, <2>3 DEF Agreed, Weakly, SameTransition
        <5>2. engine'.active[t] # None <=> runtime.pending[t].kind = "launch"
          BY <1>4, <2>1, <5>1
        <5>3. runtime.pending[t].kind = "launch" <=> runtime.pending[t].clip # None
          BY <2>3 DEF EntrySound
        <5> QED
          BY <2>4, <5>2, <5>3
      <4>3. \A u \in Tracks : u # t => (runtime'.clip[u] # None <=> engine'.active[u] # None)
        BY <1>4, <2>1, <2>4, <4>1 DEF Audible
      <4> QED
        BY <4>2, <4>3 DEF Audible
    <3> QED
      BY <1>1, <1>5, <2>1, <2>3, <2>4, <2>8, <2>9, <2>12, <3>1, CoverKeeps
  <2> QED
    BY <2>11, <2>12 DEF Keeps
<1> QED
  BY <1>3, <1>6, <1>7

-----------------------------------------------------------------------------
(* A SESSION BEGINS                                                        *)

LEMMA GenerationIs ==
    ASSUME NEW e \in SessionEngines
    PROVE  LET f == NewGeneration(e)
           IN  /\ f \in SessionEngines /\ SameRequests(e, f)
               /\ f.stop = e.stop /\ f.active = e.active /\ f.pending = e.pending
               /\ f.unlocked = e.unlocked
               /\ \A c \in Callers : e.batch[c] = None => f.batch[c] = None
<1> DEFINE f == NewGeneration(e)
           unlocking == [c \in Callers |-> IF e.unlocking[c] = "fresh" THEN "stale" ELSE e.unlocking[c]]
           batch == [c \in Callers |-> IF e.batch[c] = None THEN None
                                       ELSE [e.batch[c] EXCEPT !.fresh = FALSE]]
<1>1. /\ f = [e EXCEPT !.unlocking = unlocking, !.batch = batch]
      /\ unlocking \in [Callers -> {"no", "fresh", "stale"}]
  BY DEF NewGeneration, SessionEngines
<1>2. \A c \in Callers : e.batch[c] # None =>
         batch[c] \in SessionJobs /\ batch[c].requests = e.batch[c].requests
  BY DEF SessionEngines, SessionJobs
<1>3. batch \in [Callers -> SessionJobs \cup {None}]
  BY <1>2
<1>4. \A c \in Callers : e.batch[c] = None => batch[c] = None
  OBVIOUS
<1> HIDE DEF unlocking, batch, f
<1>5. /\ f \in SessionEngines /\ f.batch = batch /\ f.stop = e.stop /\ f.active = e.active
      /\ f.pending = e.pending /\ f.unlocked = e.unlocked
  BY <1>1, <1>3 DEF SessionEngines
<1>6. SameRequests(e, f)
  BY <1>2, <1>4, <1>5, NoneIs DEF SameRequests
<1> QED
  BY <1>4, <1>5, <1>6 DEF f

LEMMA OpenedIs ==
    ASSUME NEW e \in SessionEngines
    PROVE  LET f == Opened(e, Caller)
           IN  /\ f \in SessionEngines /\ SameRequests(e, f)
               /\ f.stop = e.stop /\ f.active = e.active /\ f.pending = e.pending
<1> DEFINE g == NewGeneration(e)
           h == [g EXCEPT !.phase = Restored(e)]
           f == Opened(e, Caller)
<1>1. /\ g \in SessionEngines /\ SameRequests(e, g)
      /\ g.stop = e.stop /\ g.active = e.active /\ g.pending = e.pending
  BY GenerationIs
<1>2. Restored(e) \in {"ready", "initialized"}
  BY DEF Restored
<1>3. f = IF e.unlocked THEN h ELSE [h EXCEPT !.unlocking[Caller] = "fresh"]
  BY DEF Opened, Initialized
<1> HIDE DEF f, g
<1>4. /\ h \in SessionEngines /\ h.batch = g.batch
      /\ h.stop = g.stop /\ h.active = g.active /\ h.pending = g.pending
  BY <1>1, <1>2 DEF SessionEngines
<1> HIDE DEF h
<1>5. /\ f \in SessionEngines /\ f.batch = h.batch
      /\ f.stop = h.stop /\ f.active = h.active /\ f.pending = h.pending
  <2>1. CASE e.unlocked
    BY <1>3, <1>4, <2>1
  <2>2. CASE ~e.unlocked
    <3> DEFINE unlocking == [h.unlocking EXCEPT ![Caller] = "fresh"]
    <3>1. unlocking \in [Callers -> {"no", "fresh", "stale"}]
      BY <1>4, CallerIs DEF SessionEngines
    <3>2. f = [h EXCEPT !.unlocking = unlocking]
      BY <1>3, <1>4, <2>2 DEF SessionEngines
    <3> HIDE DEF unlocking
    <3> QED
      BY <1>4, <3>1, <3>2 DEF SessionEngines
  <2> QED
    BY <2>1, <2>2
<1>6. SameRequests(g, f)
  BY <1>4, <1>5, BatchKept
<1>7. SameRequests(e, f)
  BY <1>1, <1>6, RequestsKept
<1> QED
  BY <1>1, <1>4, <1>5, <1>7 DEF f

LEMMA StartedIs ==
    ASSUME NEW e \in SessionEngines, NEW at \in Nat
    PROVE  LET f == Started(e, at)
           IN  /\ f \in SessionEngines /\ f.phase = "running" /\ f.running /\ f.beat = at
               /\ f.stop = e.stop /\ f.active = e.active /\ f.pending = e.pending
               /\ f.batch = e.batch
BY DEF Started, SessionEngines

LEMMA TransportStartedIs ==
    ASSUME NEW r, Sound(r), ~Running(r)
    PROVE  LET f == TransportStarted(r, r.beat)
           IN  /\ Sound(f) /\ f.beat = r.beat /\ f.beat \in Nat /\ f.stop = None /\ f.ids = r.ids
               /\ f.pending = r.pending
               /\ \A t \in Tracks : f.pending[t] = None
<1> DEFINE f == TransportStarted(r, r.beat)
<1>1. r \in Performances(Ids) /\ r.phase = "idle" /\ r.beat \in Nat
  BY DEF Sound, Running, Performances
<1>2. f = [r EXCEPT !.phase = "playing", !.beat = r.beat]
  BY <1>1 DEF TransportStarted
<1> HIDE DEF f
<1>3. /\ f \in Performances(Ids) /\ f.phase = "playing" /\ f.beat = r.beat /\ f.stop = r.stop
      /\ f.ids = r.ids /\ f.pending = r.pending /\ f.clip = r.clip
  BY <1>1, <1>2 DEF Performances
<1>4. r.stop = None /\ \A t \in Tracks : r.pending[t] = None
  BY <1>1 DEF Sound
<1>5. Sound(f)
  BY <1>3, <1>4 DEF Sound, Together, Pending, Running
<1> QED
  BY <1>1, <1>3, <1>4, <1>5 DEF f

(* The two sides of a session that begins. *)
LEMMA BeginTypes ==
    ASSUME IInv, ~Running(runtime), NEW e \in SessionEngines
    PROVE  /\ Started(e, runtime.beat) \in SessionEngines
           /\ TransportStarted(runtime, runtime.beat) \in Performances(Ids)
<1>1. Sound(runtime) /\ runtime.beat \in Nat
  BY RuntimeIs DEF Sound, Performances
<1>2. Sound(TransportStarted(runtime, runtime.beat))
  BY <1>1, TransportStartedIs
<1> QED
  BY <1>1, <1>2, StartedIs DEF Sound

(* What a session begins with. *)
LEMMA BegunIs ==
    ASSUME IInv, ~Running(runtime), NEW e \in SessionEngines, Silent(e), SameRequests(engine, e),
           NEW p, p.engine = Started(e, runtime.beat),
           p.runtime = TransportStarted(runtime, runtime.beat),
           Sides(p), NEW counters \in Counters, counters.requests = made.requests
    PROVE  Handed(p, counters) /\ p.runtime.ids = runtime.ids
<1>1. Sound(runtime) /\ runtime.beat \in Nat /\ made.requests \in Nat
  BY RuntimeIs DEF Sound, Performances
<1>2. /\ Sound(p.runtime) /\ p.runtime.beat = runtime.beat /\ p.runtime.stop = None
      /\ p.runtime.ids = runtime.ids /\ p.runtime.pending = runtime.pending
      /\ \A t \in Tracks : p.runtime.pending[t] = None
  BY <1>1, TransportStartedIs
<1>3. /\ p.engine \in SessionEngines /\ p.engine.phase = "running" /\ p.engine.running
      /\ p.engine.beat = runtime.beat /\ p.engine.stop = None /\ p.engine.batch = e.batch
      /\ \A t \in Tracks : p.engine.pending[t] = None
  BY <1>1, StartedIs DEF Silent
<1>5. SameRequests(engine, p.engine)
  BY <1>3, BatchKept, RequestsKept
<1>6. /\ Kept(runtime, p.runtime) /\ ScheduledOn(p.runtime) = {}
      /\ \A g : Members(p.runtime, g) = Members(runtime, g)
  BY <1>2, EntriesAlike DEF ScheduledOn
<1>7. Waning(runtime, p.runtime, made.requests)
  BY <1>6 DEF Waning
<1>8. Weakly(p.engine, p.runtime) /\ p.runtime.beat <= p.engine.beat
  BY <1>1, <1>2, <1>3, <1>6 DEF Weakly, StopsAgree
<1>9. Numbered(p.runtime, counters.requests)
  BY <1>2 DEF IInv, Numbered
<1> QED
  BY <1>1, <1>2, <1>3, <1>5, <1>6, <1>7, <1>8, <1>9 DEF Handed

LEMMA StartKeeps ==
    ASSUME IInv, Start
    PROVE  /\ IInv'
           /\ (JInv /\ MaxSessions <= 1 /\ Cardinality(runtime'.ids) < IdCapacity => JInv')
<1> DEFINE counters == [made EXCEPT !.sessions = @ + 1, !.refreshes = 0]
           e == Opened(engine, Caller)
           p == [engine |-> Started(e, runtime.beat), refreshes |-> 0, done |-> "no",
                 runtime |-> TransportStarted(runtime, runtime.beat)]
<1>1. /\ Yielded /\ session = "none" /\ Initializable(engine) /\ made.sessions < MaxSessions
      /\ song' = song
      /\ \/ engine' = e /\ session' = "starting" /\ made' = counters /\ UNCHANGED <<runtime, sync>>
         \/ session' = "active" /\ SyncPending(p, song, counters)
  BY DEF Start
<1>2. Sound(runtime) /\ engine \in SessionEngines /\ ~Running(runtime) /\ song \in Songs /\ made \in Counters
  BY <1>1, RuntimeIs
<1>3. /\ counters \in Counters /\ counters.requests = made.requests /\ counters.refreshes = 0
      /\ counters.sessions = made.sessions + 1 /\ counters.sessions # 0
  <2>1. made.sessions \in Nat /\ made.sessions + 1 \in Nat /\ made.sessions + 1 # 0
    BY <1>2 DEF Counters
  <2>2. /\ counters \in Counters /\ counters.requests = made.requests /\ counters.refreshes = 0
        /\ counters.sessions = made.sessions + 1
    BY <1>2, <2>1 DEF Counters
  <2> QED
    BY <2>1, <2>2
<1>4. /\ e \in SessionEngines /\ SameRequests(engine, e) /\ e.stop = engine.stop
      /\ e.active = engine.active /\ e.pending = engine.pending
  BY <1>2, OpenedIs
<1> HIDE DEF counters, e
<1>5. Silent(e) /\ engine.batch[Caller] = None
  BY <1>1, <1>4, CallerIs DEF Initializable, Owning, InFlight, Silent
<1>6. sync.pc \in {"idle", "failed"}
  BY <1>1, <1>5 DEF IInv, LoopSound, BatchOf, Yielded
<1>7. ASSUME JInv, MaxSessions <= 1
      PROVE  runtime.ids = {} /\ made.sessions = 0
  <2>1. made.sessions \in Nat /\ MaxSessions \in Nat
    BY <1>2, PerformanceAssumption DEF Counters
  <2>2. made.sessions = 0
    BY <1>1, <1>7, <2>1
  <2> QED
    BY <1>7, <2>2 DEF JInv, FirstSession
<1>8. CASE engine' = e /\ session' = "starting" /\ made' = counters /\ UNCHANGED <<runtime, sync>>
  <2>1. IInv'
    BY <1>1, <1>2, <1>3, <1>4, <1>5, <1>6, <1>8, RuntimeIs, LoopKeeps
  <2>2. ASSUME JInv, MaxSessions <= 1 PROVE JInv'
    <3>1. RefreshNumbered(runtime', made'.refreshes)
      BY <1>7, <1>8, <2>2 DEF RefreshNumbered
    <3>2. FirstSession'
      BY <1>3, <1>8 DEF FirstSession
    <3>3. Covered' /\ BatchCurrent'
      BY <1>2, <1>8 DEF Covered, Current, BatchCurrent, Running
    <3> QED
      BY <1>2, <1>8, <3>1, <3>2, <3>3 DEF JInv, Running
  <2> QED
    BY <2>1, <2>2
<1>9. CASE session' = "active" /\ SyncPending(p, song, counters)
  <2>1. /\ p.engine = Started(e, runtime.beat) /\ p.refreshes = 0
        /\ p.runtime = TransportStarted(runtime, runtime.beat)
        /\ Sides(p)
    BY <1>2, <1>4, BeginTypes DEF Sides
  <2> HIDE DEF p
  <2>2. Handed(p, counters) /\ p.runtime.ids = runtime.ids
    BY <1>2, <1>3, <1>4, <1>5, <2>1, BegunIs
  <2>3. IInv'
    BY <1>1, <1>2, <1>9, <2>2, SyncPendingKeeps
  <2>4. ASSUME JInv, MaxSessions <= 1, Cardinality(runtime'.ids) < IdCapacity PROVE JInv'
    <3>1. RefreshNumbered(p.runtime, p.refreshes)
      BY <1>7, <2>2, <2>4 DEF RefreshNumbered
    <3> QED
      BY <1>1, <1>2, <1>3, <1>9, <2>2, <2>4, <3>1, SyncPendingCovers
  <2> QED
    BY <2>3, <2>4
<1> QED
  BY <1>1, <1>8, <1>9

LEMMA ResolvedIs ==
    ASSUME NEW e \in SessionEngines
    PROVE  LET f == UnlockResolved(e, Caller)
           IN  /\ f \in SessionEngines /\ f.running = e.running /\ f.beat = e.beat /\ f.stop = e.stop
               /\ f.pending = e.pending /\ f.active = e.active /\ f.batch = e.batch
               /\ e.unlocking[Caller] # "fresh" => f.phase = e.phase
<1> DEFINE f == UnlockResolved(e, Caller)
           unlocking == [e.unlocking EXCEPT ![Caller] = "no"]
           fresh == e.unlocking[Caller] = "fresh"
<1>1. unlocking \in [Callers -> {"no", "fresh", "stale"}]
  BY CallerIs DEF SessionEngines
<1>2. (e.unlocked \/ fresh) \in BOOLEAN
  OBVIOUS
<1>3. f = [e EXCEPT !.unlocking = unlocking, !.unlocked = (e.unlocked \/ fresh),
                    !.phase = IF fresh THEN "ready" ELSE e.phase]
  BY DEF UnlockResolved, SessionEngines
<1> HIDE DEF f, unlocking
<1>4. /\ f \in SessionEngines /\ f.running = e.running /\ f.beat = e.beat /\ f.stop = e.stop
      /\ f.pending = e.pending /\ f.active = e.active /\ f.batch = e.batch
      /\ f.phase = IF fresh THEN "ready" ELSE e.phase
  BY <1>1, <1>2, <1>3 DEF SessionEngines
<1> QED
  BY <1>4 DEF f

LEMMA UnlocksKeeps ==
    ASSUME IInv, Unlocks
    PROVE  Keeps
<1> DEFINE e == UnlockResolved(engine, Caller)
           p == [Both EXCEPT !.engine = Started(e, runtime.beat),
                             !.runtime = TransportStarted(runtime, runtime.beat)]
<1>1. /\ Yielded /\ song' = song
      /\ \/ /\ session = "starting" /\ session' = "active" /\ SyncPending(p, song, made)
         \/ /\ session = "outdated" /\ engine' = Stopped(e) /\ session' = "none"
            /\ UNCHANGED <<runtime, sync, made>>
         \/ /\ engine.unlocking[Caller] = "stale"
            /\ engine' = e /\ UNCHANGED <<runtime, session, sync, made>>
  BY DEF Unlocks
<1>2. /\ e \in SessionEngines /\ e.running = engine.running /\ e.beat = engine.beat
      /\ e.stop = engine.stop /\ e.pending = engine.pending /\ e.active = engine.active
      /\ e.batch = engine.batch
      /\ engine.unlocking[Caller] # "fresh" => e.phase = engine.phase
  BY RuntimeIs, ResolvedIs
<1> HIDE DEF e
<1>3. SameRequests(engine, e)
  BY <1>2, BatchKept
<1>4. CASE session = "starting" /\ session' = "active" /\ SyncPending(p, song, made)
  <2>1. ~Running(runtime) /\ Silent(e)
    BY <1>2, <1>4 DEF IInv, Silent
  <2>2. /\ p.engine = Started(e, runtime.beat) /\ p.refreshes = made.refreshes
        /\ p.runtime = TransportStarted(runtime, runtime.beat)
        /\ Sides(p)
    <3> DEFINE a == Started(e, runtime.beat)
               b == TransportStarted(runtime, runtime.beat)
    <3>1. a \in SessionEngines /\ b \in Performances(Ids) /\ made.refreshes \in Nat
      BY <1>2, <2>1, BeginTypes, RuntimeIs
    <3> HIDE DEF a, b
    <3>2. LET q == [Both EXCEPT !.engine = a, !.runtime = b]
          IN  q.engine = a /\ q.runtime = b /\ q.refreshes = made.refreshes /\ Sides(q)
      BY <3>1 DEF Both, Sides
    <3> QED
      BY <3>2 DEF a, b
  <2> HIDE DEF p
  <2>3. Handed(p, made) /\ p.runtime.ids = runtime.ids
    BY <1>2, <1>3, <2>1, <2>2, RuntimeIs, BegunIs
  <2>4. JInv => RefreshNumbered(p.runtime, p.refreshes) /\ made.sessions # 0
    BY <1>4, <2>2, <2>3 DEF JInv, FirstSession, RefreshNumbered
  <2> QED
    BY <1>1, <1>4, <2>3, <2>4, RuntimeIs, TaskKeeps
<1>5. CASE session = "outdated" /\ engine' = Stopped(e) /\ session' = "none" /\ UNCHANGED <<runtime, sync, made>>
  <2>1. ~Running(runtime)
    BY <1>5 DEF IInv
  <2>2. /\ engine' \in SessionEngines /\ SameRequests(e, engine')
        /\ \A t \in Tracks : engine'.pending[t] = None
    BY <1>2, <1>5, QuietKept
  <2>3. SameRequests(engine, engine')
    BY <1>3, <2>2, RequestsKept
  <2> QED
    BY <1>1, <1>5, <2>1, <2>2, <2>3, RuntimeIs, RestKeeps
<1>6. CASE engine.unlocking[Caller] = "stale" /\ engine' = e /\ UNCHANGED <<runtime, session, sync, made>>
  BY <1>1, <1>2, <1>6, AlikeKeeps
<1> QED
  BY <1>1, <1>4, <1>5, <1>6

-----------------------------------------------------------------------------
(* EDITS                                                                   *)

LEMMA ReconcileRuntimeIs ==
    ASSUME NEW r, Sound(r), NEW clips, NEW removed
    PROVE  LET f == MaterialReconciled(r, clips, removed)
           IN  /\ Sound(f) /\ Kept(r, f) /\ \A g \in Ids : Members(f, g) \subseteq Members(r, g)
               /\ f.ids = r.ids /\ f.phase = r.phase /\ f.beat = r.beat /\ f.stop = r.stop
               /\ \A e : Weakly(e, r) => Weakly(e, f)
<1> DEFINE gone == {t \in Tracks : Orphaned(r, clips, removed, t)}
           m == Withdrawn(r, gone)
           clip == [t \in Tracks |-> IF m.clip[t] # None /\ m.clip[t] \notin clips[t] THEN None ELSE m.clip[t]]
           f == MaterialReconciled(r, clips, removed)
<1>1. f = [m EXCEPT !.clip = clip]
  BY DEF MaterialReconciled
<1>2. /\ Sound(m) /\ SameElse(r, m)
      /\ \A t \in Tracks : m.pending[t] = IF t \in gone THEN None ELSE r.pending[t]
      /\ \A g \in Ids : Members(m, g) \subseteq Members(r, g)
      /\ m.ids = r.ids /\ m.phase = r.phase /\ m.beat = r.beat /\ m.stop = r.stop
      /\ m.clip = r.clip
  BY WithdrawnIs
<1> HIDE DEF m, f, gone
<1>3. m \in Performances(Ids) /\ m.clip \in [Tracks -> Clips \cup {None}]
  BY <1>2 DEF Sound, Performances
<1>4. clip \in [Tracks -> Clips \cup {None}] /\ \A t \in Tracks : m.clip[t] = None => clip[t] = None
  BY <1>3
<1> HIDE DEF clip
<1>5. /\ f \in Performances(Ids) /\ f.clip = clip /\ f.pending = m.pending /\ f.ids = m.ids
      /\ f.phase = m.phase /\ f.beat = m.beat /\ f.stop = m.stop
  BY <1>1, <1>3, <1>4 DEF Performances
<1>6. Sound(f)
  BY <1>2, <1>4, <1>5 DEF Sound, Together, EntrySound, Pending, Running
<1>7. ScheduledOn(f) = ScheduledOn(m) /\ \A g : Members(f, g) = Members(m, g)
  BY <1>5, EntriesAlike
<1>8. \A t \in Tracks : Pending(f, t) => f.pending[t] = r.pending[t]
  BY <1>2, <1>5 DEF Pending
<1>9. \A t \in ScheduledOn(f) : t \in ScheduledOn(r) /\ f.pending[t] = r.pending[t]
  BY <1>8 DEF ScheduledOn, Pending
<1>10. Kept(r, f)
  BY <1>9 DEF Kept
<1>11. ASSUME NEW e, Weakly(e, r) PROVE Weakly(e, f)
  <2>1. \A t \in ScheduledOn(f) : e.pending[t] # None /\ SameTransition(e, f, t)
    BY <1>9, <1>11 DEF Weakly, SameTransition
  <2>2. ASSUME NEW t \in Tracks \ ScheduledOn(f), e.pending[t] # None, Pending(f, t)
        PROVE  e.pending[t].request.id # f.pending[t].id
    <3>1. f.pending[t] = r.pending[t] /\ Pending(r, t)
      BY <1>8, <2>2 DEF Pending
    <3>2. t \in Tracks \ ScheduledOn(r)
      BY <2>2, <3>1 DEF ScheduledOn
    <3> QED
      BY <1>11, <2>2, <3>1, <3>2 DEF Weakly
  <2>3. StopsAgree(e, f)
    BY <1>2, <1>5, <1>11 DEF Weakly, StopsAgree
  <2> QED
    BY <1>11, <2>1, <2>2, <2>3 DEF Weakly
<1> QED
  BY <1>2, <1>5, <1>6, <1>7, <1>10, <1>11 DEF f

(* What an edit hands over, in a session or without one. *)
LEMMA EditedKeeps ==
    ASSUME IInv, Yielded, NEW s \in Songs, NEW r, Edited(s, r), Sound(r),
           Kept(runtime, r), Waning(runtime, r, made.requests), r.ids \subseteq runtime.ids,
           Running(r) => Running(runtime) /\ Weakly(engine, r) /\ r.beat <= engine.beat
    PROVE  /\ Keeps
           /\ session = "active" /\ JInv /\ Cardinality(runtime'.ids) < IdCapacity =>
                 (Running(runtime') => Replaced(s, engine', runtime'))
<1> DEFINE counters == [made EXCEPT !.edits = @ + 1]
           p == [Both EXCEPT !.runtime = r]
<1>1. /\ song' = s
      /\ \/ session = "active" /\ SyncPending(p, s, counters) /\ session' = session
         \/ /\ session # "active" /\ runtime' = r
            /\ session' = IF session = "none" THEN "none" ELSE "outdated"
            /\ made' = counters /\ UNCHANGED <<engine, sync>>
  BY DEF Edited
<1>2. /\ counters \in Counters /\ counters.requests = made.requests
      /\ counters.sessions = made.sessions /\ counters.refreshes = made.refreshes
  BY RuntimeIs DEF Counters
<1>3. Sides(p) /\ p.engine = engine /\ p.runtime = r /\ p.refreshes = made.refreshes
  BY BothIs DEF Sound
<1> HIDE DEF p, counters
<1>4. CASE session = "active" /\ SyncPending(p, s, counters) /\ session' = session
  <2>1. Numbered(r, made.requests)
    BY DEF IInv, Numbered
  <2>2. made.requests <= counters.requests
    BY <1>2, RuntimeIs
  <2>3. Handed(p, counters)
    BY <1>2, <1>3, <2>1, <2>2, RuntimeIs DEF Handed
  <2>4. JInv => RefreshNumbered(p.runtime, p.refreshes) /\ counters.sessions # 0
    BY <1>2, <1>3, <1>4, ActiveIs DEF RefreshNumbered
  <2> QED
    BY <1>1, <1>4, <2>3, <2>4, TaskKeeps
<1>5. CASE /\ session # "active" /\ runtime' = r
           /\ session' = IF session = "none" THEN "none" ELSE "outdated"
           /\ made' = counters /\ UNCHANGED <<engine, sync>>
  <2>1. ~Running(runtime')
    BY <1>5 DEF IInv
  <2>2. session' \in {"starting", "outdated"} => sync.pc \in {"idle", "failed"}
    BY <1>5, RuntimeIs
  <2> QED
    BY <1>1, <1>2, <1>5, <2>1, <2>2, RuntimeIs, RestKeeps
<1> QED
  BY <1>1, <1>4, <1>5

LEMMA EditSongKeeps ==
    ASSUME IInv, NEW s \in Songs, EditSong(s)
    PROVE  /\ Keeps
           /\ session = "active" /\ JInv /\ Cardinality(runtime'.ids) < IdCapacity =>
                 (Running(runtime') => Replaced(song', engine', runtime'))
<1>0. PICK removed : Yielded /\ Edited(s, MaterialReconciled(runtime, ClipsIn(s), removed))
  BY DEF EditSong
<1> DEFINE r == MaterialReconciled(runtime, ClipsIn(s), removed)
<1>1. Yielded /\ Edited(s, r) /\ song' = s
  BY <1>0 DEF Edited
<1>2. /\ Sound(r) /\ Kept(runtime, r) /\ \A g \in Ids : Members(r, g) \subseteq Members(runtime, g)
      /\ r.ids = runtime.ids /\ r.phase = runtime.phase /\ r.beat = runtime.beat
      /\ Weakly(engine, runtime) => Weakly(engine, r)
  BY RuntimeIs, ReconcileRuntimeIs
<1> HIDE DEF r
<1>3. Waning(runtime, r, made.requests)
  BY <1>2 DEF Waning
<1>4. Running(r) => Running(runtime) /\ Weakly(engine, r) /\ r.beat <= engine.beat
  BY <1>2, RuntimeIs DEF Running, Agreed
<1> QED
  BY <1>1, <1>2, <1>3, <1>4, EditedKeeps

LEMMA NewFollows ==
    ASSUME IInv
    PROVE  /\ Sound(NewPerformance) /\ ~Running(NewPerformance) /\ NewPerformance.ids = {}
           /\ Kept(runtime, NewPerformance) /\ \A n : Waning(runtime, NewPerformance, n)
BY NewIs, RestIs DEF NewPerformance

LEMMA LoadSongKeeps ==
    ASSUME IInv, LoadSong
    PROVE  Keeps
<1>1. Yielded /\ Edited(song, NewPerformance)
  BY DEF LoadSong
<1> QED
  BY <1>1, NewFollows, RuntimeIs, EditedKeeps

LEMMA EditTempoKeeps ==
    ASSUME IInv, EditTempo
    PROVE  Keeps
<1> DEFINE p == FailSafe(Both)
           counters == [made EXCEPT !.edits = @ + 1]
<1>1. /\ Yielded /\ session = "active" /\ song' = song /\ session' = session
      /\ SyncPending(p, song, counters)
  BY DEF EditTempo
<1>2. /\ counters \in Counters /\ counters.requests = made.requests
      /\ counters.sessions = made.sessions
  BY RuntimeIs DEF Counters
<1>3. Sides(Both) /\ Both.engine = engine
  BY RuntimeIs DEF Both, Sides, Sound
<1>4. /\ IsReset(Both, p) /\ p.engine \in SessionEngines /\ SameRequests(engine, p.engine)
      /\ \A u \in Tracks : engine.pending[u] = None => p.engine.pending[u] = None
  BY <1>3, FailSafeIs
<1> HIDE DEF p, counters
<1>5. Sides(p) /\ p.runtime = NewPerformance
  BY <1>4 DEF IsReset
<1>6. Numbered(NewPerformance, made.requests) /\ made.requests <= counters.requests
      /\ RefreshNumbered(NewPerformance, p.refreshes)
  BY <1>2, NewFollows, RuntimeIs DEF Numbered, RefreshNumbered
<1>7. Handed(p, counters)
  BY <1>2, <1>4, <1>5, <1>6, NewFollows DEF Handed
<1>8. JInv => RefreshNumbered(p.runtime, p.refreshes) /\ counters.sessions # 0
  BY <1>1, <1>2, <1>5, <1>6, ActiveIs
<1> QED
  BY <1>1, <1>7, <1>8, RuntimeIs, TaskKeeps

-----------------------------------------------------------------------------
(* THE LOOP'S UNITS                                                        *)

LEMMA ImageFinite ==
    ASSUME NEW S, IsFiniteSet(S), NEW f
    PROVE  IsFiniteSet({f[x] : x \in S})
<1> DEFINE T == {f[x] : x \in S}
           g == [x \in S |-> f[x]]
<1>1. g \in Surjection(S, T)
  BY DEF Surjection
<1> QED
  BY <1>1, FS_Surjection

(* Two sequences, one after the other. *)
LEMMA Concatenated ==
    ASSUME NEW S, NEW a \in Seq(S), NEW b \in Seq(S)
    PROVE  /\ a \o b \in Seq(S) /\ Len(a \o b) = Len(a) + Len(b)
           /\ DOMAIN (a \o b) = 1 .. Len(a) + Len(b)
           /\ \A i \in 1 .. Len(a) + Len(b) :
                 (a \o b)[i] = IF i <= Len(a) THEN a[i] ELSE b[i - Len(a)]
OBVIOUS

Open(r) == {t \in Tracks : r.pending[t] # None /\ r.pending[t].status = "pending"}

LEMMA OpenIs ==
    ASSUME NEW r, Sound(r)
    PROVE  /\ IsFiniteSet(Open(r)) /\ Open(r) \subseteq Tracks
           /\ \A t \in Tracks : t \in Open(r) <=> Pending(r, t) /\ t \notin ScheduledOn(r)
<1>1. IsFiniteSet(Open(r))
  BY EngineAssumption, FS_Subset DEF Open
<1>2. \A t \in Tracks : t \in Open(r) <=> Pending(r, t) /\ t \notin ScheduledOn(r)
  BY ScheduledIs DEF Open, Pending, ScheduledOn
<1> QED
  BY <1>1, <1>2 DEF Open

(* The units are those of the open tracks, and no two of them share one. *)
LEMMA UnitsApart ==
    ASSUME NEW r, Sound(r), NEW t \in Open(r), NEW u \in Open(r), Unit(r, t) \cap Unit(r, u) # {}
    PROVE  Unit(r, t) = Unit(r, u)
<1>1. Pending(r, t) /\ Pending(r, u) /\ t \in Tracks /\ u \in Tracks
  BY DEF Open, Pending
<1>2. PICK v : v \in Unit(r, t) /\ v \in Unit(r, u)
  OBVIOUS
<1>3. r.pending[v].group = r.pending[t].group /\ r.pending[v].group = r.pending[u].group
  BY <1>1, <1>2, UnitIs
<1>4. CASE r.pending[t].group = None
  BY <1>2, <1>3, <1>4 DEF Unit
<1>5. CASE r.pending[t].group # None
  BY <1>3, <1>5 DEF Unit
<1> QED
  BY <1>4, <1>5

(* What the loop finds: the entries of a unit, as they are now. *)
FoundUnit(r, t) == [u \in Unit(r, t) |-> r.pending[u]]

LEMMA UnitOpen ==
    ASSUME NEW r, Sound(r), NEW t \in Open(r)
    PROVE  Unit(r, t) \cap Open(r) = Unit(r, t) /\ t \in Unit(r, t) /\ Unit(r, t) \subseteq Open(r)
<1>1. Pending(r, t) /\ t \in Tracks /\ r.pending[t].status = "pending"
  BY DEF Open, Pending
<1>2. \A u \in Unit(r, t) : u \in Open(r)
  BY <1>1, UnitIs DEF Open, Pending
<1> QED
  BY <1>1, <1>2, UnitIs

(* A sequence of pairwise disjoint units that covers what is open. *)
Covers(r, units) ==
    /\ \A i \in DOMAIN units : \E t \in Open(r) : units[i] = FoundUnit(r, t)
    /\ \A i, j \in DOMAIN units : i # j => DOMAIN units[i] \cap DOMAIN units[j] = {}
    /\ \A t \in Open(r) : \E i \in DOMAIN units : t \in DOMAIN units[i]

LEMMA PendingUnitsIs ==
    ASSUME NEW r, Sound(r)
    PROVE  PendingUnits(r) \in Seq(Units) /\ Covers(r, PendingUnits(r))
<1> DEFINE open == Open(r)
           units == {Unit(r, t) \cap open : t \in open}
           scenes == {unit \in units : \A t \in unit : r.pending[t].group # None}
           Found(unit) == [t \in unit |-> r.pending[t]]
           A == {Found(unit) : unit \in scenes}
           B == {Found(unit) : unit \in units \ scenes}
           a == SetToSeq(A)
           b == SetToSeq(B)
           all == PendingUnits(r)
<1>1. all = a \o b
  BY DEF PendingUnits, Open
<1>2. IsFiniteSet(open)
  BY OpenIs
<1>3. IsFiniteSet(units)
  <2> DEFINE at == [t \in open |-> Unit(r, t) \cap open]
  <2>1. units = {at[t] : t \in open}
    OBVIOUS
  <2> HIDE DEF at
  <2> QED
    BY <1>2, <2>1, ImageFinite
<1>4. \A unit \in units : \E t \in open : unit = Unit(r, t) /\ t \in unit
  BY UnitOpen
<1>5. \A t \in open : Unit(r, t) \in units
  BY UnitOpen
<1>6. \A unit \in units : unit \subseteq Tracks /\ Found(unit) \in Units /\ unit # {}
  <2> SUFFICES ASSUME NEW unit \in units
               PROVE  unit \subseteq Tracks /\ Found(unit) \in Units /\ unit # {}
    OBVIOUS
  <2>1. PICK t \in open : unit = Unit(r, t) /\ t \in unit
    BY <1>4
  <2>2. Pending(r, t) /\ t \in Tracks
    BY <2>1 DEF Open, Pending
  <2>3. unit \subseteq Tracks /\ \A u \in unit : Pending(r, u)
    BY <2>1, <2>2, UnitIs
  <2>4. \A u \in unit : r.pending[u] \in Transitions(Ids)
    BY <2>3, EntryIs
  <2>5. Found(unit) \in [unit -> Transitions(Ids)]
    BY <2>4
  <2> QED
    BY <2>1, <2>3, <2>5 DEF Units
<1>7. \A x, y \in units : x \cap y # {} => x = y
  <2> SUFFICES ASSUME NEW x \in units, NEW y \in units, x \cap y # {} PROVE x = y
    OBVIOUS
  <2>1. PICK t \in open : x = Unit(r, t)
    BY <1>4
  <2>2. PICK u \in open : y = Unit(r, u)
    BY <1>4
  <2> QED
    BY <2>1, <2>2, UnitsApart
<1>8. IsFiniteSet(A) /\ IsFiniteSet(B)
  <2> DEFINE found == [unit \in units |-> Found(unit)]
  <2>1. IsFiniteSet(scenes) /\ IsFiniteSet(units \ scenes)
    BY <1>3, FS_Subset
  <2>2. A = {found[unit] : unit \in scenes} /\ B = {found[unit] : unit \in units \ scenes}
    OBVIOUS
  <2> HIDE DEF found, scenes, units, A, B
  <2> QED
    BY <2>1, <2>2, ImageFinite
<1>9. A \subseteq Units /\ B \subseteq Units
  BY <1>6
<1>10. \A x \in A, y \in B : x # y
  <2> SUFFICES ASSUME NEW x \in A, NEW y \in B, x = y PROVE FALSE
    OBVIOUS
  <2>1. PICK v \in scenes : x = Found(v)
    OBVIOUS
  <2>2. PICK w \in units \ scenes : y = Found(w)
    OBVIOUS
  <2>3. DOMAIN x = v /\ DOMAIN y = w
    BY <2>1, <2>2
  <2> QED
    BY <2>1, <2>2, <2>3
<1>11. \A x \in A \cup B : DOMAIN x \in units /\ x = Found(DOMAIN x)
  OBVIOUS
<1>12. \A unit \in units : Found(unit) \in A \cup B
  OBVIOUS
<1> HIDE DEF units, scenes, A, B, open, a, b, all, Found
<1>13. /\ a \in Seq(A) /\ a \in [1 .. Cardinality(A) -> A] /\ Cardinality(A) \in Nat
       /\ \A x \in A : \E i \in 1 .. Cardinality(A) : a[i] = x
       /\ \A i, j \in 1 .. Cardinality(A) : a[i] = a[j] => i = j
  BY <1>8, SetToSeqIs DEF a
<1>14. /\ b \in Seq(B) /\ b \in [1 .. Cardinality(B) -> B] /\ Cardinality(B) \in Nat
       /\ \A x \in B : \E i \in 1 .. Cardinality(B) : b[i] = x
       /\ \A i, j \in 1 .. Cardinality(B) : b[i] = b[j] => i = j
  BY <1>8, SetToSeqIs DEF b
<1>15. Len(a) = Cardinality(A) /\ Len(b) = Cardinality(B)
  BY <1>13, <1>14
<1>16. a \in Seq(Units) /\ b \in Seq(Units)
  <2>1. \A i \in 1 .. Len(a) : a[i] \in Units
    BY <1>9, <1>13, <1>15
  <2>2. \A i \in 1 .. Len(b) : b[i] \in Units
    BY <1>9, <1>14, <1>15
  <2> QED
    BY <1>13, <1>14, <1>15, <2>1, <2>2
<1>17. /\ all \in Seq(Units) /\ DOMAIN all = 1 .. Len(a) + Len(b)
       /\ \A i \in 1 .. Len(a) + Len(b) : all[i] = IF i <= Len(a) THEN a[i] ELSE b[i - Len(a)]
  BY <1>1, <1>16, Concatenated
<1>18. \A i \in DOMAIN all : /\ i \in Nat
                             /\ i <= Len(a) => i \in 1 .. Cardinality(A) /\ all[i] = a[i] /\ all[i] \in A
                             /\ ~(i <= Len(a)) => /\ i - Len(a) \in 1 .. Cardinality(B)
                                                  /\ all[i] = b[i - Len(a)] /\ all[i] \in B
  <2> SUFFICES ASSUME NEW i \in DOMAIN all
               PROVE  /\ i \in Nat
                      /\ i <= Len(a) => i \in 1 .. Cardinality(A) /\ all[i] = a[i] /\ all[i] \in A
                      /\ ~(i <= Len(a)) => /\ i - Len(a) \in 1 .. Cardinality(B)
                                           /\ all[i] = b[i - Len(a)] /\ all[i] \in B
    OBVIOUS
  <2>1. i \in 1 .. Len(a) + Len(b) /\ Len(a) \in Nat /\ Len(b) \in Nat
    BY <1>13, <1>14, <1>15, <1>17
  <2> QED
    BY <1>13, <1>14, <1>15, <1>17, <2>1
<1>19. \A i \in DOMAIN all : \E t \in open : all[i] = FoundUnit(r, t)
  <2> SUFFICES ASSUME NEW i \in DOMAIN all PROVE \E t \in open : all[i] = FoundUnit(r, t)
    OBVIOUS
  <2>1. DOMAIN all[i] \in units /\ all[i] = Found(DOMAIN all[i])
    BY <1>11, <1>18
  <2>2. PICK t \in open : DOMAIN all[i] = Unit(r, t)
    BY <1>4, <2>1
  <2> QED
    BY <2>1, <2>2 DEF FoundUnit, Found
<1>20. \A i, j \in DOMAIN all : i # j => DOMAIN all[i] \cap DOMAIN all[j] = {}
  <2> SUFFICES ASSUME NEW i \in DOMAIN all, NEW j \in DOMAIN all, i # j,
                      DOMAIN all[i] \cap DOMAIN all[j] # {}
               PROVE  FALSE
    OBVIOUS
  <2>1. /\ DOMAIN all[i] \in units /\ all[i] = Found(DOMAIN all[i])
        /\ DOMAIN all[j] \in units /\ all[j] = Found(DOMAIN all[j])
    BY <1>11, <1>18
  <2>2. all[i] = all[j]
    BY <1>7, <2>1
  <2>3. Len(a) \in Nat
    BY <1>13, <1>15
  <2>4. CASE i <= Len(a) /\ j <= Len(a)
    BY <1>13, <1>18, <2>2, <2>4
  <2>5. CASE ~(i <= Len(a)) /\ ~(j <= Len(a))
    <3>1. i - Len(a) = j - Len(a)
      BY <1>14, <1>18, <2>2, <2>5
    <3> QED
      BY <1>18, <2>3, <3>1
  <2>6. CASE i <= Len(a) /\ ~(j <= Len(a))
    BY <1>10, <1>18, <2>2, <2>6
  <2>7. CASE ~(i <= Len(a)) /\ j <= Len(a)
    BY <1>10, <1>18, <2>2, <2>7
  <2> QED
    BY <2>4, <2>5, <2>6, <2>7
<1>21. \A t \in open : \E i \in DOMAIN all : t \in DOMAIN all[i]
  <2> SUFFICES ASSUME NEW t \in open PROVE \E i \in DOMAIN all : t \in DOMAIN all[i]
    OBVIOUS
  <2> DEFINE x == Found(Unit(r, t))
  <2>1. x \in A \cup B /\ t \in DOMAIN x
    BY <1>5, <1>12, UnitOpen DEF open, Found
  <2> HIDE DEF x
  <2>2. Len(a) \in Nat /\ Len(b) \in Nat
    BY <1>13, <1>14, <1>15
  <2>3. CASE x \in A
    <3>1. PICK i \in 1 .. Cardinality(A) : a[i] = x
      BY <1>13, <2>3
    <3>2. i \in DOMAIN all /\ all[i] = x
      BY <1>15, <1>17, <2>2, <3>1
    <3> QED
      BY <2>1, <3>2
  <2>4. CASE x \in B
    <3>1. PICK i \in 1 .. Cardinality(B) : b[i] = x
      BY <1>14, <2>4
    <3>2. i + Len(a) \in DOMAIN all /\ all[i + Len(a)] = x
      BY <1>15, <1>17, <2>2, <3>1
    <3> QED
      BY <2>1, <3>2
  <2> QED
    BY <2>1, <2>3, <2>4
<1> QED
  BY <1>17, <1>19, <1>20, <1>21 DEF Covers, open, all

LEMMA UnitFound ==
    ASSUME NEW r, Sound(r), NEW t \in Open(r), NEW n, Numbered(r, n)
    PROVE  UnitSound(FoundUnit(r, t), r, n) /\ Matches(r, FoundUnit(r, t))
<1> DEFINE unit == FoundUnit(r, t)
<1>1. t \in Tracks /\ Pending(r, t)
  BY DEF Open, Pending
<1>2. /\ Unit(r, t) \subseteq Open(r) /\ t \in Unit(r, t) /\ Unit(r, t) \subseteq Tracks
      /\ \A u \in Unit(r, t) : Pending(r, u) /\ r.pending[u].group = r.pending[t].group
  BY <1>1, UnitOpen, UnitIs
<1>3. DOMAIN unit = Unit(r, t) /\ \A u \in Unit(r, t) : unit[u] = r.pending[u]
  BY DEF FoundUnit
<1> HIDE DEF unit
<1>4. \A u \in Unit(r, t) :
         /\ u \in Tracks /\ r.pending[u] \in Transitions(Ids) /\ r.pending[u].status = "pending"
         /\ EntrySound(r, u) /\ u \notin ScheduledOn(r)
  BY <1>2, EntryIs, OpenIs DEF Open
<1>5. ASSUME NEW u \in DOMAIN unit
      PROVE  /\ unit[u] \in Transitions(Ids) /\ unit[u].status = "pending" /\ unit[u].id[2] = u
             /\ (unit[u].kind = "launch" <=> unit[u].clip # None)
  BY <1>3, <1>4, <1>5 DEF EntrySound
<1>6. ASSUME NEW u \in DOMAIN unit
      PROVE  /\ unit[u].group = None => DOMAIN unit = {u}
             /\ unit[u].group # None =>
                   /\ unit[u].group[3] = "gesture" /\ unit[u].group[1] <= n
                   /\ Members(r, unit[u].group) \subseteq DOMAIN unit \ ScheduledOn(r)
             /\ \A v \in DOMAIN unit : unit[v].group = unit[u].group
             /\ u \notin ScheduledOn(r)
  <2>1. u \in Unit(r, t) /\ unit[u] = r.pending[u] /\ r.pending[u].group = r.pending[t].group
    BY <1>2, <1>3
  <2>2. \A v \in DOMAIN unit : unit[v].group = unit[u].group
    BY <1>2, <1>3
  <2>3. CASE r.pending[t].group = None
    <3>1. Unit(r, t) = {t}
      BY <2>3 DEF Unit
    <3> QED
      BY <1>3, <1>4, <2>1, <2>2, <2>3, <3>1
  <2>4. CASE r.pending[t].group # None
    <3>1. Unit(r, t) = Members(r, r.pending[t].group)
      BY <2>4 DEF Unit
    <3>2. r.pending[u].group \in r.ids /\ r.pending[u].group[3] = "gesture"
      BY <1>4, <2>1, <2>4 DEF EntrySound
    <3>3. r.pending[u].group[1] <= n
      BY <3>2 DEF Numbered
    <3> QED
      BY <1>3, <1>4, <2>1, <2>2, <2>4, <3>1, <3>2, <3>3
  <2> QED
    BY <2>3, <2>4
<1>7. UnitSound(unit, r, n)
  <2>1. DOMAIN unit \subseteq Tracks /\ DOMAIN unit # {}
    BY <1>2, <1>3
  <2> QED
    BY <1>5, <1>6, <2>1, Zenon DEF UnitSound
<1>8. Matches(r, unit)
  <2> SUFFICES ASSUME NEW u \in DOMAIN unit PROVE Same(r.pending[u], unit[u]) /\ r.pending[u].status = "pending"
    BY DEF Matches
  <2>1. unit[u] = r.pending[u] /\ r.pending[u] \in Transitions(Ids) /\ r.pending[u].status = "pending"
        /\ Pending(r, u)
    BY <1>2, <1>3, <1>4
  <2>2. [r.pending[u] EXCEPT !.status = r.pending[u].status] = r.pending[u]
    BY <2>1 DEF Transitions
  <2> QED
    BY <2>1, <2>2 DEF Same, Pending
<1> QED
  BY <1>7, <1>8 DEF unit

(* The units that are found are sound, and each of them matches. *)
LEMMA FoundIs ==
    ASSUME NEW r, Sound(r), NEW n, Numbered(r, n)
    PROVE  LET units == PendingUnits(r)
           IN  /\ units \in Seq(Units)
               /\ \A i \in DOMAIN units : UnitSound(units[i], r, n) /\ Matches(r, units[i])
               /\ \A i, j \in DOMAIN units : i # j => DOMAIN units[i] \cap DOMAIN units[j] = {}
               /\ \A t \in Tracks : Pending(r, t) /\ t \notin ScheduledOn(r)
                     => \E i \in DOMAIN units : t \in DOMAIN units[i]
<1> DEFINE units == PendingUnits(r)
<1>1. units \in Seq(Units) /\ Covers(r, units)
  BY PendingUnitsIs
<1> HIDE DEF units
<1>2. \A i \in DOMAIN units : UnitSound(units[i], r, n) /\ Matches(r, units[i])
  BY <1>1, UnitFound DEF Covers
<1>3. \A t \in Tracks : Pending(r, t) /\ t \notin ScheduledOn(r) => t \in Open(r)
  BY OpenIs
<1> QED
  BY <1>1, <1>2, <1>3 DEF Covers, units

LEMMA StopMarkedIs ==
    ASSUME NEW r, Sound(r), Unscheduled(r)
    PROVE  LET f == StopMarked(r)
           IN  /\ Sound(f) /\ Running(f) /\ f.stop # None /\ f.stop.status = "scheduled"
               /\ f.stop.id = r.stop.id
               /\ f.ids = r.ids /\ f.beat = r.beat /\ f.clip = r.clip /\ f.pending = r.pending
               /\ f.phase = r.phase
<1> DEFINE f == StopMarked(r)
           stop == [r.stop EXCEPT !.status = "scheduled"]
<1>1. /\ r \in Performances(Ids) /\ r.stop \in Stops(Ids) /\ r.phase = "stopping"
  BY DEF Sound, Performances, Unscheduled
<1>2. stop \in Stops(Ids) /\ stop.status = "scheduled" /\ stop.id = r.stop.id
  BY <1>1 DEF Stops
<1>3. f = [r EXCEPT !.stop = stop]
  BY <1>1 DEF StopMarked, Performances
<1> HIDE DEF f, stop
<1>4. /\ f \in Performances(Ids) /\ f.stop = stop /\ f.phase = r.phase
      /\ f.ids = r.ids /\ f.beat = r.beat /\ f.clip = r.clip /\ f.pending = r.pending
  BY <1>1, <1>2, <1>3 DEF Performances
<1>5. f.stop # None
  BY <1>2, <1>4, NoneIs
<1>6. Sound(f) /\ Running(f)
  BY <1>1, <1>4, <1>5 DEF Sound, Together, EntrySound, Pending, Running
<1> QED
  BY <1>2, <1>4, <1>5, <1>6 DEF f

LEMMA SyncHeadKeeps ==
    ASSUME IInv, SyncHead
    PROVE  Keeps
<1> DEFINE p == Reconciled(Both, song)
           e == IF Unscheduled(p.runtime)
                THEN StopScheduled(p.engine, p.runtime.stop.id, p.runtime.stop.target) ELSE p.engine
           f == IF Unscheduled(p.runtime) THEN StopMarked(p.runtime) ELSE p.runtime
           units == PendingUnits(p.runtime)
<1>1. /\ sync.pc = "head" /\ made' = [made EXCEPT !.refreshes = p.refreshes]
      /\ song' = song /\ session' = session
      /\ \/ /\ p.done = "thrown" \/ Unscheduled(p.runtime)
            /\ engine' = p.engine /\ runtime' = p.runtime
            /\ sync' = [pc |-> "failed", dirty |-> FALSE, units |-> << >>]
         \/ /\ p.done # "thrown" /\ engine' = e /\ runtime' = f
            /\ sync' = [pc |-> "units", dirty |-> FALSE, units |-> units]
  BY DEF SyncHead, Pass
<1>2. Sound(runtime) /\ engine \in SessionEngines /\ song \in Songs /\ made \in Counters
  BY RuntimeIs
<1>3. Sides(Both) /\ Both.engine = engine /\ Both.runtime = runtime /\ Both.refreshes = made.refreshes
  BY <1>2 DEF Both, Sides, Sound, Counters
<1>4. Reconciles(Both, song, p)
  BY <1>2, <1>3, ReconciledIs
<1> HIDE DEF p
<1>5. /\ Sides(p) /\ Sound(p.runtime) /\ SameRequests(engine, p.engine)
      /\ \A id \in p.runtime.ids : id \in runtime.ids \/ id[3] = "refresh"
      /\ Running(p.runtime) => Running(runtime)
      /\ RefreshNumbered(runtime, made.refreshes) => RefreshNumbered(p.runtime, p.refreshes)
  BY <1>3, <1>4 DEF Reconciles, Remaining
<1>6. p.engine \in SessionEngines /\ p.refreshes \in Nat
  BY <1>5 DEF Sides
<1>7. ASSUME Running(p.runtime)
      PROVE  /\ Agreed(p.engine, p.runtime) /\ Wanted(song, p.engine, p.runtime)
             /\ p.done # "thrown" => Audible(p.engine, p.runtime)
             /\ session = "active"
  <2>1. session = "active" /\ Agreed(engine, runtime)
    BY <1>5, <1>7 DEF IInv
  <2>2. Weakly(engine, runtime) /\ runtime.beat <= engine.beat
    BY <2>1 DEF Agreed
  <2> QED
    BY <1>3, <1>4, <1>7, <2>1, <2>2 DEF Reconciles
<1>8. p.done = "thrown" /\ RefreshNumbered(runtime, made.refreshes) => ~(Cardinality(p.runtime.ids) < IdCapacity)
  BY <1>3, <1>4 DEF Reconciles
<1>9. /\ e \in SessionEngines /\ e.batch = p.engine.batch /\ e.pending = p.engine.pending
      /\ e.active = p.engine.active
      /\ Sound(f) /\ f.ids = p.runtime.ids /\ f.clip = p.runtime.clip /\ f.pending = p.runtime.pending
      /\ Running(f) => Running(p.runtime) /\ Agreed(e, f)
  <2>1. CASE ~Unscheduled(p.runtime)
    BY <1>5, <1>6, <1>7, <2>1
  <2>2. CASE Unscheduled(p.runtime)
    <3> DEFINE stop == p.runtime.stop
               asked == [id |-> stop.id, target |-> stop.target]
    <3>1. stop \in Stops(Ids) /\ stop.status = "pending" /\ stop # None /\ Running(p.runtime)
      BY <1>5, <2>2 DEF Sound, Performances, Unscheduled, Running
    <3>2. asked \in [id : Ids, target : Nat]
      BY <3>1 DEF Stops
    <3>3. Agreed(p.engine, p.runtime)
      BY <1>7, <3>1
    <3>4. p.engine.stop = None
      BY <2>2, <3>1, <3>3 DEF Agreed, Weakly, StopsAgree
    <3>5. e = [p.engine EXCEPT !.stop = asked]
      BY <2>2, <3>4 DEF StopScheduled
    <3>6. /\ Sound(f) /\ f.stop # None /\ f.stop.status = "scheduled" /\ f.stop.id = stop.id
          /\ f.ids = p.runtime.ids /\ f.beat = p.runtime.beat /\ f.clip = p.runtime.clip
          /\ f.pending = p.runtime.pending
      BY <1>5, <2>2, StopMarkedIs
    <3>7. asked # None /\ asked.id = stop.id
      BY <3>2, NoneIs
    <3> HIDE DEF e, f, asked
    <3>8. /\ e \in SessionEngines /\ e.batch = p.engine.batch /\ e.pending = p.engine.pending
          /\ e.active = p.engine.active /\ e.running = p.engine.running /\ e.phase = p.engine.phase
          /\ e.beat = p.engine.beat /\ e.stop = asked
      BY <1>6, <3>2, <3>5 DEF SessionEngines
    <3>9. StopsAgree(e, f)
      BY <3>6, <3>7, <3>8 DEF StopsAgree
    <3>10. Agreed(e, f)
      BY <3>3, <3>6, <3>8, <3>9, AgreedStays
    <3> QED
      BY <3>1, <3>6, <3>8, <3>10
  <2> QED
    BY <2>1, <2>2
<1>10. Numbered(p.runtime, made.requests)
  BY <1>5 DEF IInv, Numbered
<1>11. /\ units \in Seq(Units)
       /\ \A i \in DOMAIN units : UnitSound(units[i], p.runtime, made.requests) /\ Matches(p.runtime, units[i])
       /\ \A i, j \in DOMAIN units : i # j => DOMAIN units[i] \cap DOMAIN units[j] = {}
       /\ \A t \in Tracks : Pending(p.runtime, t) /\ t \notin ScheduledOn(p.runtime)
             => \E i \in DOMAIN units : t \in DOMAIN units[i]
  BY <1>5, <1>10, FoundIs
<1> HIDE DEF e, f, units
<1>12. /\ engine' \in SessionEngines /\ engine'.batch = p.engine.batch
       /\ engine'.pending = p.engine.pending /\ engine'.active = p.engine.active
       /\ Sound(runtime') /\ runtime'.ids = p.runtime.ids /\ runtime'.clip = p.runtime.clip
       /\ runtime'.pending = p.runtime.pending
       /\ Running(runtime') => Running(p.runtime) /\ Agreed(engine', runtime')
  <2>1. CASE engine' = p.engine /\ runtime' = p.runtime
    BY <1>5, <1>6, <1>7, <2>1
  <2>2. CASE engine' = e /\ runtime' = f
    BY <1>9, <2>2
  <2> QED
    BY <1>1, <2>1, <2>2
<1>13. /\ ScheduledOn(runtime') = ScheduledOn(p.runtime) /\ Kept(p.runtime, runtime')
       /\ \A g : Members(runtime', g) = Members(p.runtime, g)
       /\ \A t : Pending(runtime', t) <=> Pending(p.runtime, t)
  BY <1>12, EntriesAlike
<1>14. made.requests \in Nat /\ made' \in Counters /\ made'.requests = made.requests
       /\ made'.sessions = made.sessions /\ made'.refreshes = p.refreshes
  BY <1>1, <1>2, <1>6 DEF Counters
<1>15. \A i \in DOMAIN units : UnitSound(units[i], runtime', made.requests)
  <2>1. Waning(p.runtime, runtime', made.requests)
    BY <1>13 DEF Waning
  <2> QED
    BY <1>11, <1>13, <1>14, <2>1, UnitKept
<1>16. /\ sync' \in [pc : {"idle", "head", "units", "preparing", "failed"}, dirty : BOOLEAN, units : Seq(Units)]
       /\ sync'.pc \in {"units", "failed"}
       /\ sync'.units = << >> \/ sync'.units = units
       /\ sync'.pc = "units" => p.done # "thrown" /\ sync'.units = units
  <2> DEFINE none == << >>
  <2>1. none \in Seq(Units)
    OBVIOUS
  <2> HIDE DEF none
  <2>2. \A pc \in {"failed", "units"}, all \in Seq(Units) :
           [pc |-> pc, dirty |-> FALSE, units |-> all]
             \in [pc : {"idle", "head", "units", "preparing", "failed"}, dirty : BOOLEAN, units : Seq(Units)]
    OBVIOUS
  <2>3. CASE sync' = [pc |-> "failed", dirty |-> FALSE, units |-> none]
    BY <2>1, <2>2, <2>3 DEF none
  <2>4. CASE p.done # "thrown" /\ sync' = [pc |-> "units", dirty |-> FALSE, units |-> units]
    BY <1>11, <2>2, <2>4
  <2> QED
    BY <1>1, <2>3, <2>4 DEF none
<1>17. engine'.batch[Caller] = None
  BY <1>1, <1>5, <1>12, CallerIs DEF IInv, LoopSound, SameRequests
<1>18. LoopSound'
  <2>1. CASE sync'.units = << >>
    BY <1>1, <1>16, <1>17, <2>1 DEF IInv, LoopSound
  <2>2. CASE sync'.units = units
    BY <1>1, <1>11, <1>14, <1>15, <1>16, <1>17, <2>2 DEF IInv, LoopSound
  <2> QED
    BY <1>16, <2>1, <2>2
<1>19. IInv'
  <2>1. Types'
    BY <1>1, <1>2, <1>12, <1>14, <1>16, RuntimeIs DEF Types, Counters
  <2>2. Numbered(runtime', made'.requests)
    BY <1>10, <1>12, <1>14 DEF Numbered
  <2>3. Running(runtime') => session' = "active" /\ Agreed(engine', runtime')
    BY <1>1, <1>7, <1>12
  <2>4. session' # "starting"
    BY <1>1 DEF IInv, LoopSound
  <2> QED
    BY <1>12, <1>18, <2>1, <2>2, <2>3, <2>4 DEF IInv
<1>20. ASSUME JInv, Cardinality(runtime'.ids) < IdCapacity PROVE JInv'
  <2>1. RefreshNumbered(runtime', made'.refreshes)
    BY <1>5, <1>12, <1>14, <1>20 DEF JInv, RefreshNumbered
  <2>2. p.done # "thrown"
    BY <1>8, <1>12, <1>20 DEF JInv
  <2>3. FirstSession'
    BY <1>1, <1>14, <1>20 DEF JInv, FirstSession
  <2>4. Running(runtime') => Audible(engine', runtime')
    BY <1>7, <1>12, <2>2 DEF Audible
  <2>5. BatchCurrent'
    BY <1>16 DEF BatchCurrent
  <2>6. Covered'
    <3> SUFFICES ASSUME Current'
                 PROVE  /\ Wanted(song', engine', runtime')
                        /\ \A t \in Tracks :
                              Pending(runtime', t) /\ t \notin ScheduledOn(runtime')
                              => /\ sync'.pc # "idle"
                                 /\ \E i \in DOMAIN sync'.units :
                                       t \in DOMAIN sync'.units[i] /\ Matches(runtime', sync'.units[i])
      BY DEF Covered, InUnits
    <3>1. Running(runtime') /\ sync'.pc = "units" /\ sync'.units = units
      BY <1>16 DEF Current
    <3>2. Wanted(song', engine', runtime')
      BY <1>1, <1>7, <1>12, <1>13, <3>1 DEF Wanted
    <3>3. ASSUME NEW t \in Tracks, Pending(runtime', t), t \notin ScheduledOn(runtime')
          PROVE  \E i \in DOMAIN units : t \in DOMAIN units[i] /\ Matches(runtime', units[i])
      <4>1. PICK i \in DOMAIN units : t \in DOMAIN units[i]
        BY <1>11, <1>13, <3>3
      <4>2. Matches(p.runtime, units[i])
        BY <1>11
      <4>3. Matches(runtime', units[i])
        BY <1>12, <4>2 DEF Matches
      <4> QED
        BY <4>1, <4>3
    <3> QED
      BY <3>1, <3>2, <3>3
  <2> QED
    BY <2>1, <2>3, <2>4, <2>5, <2>6 DEF JInv
<1> QED
  BY <1>19, <1>20 DEF Keeps

(***************************************************************************)
(* One unit after the other.                                               *)
(***************************************************************************)
LEMMA UnitMembers ==
    ASSUME NEW unit, NEW r, NEW n, UnitSound(unit, r, n), NEW t \in DOMAIN unit, unit[t].group # None
    PROVE  Members(r, unit[t].group) \subseteq DOMAIN unit \ ScheduledOn(r)
BY DEF UnitSound

LEMMA UnitIds ==
    ASSUME NEW unit, NEW r, NEW n, UnitSound(unit, r, n), NEW t \in DOMAIN unit, t \in ScheduledOn(r)
    PROVE  r.pending[t].id # unit[t].id
BY Zenon DEF UnitSound

LEMMA TailIs ==
    ASSUME NEW S, NEW s \in Seq(S), s # << >>
    PROVE  /\ 1 \in DOMAIN s /\ Head(s) = s[1] /\ Tail(s) \in Seq(S)
           /\ \A i \in DOMAIN Tail(s) : /\ i + 1 \in DOMAIN s /\ i + 1 # 1 /\ Tail(s)[i] = s[i + 1]
                                        /\ i \in Nat
           /\ \A i \in DOMAIN s : i # 1 => /\ i - 1 \in DOMAIN Tail(s)
                                           /\ Tail(s)[i - 1] = s[i]
<1>1. Len(s) \in Nat /\ Len(s) # 0 /\ DOMAIN s = 1 .. Len(s)
  OBVIOUS
<1>2. Head(s) = s[1] /\ Tail(s) \in Seq(S) /\ Len(Tail(s)) = Len(s) - 1
  BY <1>1
<1>3. DOMAIN Tail(s) = 1 .. Len(s) - 1 /\ \A i \in 1 .. Len(s) - 1 : Tail(s)[i] = s[i + 1]
  BY <1>1, <1>2
<1>4. \A i \in DOMAIN Tail(s) : i + 1 \in DOMAIN s /\ i + 1 # 1 /\ Tail(s)[i] = s[i + 1] /\ i \in Nat
  BY <1>1, <1>3
<1>5. \A i \in DOMAIN s : i # 1 => i - 1 \in DOMAIN Tail(s) /\ Tail(s)[i - 1] = s[i]
  <2> SUFFICES ASSUME NEW i \in DOMAIN s, i # 1
               PROVE  i - 1 \in DOMAIN Tail(s) /\ Tail(s)[i - 1] = s[i]
    OBVIOUS
  <2>1. i \in Nat /\ i - 1 \in 1 .. Len(s) - 1 /\ (i - 1) + 1 = i
    BY <1>1
  <2> QED
    BY <1>3, <2>1
<1> QED
  BY <1>1, <1>2, <1>4, <1>5

(* The unit that the loop is at. *)
Busy(unit) == sync.pc \in {"units", "preparing"} /\ sync.units # << >> /\ unit = Head(sync.units)

LEMMA BusyIs ==
    ASSUME IInv, NEW unit, Busy(unit)
    PROVE  /\ UnitSound(unit, runtime, made.requests) /\ DOMAIN unit \subseteq Tracks /\ DOMAIN unit # {}
           /\ session \notin {"starting", "outdated"} /\ sync.pc # "idle"
           /\ 1 \in DOMAIN sync.units /\ sync.units[1] = unit /\ sync.units \in Seq(Units)
<1>1. sync.units \in Seq(Units)
  BY DEF IInv, Types
<1>2. 1 \in DOMAIN sync.units /\ sync.units[1] = unit
  BY <1>1, TailIs DEF Busy
<1>3. UnitSound(unit, runtime, made.requests)
  BY <1>2 DEF IInv, LoopSound
<1>4. session \notin {"starting", "outdated"} /\ sync.pc # "idle"
  BY DEF IInv, LoopSound, Busy
<1> QED
  BY <1>1, <1>2, <1>3, <1>4 DEF UnitSound

LEMMA UnitStepKeeps ==
    ASSUME IInv, NEW unit, Busy(unit), UNCHANGED <<song, session, made>>,
           NextUnit \/ LoopFails,
           engine' \in SessionEngines, engine'.batch[Caller] = None,
           Sound(runtime'), runtime'.ids = runtime.ids,
           \A g \in Ids : Members(runtime', g) \subseteq Members(runtime, g),
           \A t \in Tracks : t \notin DOMAIN unit => runtime'.pending[t] = runtime.pending[t],
           \A t \in Tracks : Pending(runtime', t) /\ t \notin ScheduledOn(runtime')
              => runtime'.pending[t] = runtime.pending[t],
           Running(runtime') => Running(runtime) /\ Agreed(engine', runtime'),
           JInv /\ Running(runtime') => Audible(engine', runtime'),
           JInv /\ Running(runtime') /\ ~sync.dirty /\ NextUnit => Wanted(song, engine', runtime'),
           NextUnit /\ Matches(runtime, unit) =>
              \A t \in DOMAIN unit : Pending(runtime', t) => t \in ScheduledOn(runtime')
    PROVE  Keeps
<1>1. /\ UnitSound(unit, runtime, made.requests) /\ DOMAIN unit \subseteq Tracks
      /\ session \notin {"starting", "outdated"} /\ sync.pc # "idle"
      /\ 1 \in DOMAIN sync.units /\ sync.units[1] = unit /\ sync.units \in Seq(Units)
      /\ sync.units # << >> /\ sync.pc \in {"units", "preparing"}
  BY BusyIs DEF Busy
<1>2. /\ Tail(sync.units) \in Seq(Units)
      /\ \A i \in DOMAIN Tail(sync.units) :
            i + 1 \in DOMAIN sync.units /\ i + 1 # 1 /\ Tail(sync.units)[i] = sync.units[i + 1] /\ i \in Nat
      /\ \A i \in DOMAIN sync.units : i # 1 =>
            i - 1 \in DOMAIN Tail(sync.units) /\ Tail(sync.units)[i - 1] = sync.units[i]
  BY <1>1, TailIs
<1>3. /\ \A i \in DOMAIN sync.units : UnitSound(sync.units[i], runtime, made.requests)
      /\ \A i, j \in DOMAIN sync.units : i # j => DOMAIN sync.units[i] \cap DOMAIN sync.units[j] = {}
  BY DEF IInv, LoopSound
<1>4. made.requests \in Nat
  BY RuntimeIs
<1>5. \A i \in DOMAIN sync.units : i # 1 =>
         \A t \in DOMAIN sync.units[i] : t \in Tracks /\ t \notin DOMAIN unit
  <2> SUFFICES ASSUME NEW i \in DOMAIN sync.units, i # 1, NEW t \in DOMAIN sync.units[i]
               PROVE  t \in Tracks /\ t \notin DOMAIN unit
    OBVIOUS
  <2>1. UnitSound(sync.units[i], runtime, made.requests)
    BY <1>3
  <2>2. DOMAIN sync.units[i] \cap DOMAIN unit = {}
    BY <1>1, <1>3
  <2> QED
    BY <2>1, <2>2, UnitTells
<1>6. \A i \in DOMAIN sync.units : i # 1 => UnitSound(sync.units[i], runtime', made.requests)
  <2> SUFFICES ASSUME NEW i \in DOMAIN sync.units, i # 1
               PROVE  UnitSound(sync.units[i], runtime', made.requests)
    OBVIOUS
  <2>1. UnitSound(sync.units[i], runtime, made.requests)
    BY <1>3
  <2>2. \A t \in DOMAIN sync.units[i] : t \in ScheduledOn(runtime') =>
           t \in ScheduledOn(runtime) /\ runtime'.pending[t].id = runtime.pending[t].id
    BY <1>5 DEF ScheduledOn
  <2>3. Waning(runtime, runtime', made.requests)
    BY DEF Waning
  <2> QED
    BY <1>4, <2>1, <2>2, <2>3, UnitKeptApart
<1>7. /\ sync' \in [pc : {"idle", "head", "units", "preparing", "failed"}, dirty : BOOLEAN, units : Seq(Units)]
      /\ \/ sync'.pc = "units" /\ sync'.units = Tail(sync.units) /\ NextUnit
         \/ sync'.pc = "failed" /\ sync'.units = << >>
      /\ sync'.dirty = sync.dirty
  <2>1. sync \in [pc : {"idle", "head", "units", "preparing", "failed"}, dirty : BOOLEAN, units : Seq(Units)]
    BY DEF IInv, Types
  <2> DEFINE none == << >>
             rest == Tail(sync.units)
  <2>2. none \in Seq(Units) /\ rest \in Seq(Units)
    BY <1>2
  <2>3. \/ NextUnit /\ sync' = [sync EXCEPT !.pc = "units", !.units = rest]
        \/ sync' = [sync EXCEPT !.pc = "failed", !.units = none]
    BY DEF NextUnit, LoopFails
  <2> HIDE DEF none, rest
  <2>4. /\ sync' \in [pc : {"idle", "head", "units", "preparing", "failed"}, dirty : BOOLEAN, units : Seq(Units)]
        /\ \/ sync'.pc = "units" /\ sync'.units = rest /\ NextUnit
           \/ sync'.pc = "failed" /\ sync'.units = none
        /\ sync'.dirty = sync.dirty
    BY <2>1, <2>2, <2>3
  <2> QED
    BY <2>4 DEF none, rest
<1>8. LoopSound'
  <2>1. CASE sync'.units = << >>
    BY <1>1, <1>7, <2>1 DEF LoopSound
  <2>2. CASE sync'.units = Tail(sync.units)
    <3>1. \A i \in DOMAIN Tail(sync.units) : UnitSound(Tail(sync.units)[i], runtime', made'.requests)
      BY <1>2, <1>6
    <3>2. \A i, j \in DOMAIN Tail(sync.units) :
             i # j => DOMAIN Tail(sync.units)[i] \cap DOMAIN Tail(sync.units)[j] = {}
      <4> SUFFICES ASSUME NEW i \in DOMAIN Tail(sync.units), NEW j \in DOMAIN Tail(sync.units), i # j
                   PROVE  DOMAIN Tail(sync.units)[i] \cap DOMAIN Tail(sync.units)[j] = {}
        OBVIOUS
      <4>1. /\ i + 1 \in DOMAIN sync.units /\ Tail(sync.units)[i] = sync.units[i + 1] /\ i \in Nat
            /\ j + 1 \in DOMAIN sync.units /\ Tail(sync.units)[j] = sync.units[j + 1] /\ j \in Nat
        BY <1>2
      <4>2. i + 1 # j + 1
        BY <4>1
      <4> QED
        BY <1>3, <4>1, <4>2
    <3> QED
      BY <1>1, <1>7, <2>2, <3>1, <3>2 DEF LoopSound
  <2> QED
    BY <1>7, <2>1, <2>2
<1>9. IInv'
  <2>1. Types'
    BY <1>7 DEF IInv, Types
  <2>2. Numbered(runtime', made'.requests)
    BY DEF IInv, Numbered
  <2>3. Running(runtime') => session' = "active"
    BY DEF IInv
  <2> QED
    BY <1>1, <1>8, <2>1, <2>2, <2>3 DEF IInv
<1>10. ASSUME JInv PROVE JInv'
  <2>1. RefreshNumbered(runtime', made'.refreshes)
    BY <1>10 DEF JInv, RefreshNumbered
  <2>2. FirstSession' /\ BatchCurrent'
    BY <1>1, <1>7, <1>10 DEF JInv, FirstSession, BatchCurrent
  <2>3. Covered'
    <3> SUFFICES ASSUME Current'
                 PROVE  /\ Wanted(song', engine', runtime')
                        /\ \A t \in Tracks :
                              Pending(runtime', t) /\ t \notin ScheduledOn(runtime')
                              => /\ sync'.pc # "idle"
                                 /\ \E i \in DOMAIN sync'.units :
                                       t \in DOMAIN sync'.units[i] /\ Matches(runtime', sync'.units[i])
      BY DEF Covered, InUnits
    <3>1. Running(runtime') /\ sync'.pc = "units" /\ sync'.units = Tail(sync.units) /\ NextUnit /\ ~sync.dirty
      BY <1>7 DEF Current
    <3>2. Current /\ Wanted(song', engine', runtime')
      BY <1>1, <1>10, <3>1 DEF Current
    <3>3. ASSUME NEW t \in Tracks, Pending(runtime', t), t \notin ScheduledOn(runtime')
          PROVE  \E i \in DOMAIN Tail(sync.units) :
                    t \in DOMAIN Tail(sync.units)[i] /\ Matches(runtime', Tail(sync.units)[i])
      <4>1. runtime'.pending[t] = runtime.pending[t]
        BY <3>3
      <4>2. Pending(runtime, t) /\ t \notin ScheduledOn(runtime)
        BY <3>3, <4>1 DEF Pending, ScheduledOn
      <4>3. InUnits(runtime, t)
        BY <1>10, <3>2, <4>2 DEF JInv, Covered
      <4>4. PICK i \in DOMAIN sync.units : t \in DOMAIN sync.units[i] /\ Matches(runtime, sync.units[i])
        BY <4>3 DEF InUnits
      <4>5. i # 1
        BY <1>1, <3>1, <3>3, <4>4
      <4>6. \A u \in DOMAIN sync.units[i] : runtime'.pending[u] = runtime.pending[u]
        BY <1>5, <4>5
      <4>7. Matches(runtime', sync.units[i])
        BY <4>4, <4>6 DEF Matches
      <4> QED
        BY <1>2, <4>4, <4>5, <4>7
    <3> QED
      BY <3>1, <3>2, <3>3
  <2> QED
    BY <1>10, <2>1, <2>2, <2>3 DEF JInv
<1> QED
  BY <1>9, <1>10 DEF Keeps

LEMMA SyncEndsKeeps ==
    ASSUME IInv, SyncEnds
    PROVE  Keeps
<1>1. /\ sync.pc = "units" /\ sync.units = << >> /\ UNCHANGED <<engine, runtime, song, session, made>>
      /\ sync' = [sync EXCEPT !.pc = IF sync.dirty THEN "head" ELSE "idle"]
  BY DEF SyncEnds
<1>2. /\ sync' \in [pc : {"idle", "head", "units", "preparing", "failed"}, dirty : BOOLEAN, units : Seq(Units)]
      /\ sync'.units = << >> /\ sync'.dirty = sync.dirty
      /\ sync'.pc = IF sync.dirty THEN "head" ELSE "idle"
  BY <1>1 DEF IInv, Types
<1>3. LoopSound'
  BY <1>1, <1>2 DEF IInv, LoopSound
<1>4. IInv'
  BY <1>1, <1>2, <1>3 DEF IInv, Types, Numbered
<1>5. ASSUME JInv PROVE JInv'
  <2>1. FirstSession' /\ BatchCurrent'
    BY <1>1, <1>2, <1>5 DEF JInv, FirstSession, BatchCurrent
  <2>2. Covered'
    <3> SUFFICES ASSUME Current'
                 PROVE  /\ Wanted(song, engine, runtime)
                        /\ \A t \in Tracks : ~(Pending(runtime, t) /\ t \notin ScheduledOn(runtime))
      BY <1>1 DEF Covered
    <3>1. Current
      BY <1>1, <1>2 DEF Current
    <3>2. \A t : ~InUnits(runtime, t)
      BY <1>1 DEF InUnits
    <3> QED
      BY <1>5, <3>1, <3>2 DEF JInv, Covered
  <2> QED
    BY <1>1, <1>5, <2>1, <2>2 DEF JInv
<1> QED
  BY <1>4, <1>5 DEF Keeps

(* An engine in which nothing has changed that the runtime could tell. *)
Still(e) ==
    /\ e \in SessionEngines /\ e.batch[Caller] = None
    /\ e.running = engine.running /\ e.phase = engine.phase /\ e.beat = engine.beat
    /\ e.stop = engine.stop /\ e.pending = engine.pending /\ e.active = engine.active

LEMMA FirstOf ==
    ASSUME NEW unit, DOMAIN unit \subseteq Tracks, DOMAIN unit # {}
    PROVE  SetToSeq(DOMAIN unit)[1] \in DOMAIN unit
<1> DEFINE S == DOMAIN unit
<1>1. IsFiniteSet(S)
  BY EngineAssumption, FS_Subset
<1> HIDE DEF S
<1>2. SetToSeq(S) \in [1 .. Cardinality(S) -> S] /\ Cardinality(S) \in Nat
      /\ \A x \in S : \E i \in 1 .. Cardinality(S) : SetToSeq(S)[i] = x
  BY <1>1, SetToSeqIs
<1>3. PICK x : x \in S
  BY DEF S
<1>4. 1 \in 1 .. Cardinality(S)
  BY <1>2, <1>3
<1> QED
  BY <1>2, <1>4 DEF S

LEMMA FailKeeps ==
    ASSUME IInv, NEW unit, Busy(unit), UNCHANGED <<song, session, made>>,
           Still(engine'), FailUnit(runtime, unit)
    PROVE  Keeps
<1> DEFINE first == SetToSeq(DOMAIN unit)[1]
           group == unit[first].group
           open == IF group # None THEN Members(runtime, group)
                   ELSE {t \in {first} : runtime.pending[t] # None /\ runtime.pending[t].id = unit[t].id}
<1>1. runtime' = Withdrawn(runtime, open) /\ (NextUnit \/ LoopFails)
  BY DEF FailUnit
<1>2. UnitSound(unit, runtime, made.requests) /\ DOMAIN unit \subseteq Tracks /\ DOMAIN unit # {}
  BY BusyIs
<1>3. first \in DOMAIN unit
  BY <1>2, FirstOf
<1> HIDE DEF first
<1>4. open \subseteq DOMAIN unit \ ScheduledOn(runtime)
  <2>1. CASE group # None
    BY <1>2, <1>3, <2>1, UnitMembers
  <2>2. CASE group = None
    <3>1. first \in ScheduledOn(runtime) => runtime.pending[first].id # unit[first].id
      BY <1>2, <1>3, UnitIds, Zenon
    <3> QED
      BY <1>3, <2>2, <3>1
  <2> QED
    BY <2>1, <2>2
<1>5. Sound(runtime) /\ made.requests \in Nat
  BY RuntimeIs
<1>6. ASSUME Matches(runtime, unit) PROVE DOMAIN unit \subseteq open
  <2>1. \A t \in DOMAIN unit : /\ t \in Tracks /\ Pending(runtime, t)
                               /\ runtime.pending[t].id = unit[t].id
                               /\ runtime.pending[t].group = unit[t].group
    BY <1>2, <1>5, <1>6, MatchIs
  <2>2. CASE group # None
    <3>1. \A t \in DOMAIN unit : unit[t].group = group
      BY <1>2, <1>3, UnitGroup, Zenon
    <3> QED
      BY <2>1, <2>2, <3>1 DEF Members, Pending
  <2>3. CASE group = None
    <3>1. DOMAIN unit = {first}
      BY <1>2, <1>3, <2>3, UnitTells, Zenon
    <3> QED
      BY <2>1, <2>3, <3>1 DEF Pending
  <2> QED
    BY <2>2, <2>3
<1> HIDE DEF open
<1>7. /\ Sound(runtime') /\ runtime'.ids = runtime.ids /\ runtime'.phase = runtime.phase
      /\ runtime'.beat = runtime.beat /\ runtime'.stop = runtime.stop /\ runtime'.clip = runtime.clip
      /\ \A t \in Tracks : runtime'.pending[t] = IF t \in open THEN None ELSE runtime.pending[t]
      /\ \A g \in Ids : Members(runtime', g) \subseteq Members(runtime, g)
  BY <1>1, <1>5, WithdrawnIs
<1>8. ASSUME Running(runtime')
      PROVE  /\ Running(runtime) /\ Agreed(engine', runtime')
             /\ \A t \in ScheduledOn(runtime') : /\ t \in ScheduledOn(runtime)
                                                 /\ runtime'.pending[t] = runtime.pending[t]
                                                 /\ engine'.pending[t] = engine.pending[t]
  <2>1. Running(runtime) /\ Agreed(engine, runtime)
    BY <1>7, <1>8, RuntimeIs DEF Running
  <2>2. StopsAgree(engine', runtime')
    BY <1>7, <2>1 DEF Agreed, Weakly, StopsAgree, Still
  <2>3. \A t \in Tracks : \/ engine'.pending[t] = engine.pending[t] /\ runtime'.pending[t] = runtime.pending[t]
                          \/ engine'.pending[t] = None /\ runtime'.pending[t] = None
    <3> SUFFICES ASSUME NEW t \in Tracks, t \in open PROVE engine'.pending[t] = None
      BY <1>7 DEF Still
    <3>1. t \notin ScheduledOn(runtime)
      BY <1>4
    <3> QED
      BY <2>1, <3>1 DEF Agreed, Still
  <2> QED
    BY <1>7, <2>1, <2>2, <2>3, AgreedStays DEF Still
<1>9. ASSUME JInv, Running(runtime') PROVE Audible(engine', runtime')
  BY <1>7, <1>8, <1>9 DEF JInv, Audible, Still
<1>10. ASSUME JInv, Running(runtime'), ~sync.dirty PROVE Wanted(song, engine', runtime')
  <2>1. Current
    BY <1>8, <1>10 DEF Current, Busy
  <2>2. Wanted(song, engine, runtime)
    BY <1>10, <2>1 DEF JInv, Covered
  <2> QED
    BY <1>8, <1>10, <2>2 DEF Wanted
<1>11. ASSUME Matches(runtime, unit), NEW t \in DOMAIN unit PROVE ~Pending(runtime', t)
  BY <1>2, <1>6, <1>7, <1>11 DEF Pending
<1>12. \A t \in Tracks : t \notin DOMAIN unit => runtime'.pending[t] = runtime.pending[t]
  BY <1>4, <1>7
<1>13. \A t \in Tracks : Pending(runtime', t) => runtime'.pending[t] = runtime.pending[t]
  BY <1>7 DEF Pending
<1>14. engine' \in SessionEngines /\ engine'.batch[Caller] = None
  BY DEF Still
<1> QED
  BY <1>1, <1>7, <1>8, <1>9, <1>10, <1>11, <1>12, <1>13, <1>14, UnitStepKeeps

LEMMA RefusalKeeps ==
    ASSUME IInv, NEW unit, Busy(unit), UNCHANGED <<song, session, made>>,
           NEW e, Still(e), Refusal(e, unit)
    PROVE  Keeps
<1>1. engine' = e /\ Still(engine')
  <2>1. engine' = e
    BY DEF Refusal
  <2> QED
    BY <2>1 DEF Still
<1>2. CASE Matches(runtime, unit)
  <2>1. FailUnit(runtime, unit)
    BY <1>2 DEF Refusal
  <2> QED
    BY <1>1, <2>1, FailKeeps
<1>3. CASE ~Matches(runtime, unit)
  <2>1. runtime' = runtime /\ NextUnit
    BY <1>3 DEF Refusal
  <2>2. Running(runtime) => Agreed(engine', runtime')
    BY <1>1, <2>1, RuntimeIs DEF Agreed, Weakly, StopsAgree, SameTransition, Still
  <2>3. JInv /\ Running(runtime') => Audible(engine', runtime')
    BY <1>1, <2>1 DEF JInv, Audible, Still
  <2>4. JInv /\ Running(runtime') /\ ~sync.dirty => Wanted(song, engine', runtime')
    BY <1>1, <2>1 DEF JInv, Covered, Current, Wanted, Still, Busy
  <2>5. engine' \in SessionEngines /\ engine'.batch[Caller] = None
    BY <1>1 DEF Still
  <2> QED
    BY <1>3, <2>1, <2>2, <2>3, <2>4, <2>5, RuntimeIs, UnitStepKeeps
<1> QED
  BY <1>2, <1>3

(* The engine has taken the unit. *)
Placed(e, unit) ==
    /\ e \in SessionEngines /\ e.batch[Caller] = None
    /\ SameTransport(engine, e) /\ SameHeard(engine, e)
    /\ \A t \in Tracks : t \notin DOMAIN unit => e.pending[t] = engine.pending[t]
    /\ \A t \in DOMAIN unit :
          /\ engine.pending[t] = None /\ e.pending[t] # None
          /\ e.pending[t].request.id = unit[t].id
          /\ e.pending[t].request.kind = unit[t].kind
          /\ e.pending[t].request.target = unit[t].target

(* What it took is what the song holds. *)
Fitting(e, unit) ==
    \A t \in DOMAIN unit : e.pending[t].request.material = MaterialOf(song, t, unit[t].clip)

(* The runtime is told. *)
LEMMA MarkedKeeps ==
    ASSUME IInv, NEW unit, Busy(unit), UNCHANGED <<song, session, made>>, NextUnit,
           Placed(engine', unit), JInv /\ Running(runtime) /\ ~sync.dirty => Fitting(engine', unit),
           Matches(runtime, unit), runtime' = Marked(runtime, DOMAIN unit)
    PROVE  Keeps
<1>1. /\ UnitSound(unit, runtime, made.requests) /\ DOMAIN unit \in SUBSET Tracks /\ DOMAIN unit # {}
      /\ Sound(runtime)
  BY BusyIs, RuntimeIs
<1>2. \A t \in DOMAIN unit :
         /\ t \in Tracks /\ Pending(runtime, t) /\ runtime.pending[t].status = "pending"
         /\ runtime.pending[t].id = unit[t].id /\ runtime.pending[t].kind = unit[t].kind
         /\ runtime.pending[t].clip = unit[t].clip /\ runtime.pending[t].target = unit[t].target
         /\ runtime.pending[t].group = unit[t].group
  BY <1>1, MatchIs
<1>3. Whole(runtime, DOMAIN unit)
  <2> SUFFICES ASSUME NEW t \in DOMAIN unit, NEW u \in Tracks, Pending(runtime, u),
                      runtime.pending[t].group # None,
                      runtime.pending[u].group = runtime.pending[t].group
               PROVE  u \in DOMAIN unit
    BY DEF Whole
  <2>1. unit[t].group # None /\ u \in Members(runtime, unit[t].group)
    BY <1>2 DEF Members, Pending
  <2> QED
    BY <1>1, <2>1, UnitMembers
<1>4. /\ Sound(runtime') /\ SameElse(runtime, runtime')
      /\ \A t \in Tracks : t \notin DOMAIN unit => runtime'.pending[t] = runtime.pending[t]
      /\ \A t \in Tracks : Pending(runtime', t) <=> Pending(runtime, t)
      /\ \A t \in DOMAIN unit : runtime'.pending[t].status = "scheduled"
      /\ \A t \in Tracks : Pending(runtime', t) =>
            /\ runtime'.pending[t].id = runtime.pending[t].id
            /\ runtime'.pending[t].kind = runtime.pending[t].kind
            /\ runtime'.pending[t].clip = runtime.pending[t].clip
            /\ runtime'.pending[t].target = runtime.pending[t].target
      /\ \A g \in Ids : Members(runtime', g) \subseteq Members(runtime, g)
      /\ runtime'.ids = runtime.ids /\ runtime'.phase = runtime.phase
      /\ runtime'.beat = runtime.beat /\ runtime'.stop = runtime.stop /\ runtime'.clip = runtime.clip
  <2>1. "scheduled" \in {"pending", "scheduled"} /\ \A t \in DOMAIN unit : Pending(runtime, t)
    BY <1>2
  <2>2. runtime' = WithStatus(runtime, DOMAIN unit, "scheduled")
    BY DEF Marked
  <2> QED
    BY <1>1, <1>3, <2>1, <2>2, WithStatusIs
<1>5. \A t \in Tracks : t \in ScheduledOn(runtime') <=> t \in DOMAIN unit \/ t \in ScheduledOn(runtime)
  <2> SUFFICES ASSUME NEW t \in Tracks
               PROVE  t \in ScheduledOn(runtime') <=> t \in DOMAIN unit \/ t \in ScheduledOn(runtime)
    OBVIOUS
  <2>1. CASE t \in DOMAIN unit
    <3>1. Pending(runtime', t) /\ runtime'.pending[t].status = "scheduled"
      BY <1>2, <1>4, <2>1
    <3> QED
      BY <2>1, <3>1 DEF ScheduledOn, Pending
  <2>2. CASE t \notin DOMAIN unit
    BY <1>4, <2>2 DEF ScheduledOn
  <2> QED
    BY <2>1, <2>2
<1>6. \A t \in DOMAIN unit : t \notin ScheduledOn(runtime)
  BY <1>2 DEF ScheduledOn
<1>7. Running(runtime) /\ Agreed(engine, runtime)
  <2>1. PICK t \in DOMAIN unit : TRUE
    BY <1>1
  <2>2. t \in Tracks /\ Pending(runtime, t)
    BY <1>2
  <2> QED
    BY <1>1, <2>2, EntryIs, RuntimeIs
<1>8. /\ engine' \in SessionEngines /\ engine'.batch[Caller] = None
      /\ engine'.running = engine.running /\ engine'.phase = engine.phase
      /\ engine'.beat = engine.beat /\ engine'.stop = engine.stop
      /\ SameHeard(engine, engine')
      /\ \A t \in Tracks : t \notin DOMAIN unit => engine'.pending[t] = engine.pending[t]
      /\ \A t \in DOMAIN unit :
            /\ engine.pending[t] = None /\ engine'.pending[t] # None
            /\ engine'.pending[t].request.id = unit[t].id
            /\ engine'.pending[t].request.kind = unit[t].kind
            /\ engine'.pending[t].request.target = unit[t].target
  BY DEF Placed, SameTransport
<1>9. Agreed(engine', runtime')
  <2>1. StopsAgree(engine', runtime')
    BY <1>4, <1>7, <1>8 DEF Agreed, Weakly, StopsAgree
  <2>2. ASSUME NEW t \in ScheduledOn(runtime')
        PROVE  engine'.pending[t] # None /\ SameTransition(engine', runtime', t)
    <3>1. t \in Tracks
      BY DEF ScheduledOn
    <3>2. CASE t \in DOMAIN unit
      <4>1. Pending(runtime', t)
        BY <1>2, <1>4, <3>1, <3>2
      <4>2. /\ runtime'.pending[t].id = unit[t].id /\ runtime'.pending[t].kind = unit[t].kind
            /\ runtime'.pending[t].target = unit[t].target
        BY <1>2, <1>4, <3>1, <3>2, <4>1
      <4> QED
        BY <1>8, <3>2, <4>2 DEF SameTransition
    <3>3. CASE t \notin DOMAIN unit
      <4>1. t \in ScheduledOn(runtime)
        BY <1>5, <2>2, <3>1, <3>3
      <4>2. engine.pending[t] # None /\ SameTransition(engine, runtime, t)
        BY <1>7, <4>1 DEF Agreed, Weakly
      <4> QED
        BY <1>4, <1>8, <3>1, <3>3, <4>2 DEF SameTransition
    <3> QED
      BY <3>2, <3>3
  <2>3. ASSUME NEW t \in Tracks, engine'.pending[t] # None PROVE t \in ScheduledOn(runtime')
    BY <1>5, <1>7, <1>8, <2>3 DEF Agreed
  <2>4. engine'.running /\ engine'.phase = "running" /\ runtime'.beat <= engine'.beat
    BY <1>4, <1>7, <1>8 DEF Agreed, Weakly
  <2> QED
    BY <2>1, <2>2, <2>3, <2>4 DEF Agreed, Weakly
<1>10. ASSUME JInv PROVE Audible(engine', runtime')
  <2>1. Audible(engine, runtime)
    BY <1>7, <1>10 DEF JInv
  <2> QED
    BY <1>4, <1>8, <2>1 DEF Audible, SameHeard
<1>11. ASSUME JInv, ~sync.dirty PROVE Wanted(song, engine', runtime')
  <2>1. Current /\ Fitting(engine', unit)
    BY <1>7, <1>11 DEF Current, Busy
  <2>2. Wanted(song, engine, runtime)
    BY <1>11, <2>1 DEF JInv, Covered
  <2> SUFFICES ASSUME NEW t \in ScheduledOn(runtime')
               PROVE  engine'.pending[t].request.material = MaterialOf(song, t, runtime'.pending[t].clip)
    BY DEF Wanted
  <2>3. t \in Tracks
    BY DEF ScheduledOn
  <2>4. CASE t \in DOMAIN unit
    <3>1. Pending(runtime', t)
      BY <1>2, <1>4, <2>3, <2>4
    <3>2. runtime'.pending[t].clip = unit[t].clip
      BY <1>2, <1>4, <2>3, <2>4, <3>1
    <3> QED
      BY <2>1, <2>4, <3>2 DEF Fitting
  <2>5. CASE t \notin DOMAIN unit
    <3>1. t \in ScheduledOn(runtime)
      BY <1>5, <2>3, <2>5
    <3> QED
      BY <1>4, <1>8, <2>2, <2>3, <2>5, <3>1 DEF Wanted
  <2> QED
    BY <2>4, <2>5
<1>12. \A t \in Tracks : Pending(runtime', t) /\ t \notin ScheduledOn(runtime')
         => runtime'.pending[t] = runtime.pending[t]
  BY <1>4, <1>5
<1>13. \A t \in DOMAIN unit : Pending(runtime', t) => t \in ScheduledOn(runtime')
  BY <1>2, <1>5
<1> QED
  BY <1>4, <1>7, <1>8, <1>9, <1>10, <1>11, <1>12, <1>13, UnitStepKeeps

(* The engine is told that nobody wants it any more. *)
LEMMA UnwantedKeeps ==
    ASSUME IInv, NEW unit, Busy(unit), UNCHANGED <<runtime, song, session, made>>,
           NextUnit \/ LoopFails, NextUnit => ~Matches(runtime, unit),
           NEW e, Placed(e, unit), engine' = CancelUnit(e, unit)
    PROVE  Keeps
<1>1. /\ UnitSound(unit, runtime, made.requests) /\ DOMAIN unit \subseteq Tracks
      /\ Sound(runtime) /\ e \in SessionEngines
  BY BusyIs, RuntimeIs DEF Placed
<1>2. /\ engine' \in SessionEngines /\ SameTransport(e, engine') /\ engine'.batch = e.batch
      /\ SameHeard(e, engine')
      /\ \A t \in Tracks :
            engine'.pending[t] = IF e.pending[t] # None /\ e.pending[t].request.id \in IdsOf(unit)
                                 THEN None ELSE e.pending[t]
  BY <1>1, CancelUnitIs
<1>3. /\ engine'.batch[Caller] = None
      /\ engine'.running = engine.running /\ engine'.phase = engine.phase
      /\ engine'.beat = engine.beat /\ engine'.stop = engine.stop
  BY <1>2 DEF Placed, SameTransport
<1>4. \A id : id \in IdsOf(unit) <=> \E t \in DOMAIN unit : id = unit[t].id
  BY DEF IdsOf
<1>5. \A t \in DOMAIN unit : engine'.pending[t] = None /\ engine.pending[t] = None
  BY <1>1, <1>2, <1>4 DEF Placed
<1>6. ASSUME Running(runtime), NEW t \in Tracks PROVE engine'.pending[t] = engine.pending[t]
  <2>1. CASE t \in DOMAIN unit
    BY <1>5, <2>1
  <2>2. CASE t \notin DOMAIN unit
    <3>1. e.pending[t] = engine.pending[t]
      BY <2>2 DEF Placed
    <3>2. ASSUME engine.pending[t] # None, engine.pending[t].request.id \in IdsOf(unit)
          PROVE  FALSE
      <4>1. PICK u \in DOMAIN unit : engine.pending[t].request.id = unit[u].id
        BY <1>4, <3>2
      <4>2. unit[u].id[2] = u
        BY <1>1, UnitTells
      <4>3. t \in ScheduledOn(runtime) /\ engine.pending[t].request.id = runtime.pending[t].id
        BY <1>6, <3>2, RuntimeIs DEF Agreed, Weakly, SameTransition
      <4>4. runtime.pending[t].id[2] = t
        BY <1>1, <4>3, ScheduledIs, EntryIs DEF EntrySound
      <4> QED
        BY <2>2, <4>1, <4>2, <4>3, <4>4
    <3> QED
      BY <1>2, <3>1, <3>2
  <2> QED
    BY <2>1, <2>2
<1>7. ASSUME Running(runtime) PROVE Agreed(engine', runtime')
  <2>1. Agreed(engine, runtime)
    BY <1>7, RuntimeIs
  <2>2. StopsAgree(engine', runtime')
    BY <1>3, <2>1 DEF Agreed, Weakly, StopsAgree
  <2>3. \A t \in Tracks : engine'.pending[t] = engine.pending[t] /\ runtime'.pending[t] = runtime.pending[t]
    BY <1>6, <1>7
  <2> QED
    BY <1>3, <2>1, <2>2, <2>3, AgreedStays
<1>8. ASSUME JInv, Running(runtime) PROVE Audible(engine', runtime')
  <2>1. SameHeard(engine, e)
    BY DEF Placed
  <2>2. Audible(engine, runtime)
    BY <1>8 DEF JInv
  <2> QED
    BY <1>2, <2>1, <2>2 DEF Audible, SameHeard
<1>9. ASSUME JInv, Running(runtime), ~sync.dirty PROVE Wanted(song, engine', runtime')
  <2>1. Wanted(song, engine, runtime)
    BY <1>9 DEF JInv, Covered, Current, Busy
  <2>2. \A t \in ScheduledOn(runtime) : engine'.pending[t] = engine.pending[t]
    BY <1>6, <1>9 DEF ScheduledOn
  <2> QED
    BY <2>1, <2>2 DEF Wanted
<1> QED
  BY <1>1, <1>2, <1>3, <1>7, <1>8, <1>9, UnitStepKeeps

LEMMA AcknowledgeKeeps ==
    ASSUME IInv, NEW unit, Busy(unit), UNCHANGED <<song, session, made>>,
           NEW e, Placed(e, unit), JInv /\ Running(runtime) /\ ~sync.dirty => Fitting(e, unit),
           Acknowledge(e, unit)
    PROVE  Keeps
<1>1. CASE /\ Matches(runtime, unit) /\ engine' = e /\ runtime' = Marked(runtime, DOMAIN unit)
           /\ NextUnit
  <2>1. Placed(engine', unit) /\ (JInv /\ Running(runtime) /\ ~sync.dirty => Fitting(engine', unit))
    BY <1>1 DEF Placed, Fitting
  <2> QED
    BY <1>1, <2>1, MarkedKeeps
<1>2. CASE /\ engine' = CancelUnit(e, unit) /\ runtime' = runtime
           /\ LoopFails
  <2>1. ~NextUnit
    <3>1. sync'.pc = "failed"
      BY <1>2 DEF LoopFails, IInv, Types
    <3>2. NextUnit => sync'.pc = "units"
      BY DEF NextUnit, IInv, Types
    <3> QED
      BY <3>1, <3>2
  <2> QED
    BY <1>2, <2>1, UnwantedKeeps
<1>3. CASE ~Matches(runtime, unit) /\ engine' = CancelUnit(e, unit) /\ runtime' = runtime /\ NextUnit
  BY <1>3, UnwantedKeeps
<1> QED
  BY <1>1, <1>2, <1>3 DEF Acknowledge

-----------------------------------------------------------------------------
(* THE BATCH OF A UNIT                                                     *)

(* One request for each track of the unit. *)
Asks(requests, unit) ==
    /\ \A i \in DOMAIN requests :
          LET q == requests[i]
              x == unit[q.track]
          IN  /\ q.track \in DOMAIN unit
              /\ q.id = x.id /\ q.kind = x.kind /\ q.target = x.target
              /\ \A j \in DOMAIN requests : i # j => requests[j].track # q.track
    /\ \A t \in DOMAIN unit : \E i \in DOMAIN requests : requests[i].track = t

(* What it asks for is what the song holds. *)
AsksCurrent(requests, unit) ==
    \A i \in DOMAIN requests :
        requests[i].material = MaterialOf(song, requests[i].track, unit[requests[i].track].clip)

LEMMA RequestsOfIs ==
    ASSUME song \in Songs, NEW unit, NEW r, NEW n, UnitSound(unit, r, n)
    PROVE  /\ RequestsOf(unit) \in Seq(SessionRequests)
           /\ Asks(RequestsOf(unit), unit)
           /\ AsksCurrent(RequestsOf(unit), unit)
<1> DEFINE S == DOMAIN unit
           tracks == SetToSeq(S)
           requests == RequestsOf(unit)
           Of(t) == [id |-> unit[t].id, track |-> t, kind |-> unit[t].kind,
                     target |-> unit[t].target, material |-> MaterialOf(song, t, unit[t].clip)]
<1>1. S \subseteq Tracks /\ \A t \in S : t \in Tracks /\ unit[t] \in Transitions(Ids)
  BY UnitTells DEF UnitSound
<1>2. IsFiniteSet(S)
  BY <1>1, EngineAssumption, FS_Subset
<1>3. requests = [i \in DOMAIN tracks |-> Of(tracks[i])]
  BY DEF RequestsOf
<1>4. \A t \in S : MaterialOf(song, t, unit[t].clip) \in Materials \cup {None}
  <2> SUFFICES ASSUME NEW t \in S
               PROVE  MaterialOf(song, t, unit[t].clip) \in Materials \cup {None}
    OBVIOUS
  <2>1. t \in Tracks /\ unit[t].clip \in Clips \cup {None}
    BY <1>1 DEF Transitions
  <2>2. song[t] \in [Clips -> Materials \cup {None}]
    BY <2>1 DEF Songs
  <2> QED
    BY <2>1, <2>2 DEF MaterialOf
<1>5. \A t \in S : Of(t) \in SessionRequests
  BY <1>1, <1>4 DEF SessionRequests, Transitions
<1>6. \A t : /\ Of(t).track = t /\ Of(t).id = unit[t].id /\ Of(t).kind = unit[t].kind
             /\ Of(t).target = unit[t].target /\ Of(t).material = MaterialOf(song, t, unit[t].clip)
  OBVIOUS
<1> HIDE DEF tracks, Of, S
<1>7. /\ tracks \in [1 .. Cardinality(S) -> S]
      /\ \A x \in S : \E i \in 1 .. Cardinality(S) : tracks[i] = x
      /\ \A i, j \in 1 .. Cardinality(S) : tracks[i] = tracks[j] => i = j
      /\ Cardinality(S) \in Nat
  BY <1>2, SetToSeqIs DEF tracks
<1> HIDE DEF requests
<1>8. /\ DOMAIN requests = 1 .. Cardinality(S)
      /\ \A i \in DOMAIN requests : tracks[i] \in S /\ requests[i] = Of(tracks[i])
  BY <1>3, <1>7
<1>9. requests \in Seq(SessionRequests)
  <2>1. requests \in [1 .. Cardinality(S) -> SessionRequests]
    BY <1>3, <1>5, <1>7, <1>8
  <2> QED
    BY <1>7, <2>1
<1>10. Asks(requests, unit)
  <2>1. ASSUME NEW i \in DOMAIN requests
        PROVE  /\ requests[i].track \in DOMAIN unit
               /\ requests[i].id = unit[requests[i].track].id
               /\ requests[i].kind = unit[requests[i].track].kind
               /\ requests[i].target = unit[requests[i].track].target
               /\ \A j \in DOMAIN requests : i # j => requests[j].track # requests[i].track
    BY <1>6, <1>7, <1>8 DEF S
  <2>2. ASSUME NEW t \in DOMAIN unit
        PROVE  \E i \in DOMAIN requests : requests[i].track = t
    BY <1>6, <1>7, <1>8 DEF S
  <2> QED
    BY <2>1, <2>2 DEF Asks
<1>11. AsksCurrent(requests, unit)
  BY <1>6, <1>8 DEF AsksCurrent
<1> QED
  BY <1>9, <1>10, <1>11 DEF requests

(* The stops that come next need no material. *)
LEMMA LeastOf ==
    ASSUME NEW A \in SUBSET Nat, A # {}
    PROVE  Min(A) \in A
<1> DEFINE R == OpToRel(<, Nat)
<1>1. IsWellFoundedOn(R, Nat)
  BY NatLessThanWellFounded
<1>2. \A x, y \in Nat : y < x => <<y, x>> \in R
  BY DEF OpToRel
<1> HIDE DEF R
<1>3. PICK x \in A : \A y \in A : ~(<<y, x>> \in R)
  BY <1>1, WFMin
<1>4. \A y \in A : x <= y
  <2>1. \A y \in A : ~(y < x)
    BY <1>2, <1>3
  <2> QED
    BY <2>1
<1> QED
  BY <1>4 DEF Min

LEMMA WithStopsIs ==
    ASSUME NEW requests \in Seq(SessionRequests), NEW held \in Seq(Voices \cup {None})
    PROVE  WithStops(requests, held) \in Seq(Voices \cup {None})
<1> DEFINE A == {i \in Len(held) + 1 .. Len(requests) : requests[i].kind = "launch"}
                  \cup {Len(requests) + 1}
           m == Awaited(requests, Len(held) + 1)
           w == WithStops(requests, held)
<1>1. Len(held) \in Nat /\ Len(requests) \in Nat
  OBVIOUS
<1>2. m \in A
  <2>1. A \in SUBSET Nat /\ A # {} /\ m = Min(A)
    BY <1>1 DEF Awaited
  <2> HIDE DEF A
  <2> QED
    BY <2>1, LeastOf
<1>3. w = [i \in 1 .. m - 1 |-> IF i <= Len(held) THEN held[i] ELSE None]
  BY DEF WithStops
<1> HIDE DEF m, w
<1>4. m - 1 \in Nat
  BY <1>1, <1>2
<1>5. \A i \in 1 .. m - 1 : i <= Len(held) => i \in DOMAIN held
  BY <1>1, <1>4
<1>6. w \in [1 .. m - 1 -> Voices \cup {None}]
  BY <1>3, <1>5
<1>7. w \in Seq(Voices \cup {None})
  BY <1>4, <1>6
<1> QED
  BY <1>7 DEF w

(* What the other side can tell of an engine that prepares: nothing. *)
Beside(e, f) ==
    /\ SameTransport(e, f) /\ f.active = e.active /\ f.pending = e.pending
    /\ \A c \in Callers : c # Caller => f.batch[c] = e.batch[c]

LEMMA PreparingIs ==
    ASSUME NEW e \in SessionEngines, NEW requests \in Seq(SessionRequests),
           NEW held, NEW now, [requests |-> requests, held |-> held, fresh |-> now] \in SessionJobs
    PROVE  LET f == Preparing(e, Caller, requests, held, now)
           IN  /\ f \in SessionEngines /\ Beside(e, f)
               /\ f.batch[Caller] # None /\ f.batch[Caller] \in SessionJobs
               /\ f.batch[Caller].requests = requests
               /\ f.batch[Caller].held = held
<1> DEFINE job == [requests |-> requests, held |-> held, fresh |-> now]
           buses == IF Len(held) < Len(requests)
                    THEN e.buses \cup {requests[Len(held) + 1].track} ELSE e.buses
           f == Preparing(e, Caller, requests, held, now)
<1>1. job \in SessionJobs /\ job.requests = requests /\ job.held = held
  OBVIOUS
<1>2. job # None
  BY <1>1, NoneIs
<1>3. buses \in SUBSET Tracks
  <2>1. ASSUME Len(held) < Len(requests) PROVE requests[Len(held) + 1] \in SessionRequests
    BY <2>1
  <2> QED
    BY <2>1 DEF SessionEngines, SessionRequests
<1>4. f = [e EXCEPT !.batch[Caller] = job, !.buses = buses]
  BY DEF Preparing, SessionEngines
<1> HIDE DEF f, job, buses
<1>5. Caller \in Callers
  BY CallerIs
<1>6. f \in SessionEngines
  BY <1>1, <1>3, <1>4, <1>5 DEF SessionEngines
<1>7. f.batch[Caller] = job
  BY <1>4, <1>5 DEF SessionEngines
<1>8. SameTransport(e, f) /\ f.active = e.active /\ f.pending = e.pending
  BY <1>4 DEF SessionEngines, SameTransport
<1>9. \A c \in Callers : c # Caller => f.batch[c] = e.batch[c]
  BY <1>4, <1>5 DEF SessionEngines
<1> QED
  BY <1>1, <1>2, <1>6, <1>7, <1>8, <1>9 DEF Beside, f

LEMMA BatchBegunIs ==
    ASSUME NEW e \in SessionEngines, NEW requests \in Seq(SessionRequests)
    PROVE  LET f == BatchBegun(e, Caller, requests)
           IN  /\ f \in SessionEngines /\ Beside(e, f)
               /\ f.batch[Caller] # None /\ f.batch[Caller] \in SessionJobs
               /\ f.batch[Caller].requests = requests
<1> DEFINE d == [e EXCEPT !.buses = @ \cup TracksOf(requests)]
           none == << >>
           kept == WithStops(requests, none)
           current == TRUE
           f == Preparing(d, Caller, requests, kept, current)
<1>1. TracksOf(requests) \subseteq Tracks
  <2>1. \A i \in DOMAIN requests : requests[i] \in SessionRequests
    OBVIOUS
  <2> QED
    BY <2>1 DEF TracksOf, SessionRequests
<1>2. /\ d \in SessionEngines /\ SameTransport(e, d) /\ d.active = e.active /\ d.pending = e.pending
      /\ d.batch = e.batch
  BY <1>1 DEF SessionEngines, SameTransport
<1>3. none \in Seq(Voices \cup {None})
  OBVIOUS
<1> HIDE DEF none
<1>4. [requests |-> requests, held |-> kept, fresh |-> current] \in SessionJobs
  <2>1. kept \in Seq(Voices \cup {None})
    BY <1>3, WithStopsIs
  <2> QED
    BY <2>1 DEF SessionJobs
<1>5. f = BatchBegun(e, Caller, requests)
  BY DEF BatchBegun, none
<1> HIDE DEF d, kept, current
<1>6. /\ f \in SessionEngines /\ Beside(d, f)
      /\ f.batch[Caller] # None /\ f.batch[Caller] \in SessionJobs
      /\ f.batch[Caller].requests = requests
  BY <1>2, <1>4, PreparingIs
<1>7. Beside(e, f)
  BY <1>2, <1>6 DEF Beside, SameTransport
<1> QED
  BY <1>5, <1>6, <1>7

LEMMA MaterialPreparedIs ==
    ASSUME NEW e \in SessionEngines, e.batch[Caller] # None, NEW v \in Voices
    PROVE  LET f == MaterialPrepared(e, Caller, v)
           IN  /\ f \in SessionEngines /\ Beside(e, f)
               /\ f.batch[Caller] # None /\ f.batch[Caller] \in SessionJobs
               /\ f.batch[Caller].requests = e.batch[Caller].requests
<1> DEFINE b == e.batch[Caller]
           d == [e EXCEPT !.voices = @ \cup {v}]
           grown == Append(b.held, v)
           asked == b.requests
           current == b.fresh
           kept == WithStops(asked, grown)
           f == Preparing(d, Caller, asked, kept, current)
<1>1. b \in SessionJobs
  BY CallerIs DEF SessionEngines
<1>2. asked \in Seq(SessionRequests) /\ b.held \in Seq(Voices \cup {None}) /\ current \in BOOLEAN
  BY <1>1 DEF SessionJobs
<1>3. grown \in Seq(Voices \cup {None})
  BY <1>2
<1>4. /\ d \in SessionEngines /\ SameTransport(e, d) /\ d.active = e.active /\ d.pending = e.pending
      /\ d.batch = e.batch
  BY DEF SessionEngines, SameTransport
<1>5. f = MaterialPrepared(e, Caller, v)
  BY DEF MaterialPrepared
<1> HIDE DEF d, b, grown, asked, current
<1>6. kept \in Seq(Voices \cup {None})
  BY <1>2, <1>3, WithStopsIs
<1> HIDE DEF kept
<1>7. /\ f \in SessionEngines /\ Beside(d, f)
      /\ f.batch[Caller] # None /\ f.batch[Caller] \in SessionJobs
      /\ f.batch[Caller].requests = asked
  <2>1. [requests |-> asked, held |-> kept, fresh |-> current] \in SessionJobs
    BY <1>2, <1>6 DEF SessionJobs
  <2> QED
    BY <1>2, <1>4, <2>1, PreparingIs
<1>8. Beside(e, f)
  BY <1>4, <1>7 DEF Beside, SameTransport
<1> QED
  BY <1>5, <1>7, <1>8 DEF b, asked

LEMMA FreshVoiceIs ==
    ASSUME NEW e \in SessionEngines, Voices # e.voices
    PROVE  FreshVoice(e) \in Voices
<1>1. e.voices \subseteq Voices
  BY DEF SessionEngines
<1>2. \E v : v \in Voices \ e.voices
  BY <1>1
<1> QED
  BY <1>2 DEF FreshVoice

LEMMA BatchDroppedIs ==
    ASSUME NEW e \in SessionEngines
    PROVE  LET f == BatchDropped(e, Caller)
           IN  /\ f \in SessionEngines /\ f.batch[Caller] = None
               /\ SameTransport(e, f) /\ f.active = e.active /\ f.pending = e.pending
<1> DEFINE f == BatchDropped(e, Caller)
           gone == HeldVoices(e.batch[Caller])
<1>1. f = [e EXCEPT !.batch[Caller] = None, !.voices = @ \ gone]
  BY DEF BatchDropped
<1> HIDE DEF f, gone
<1>2. Caller \in Callers
  BY CallerIs
<1>3. f \in SessionEngines
  BY <1>1, <1>2 DEF SessionEngines
<1>4. f.batch[Caller] = None /\ SameTransport(e, f) /\ f.active = e.active /\ f.pending = e.pending
  BY <1>1, <1>2 DEF SessionEngines, SameTransport
<1> QED
  BY <1>3, <1>4 DEF f

(* The sources of the batch take their places. *)
LEMMA CommittedIs ==
    ASSUME NEW e \in SessionEngines, NEW unit, DOMAIN unit \subseteq Tracks,
           e.batch[Caller] # None, Asks(e.batch[Caller].requests, unit), Prepared(e, Caller),
           \A t \in DOMAIN unit : e.pending[t] = None
    PROVE  LET f == Committed(e, Caller)
               requests == e.batch[Caller].requests
           IN  /\ f \in SessionEngines /\ f.batch[Caller] = None
               /\ SameTransport(e, f) /\ SameHeard(e, f)
               /\ \A t \in Tracks : t \notin DOMAIN unit => f.pending[t] = e.pending[t]
               /\ \A t \in DOMAIN unit :
                     /\ f.pending[t] # None
                     /\ \E i \in DOMAIN requests : requests[i].track = t /\ f.pending[t].request = requests[i]
<1> DEFINE b == e.batch[Caller]
           new == {i \in DOMAIN b.requests : ~Retry(e, b.requests[i])}
           At(t) == CHOOSE i \in new : b.requests[i].track = t
           placed == {b.requests[i].track : i \in new}
           buses == e.buses \cup TracksOf(b.requests)
           pending == [t \in Tracks |->
               IF t \in placed THEN Source(e, b.requests[At(t)], b.held[At(t)]) ELSE e.pending[t]]
           active == [t \in Tracks |->
               IF t \in placed /\ e.active[t] # None
               THEN [e.active[t] EXCEPT !.cutoff = b.requests[At(t)].target] ELSE e.active[t]]
           f == Committed(e, Caller)
<1>1. b \in SessionJobs /\ Caller \in Callers
  BY CallerIs DEF SessionEngines
<1>2. /\ b.requests \in Seq(SessionRequests) /\ b.held \in Seq(Voices \cup {None})
      /\ Len(b.held) = Len(b.requests)
  BY <1>1 DEF SessionJobs, Prepared
<1>3. \A i \in DOMAIN b.requests : b.requests[i] \in SessionRequests /\ b.held[i] \in Voices \cup {None}
  <2>1. \A i \in DOMAIN b.requests : i \in 1 .. Len(b.requests) /\ i \in DOMAIN b.held
    BY <1>2
  <2> QED
    BY <1>2, <2>1
<1>4. \A i \in DOMAIN b.requests : b.requests[i].track \in DOMAIN unit
  BY DEF Asks
<1>5. new = DOMAIN b.requests
  BY <1>4 DEF Retry
<1>6. placed = DOMAIN unit
  <2>1. \A t \in DOMAIN unit : \E i \in DOMAIN b.requests : b.requests[i].track = t
    BY DEF Asks
  <2> QED
    BY <1>4, <1>5, <2>1
<1>7. \A t \in DOMAIN unit : At(t) \in DOMAIN b.requests /\ b.requests[At(t)].track = t
  BY <1>5, <1>6
<1>8. TracksOf(b.requests) \subseteq Tracks
  BY <1>3 DEF TracksOf, SessionRequests
<1>9. f = [e EXCEPT !.batch[Caller] = None, !.buses = buses, !.pending = pending, !.active = active]
  BY DEF Committed, SessionEngines
<1>10. \A t \in DOMAIN unit :
          /\ Source(e, b.requests[At(t)], b.held[At(t)]) \in SessionSources
          /\ Source(e, b.requests[At(t)], b.held[At(t)]).request = b.requests[At(t)]
  <2> SUFFICES ASSUME NEW t \in DOMAIN unit
               PROVE  /\ Source(e, b.requests[At(t)], b.held[At(t)]) \in SessionSources
                      /\ Source(e, b.requests[At(t)], b.held[At(t)]).request = b.requests[At(t)]
    OBVIOUS
  <2> DEFINE q == b.requests[At(t)]
             v == b.held[At(t)]
  <2>1. q \in SessionRequests /\ v \in Voices \cup {None}
    BY <1>3, <1>7
  <2> HIDE DEF q, v
  <2>2. Source(e, q, v) \in SessionSources /\ Source(e, q, v).request = q
    BY <2>1 DEF Source, SessionSources
  <2> QED
    BY <2>2 DEF q, v
<1>11. \A t \in Tracks : t \in DOMAIN unit /\ e.active[t] # None =>
          LET a == [e.active[t] EXCEPT !.cutoff = b.requests[At(t)].target]
          IN  a \in SessionSources /\ a.request = e.active[t].request
  <2> SUFFICES ASSUME NEW t \in Tracks, t \in DOMAIN unit, e.active[t] # None
               PROVE  LET a == [e.active[t] EXCEPT !.cutoff = b.requests[At(t)].target]
                      IN  a \in SessionSources /\ a.request = e.active[t].request
    OBVIOUS
  <2> DEFINE at == b.requests[At(t)].target
  <2>1. at \in Nat
    BY <1>3, <1>7 DEF SessionRequests
  <2>2. e.active[t] \in SessionSources
    BY DEF SessionEngines
  <2> HIDE DEF at
  <2>3. LET a == [e.active[t] EXCEPT !.cutoff = at]
        IN  a \in SessionSources /\ a.request = e.active[t].request
    BY <2>1, <2>2 DEF SessionSources
  <2> QED
    BY <2>3 DEF at
<1> HIDE DEF At, new, placed, f, b
<1>12. \A t \in Tracks : pending[t] = IF t \in DOMAIN unit
                                      THEN Source(e, b.requests[At(t)], b.held[At(t)]) ELSE e.pending[t]
  BY <1>6
<1>13. pending \in [Tracks -> SessionSources \cup {None}]
  BY <1>6, <1>10 DEF SessionEngines
<1>14. active \in [Tracks -> SessionSources \cup {None}]
  BY <1>6, <1>11 DEF SessionEngines
<1>15. \A t \in Tracks : /\ active[t] = None <=> e.active[t] = None
                         /\ e.active[t] # None => active[t].request = e.active[t].request
  <2>1. \A t \in Tracks : active[t] = IF t \in DOMAIN unit /\ e.active[t] # None
               THEN [e.active[t] EXCEPT !.cutoff = b.requests[At(t)].target] ELSE e.active[t]
    BY <1>6
  <2> QED
    BY <1>11, <2>1, NoneIs
<1>16. buses \in SUBSET Tracks
  BY <1>8 DEF SessionEngines
<1> HIDE DEF pending, active, buses
<1>17. f \in SessionEngines
  BY <1>1, <1>9, <1>13, <1>14, <1>16 DEF SessionEngines
<1>18. f.batch[Caller] = None /\ SameTransport(e, f) /\ f.pending = pending /\ f.active = active
  BY <1>1, <1>9 DEF SessionEngines, SameTransport
<1>19. SameHeard(e, f)
  BY <1>15, <1>18 DEF SameHeard
<1>20. \A t \in DOMAIN unit :
          /\ f.pending[t] # None
          /\ \E i \in DOMAIN b.requests : b.requests[i].track = t /\ f.pending[t].request = b.requests[i]
  BY <1>7, <1>10, <1>12, <1>18, NoneIs
<1> QED
  BY <1>12, <1>17, <1>18, <1>19, <1>20 DEF f, b

(***************************************************************************)
(* The unit goes to the engine, and its preparation is answered.           *)
(***************************************************************************)
LEMMA BatchOfIs ==
    ASSUME NEW e, NEW unit
    PROVE  BatchOf(e, unit) <=> /\ e.batch[Caller] # None /\ Asks(e.batch[Caller].requests, unit)
                                /\ \A t \in DOMAIN unit : e.pending[t] = None
BY DEF BatchOf, Asks

LEMMA CommittedPlaced ==
    ASSUME NEW e \in SessionEngines, Beside(engine, e), NEW unit, DOMAIN unit \subseteq Tracks,
           BatchOf(e, unit), Prepared(e, Caller)
    PROVE  /\ Placed(Committed(e, Caller), unit)
           /\ AsksCurrent(e.batch[Caller].requests, unit) => Fitting(Committed(e, Caller), unit)
<1> DEFINE f == Committed(e, Caller)
           requests == e.batch[Caller].requests
<1>1. /\ e.batch[Caller] # None /\ Asks(requests, unit)
      /\ \A t \in DOMAIN unit : e.pending[t] = None
  BY BatchOfIs
<1>2. /\ f \in SessionEngines /\ f.batch[Caller] = None
      /\ SameTransport(e, f) /\ SameHeard(e, f)
      /\ \A t \in Tracks : t \notin DOMAIN unit => f.pending[t] = e.pending[t]
      /\ \A t \in DOMAIN unit :
            /\ f.pending[t] # None
            /\ \E i \in DOMAIN requests : requests[i].track = t /\ f.pending[t].request = requests[i]
  BY <1>1, CommittedIs
<1> HIDE DEF f, requests
<1>3. SameTransport(engine, f) /\ SameHeard(engine, f)
  BY <1>2 DEF Beside, SameTransport, SameHeard
<1>4. ASSUME NEW t \in DOMAIN unit
      PROVE  /\ engine.pending[t] = None /\ f.pending[t] # None
             /\ f.pending[t].request.id = unit[t].id
             /\ f.pending[t].request.kind = unit[t].kind
             /\ f.pending[t].request.target = unit[t].target
             /\ AsksCurrent(requests, unit) =>
                   f.pending[t].request.material = MaterialOf(song, t, unit[t].clip)
  <2>1. PICK i \in DOMAIN requests : requests[i].track = t /\ f.pending[t].request = requests[i]
    BY <1>2
  <2>2. requests[i].id = unit[t].id /\ requests[i].kind = unit[t].kind /\ requests[i].target = unit[t].target
    BY <1>1, <2>1 DEF Asks
  <2>3. AsksCurrent(requests, unit) => requests[i].material = MaterialOf(song, t, unit[t].clip)
    BY <2>1 DEF AsksCurrent
  <2> QED
    BY <1>1, <1>2, <2>1, <2>2, <2>3 DEF Beside
<1>5. Placed(f, unit)
  BY <1>2, <1>3, <1>4 DEF Placed, Beside
<1>6. AsksCurrent(requests, unit) => Fitting(f, unit)
  BY <1>4 DEF Fitting
<1> QED
  BY <1>5, <1>6 DEF f, requests

(* Nothing that the runtime schedules is asked for again. *)
LEMMA RetriesGone ==
    ASSUME IInv, NEW unit, Busy(unit), NEW requests, Asks(requests, unit), AllRetries(engine, requests)
    PROVE  ~Running(runtime)
<1> SUFFICES ASSUME Running(runtime) PROVE FALSE
  OBVIOUS
<1>1. UnitSound(unit, runtime, made.requests) /\ DOMAIN unit \subseteq Tracks /\ DOMAIN unit # {}
  BY BusyIs
<1>2. PICK t \in DOMAIN unit : TRUE
  BY <1>1
<1>3. PICK i \in DOMAIN requests : requests[i].track = t /\ requests[i].id = unit[t].id
  BY DEF Asks
<1>4. engine.pending[t] # None /\ engine.pending[t].request.id = unit[t].id
  BY <1>3 DEF AllRetries, Retry
<1>5. t \in ScheduledOn(runtime) /\ engine.pending[t].request.id = runtime.pending[t].id
  BY <1>1, <1>4, RuntimeIs DEF Agreed, Weakly, SameTransition
<1> QED
  BY <1>1, <1>4, <1>5, UnitIds

LEMMA RetriedKeeps ==
    ASSUME IInv, NEW unit, Busy(unit), UNCHANGED <<song, session, made>>, engine.batch[Caller] = None,
           ~Running(runtime), Acknowledge(engine, unit)
    PROVE  Keeps
<1>1. UnitSound(unit, runtime, made.requests) /\ DOMAIN unit \subseteq Tracks /\ DOMAIN unit # {}
      /\ Sound(runtime) /\ engine \in SessionEngines
  BY BusyIs, RuntimeIs
<1>2. ~Matches(runtime, unit)
  <2>1. PICK t \in DOMAIN unit : TRUE
    BY <1>1
  <2>2. ~Pending(runtime, t)
    BY <1>1, EntryIs
  <2> QED
    BY <1>1, <2>2, MatchIs
<1>3. engine' = CancelUnit(engine, unit) /\ runtime' = runtime /\ NextUnit
  BY <1>2 DEF Acknowledge
<1>4. engine' \in SessionEngines /\ engine'.batch = engine.batch
  BY <1>1, <1>3, CancelUnitIs
<1>5. ~Running(runtime')
  BY <1>3
<1> QED
  BY <1>1, <1>2, <1>3, <1>4, <1>5, UnitStepKeeps

(* The engine begins to prepare. *)
LEMMA BeginKeeps ==
    ASSUME IInv, NEW unit, Busy(unit), UNCHANGED <<runtime, song, session, made>>,
           sync' = [sync EXCEPT !.pc = "preparing"],
           engine' \in SessionEngines, Beside(engine, engine'), BatchOf(engine', unit),
           AsksCurrent(engine'.batch[Caller].requests, unit)
    PROVE  Keeps
<1>1. /\ sync' \in [pc : {"idle", "head", "units", "preparing", "failed"}, dirty : BOOLEAN, units : Seq(Units)]
      /\ sync'.units = sync.units /\ sync'.dirty = sync.dirty /\ sync'.pc = "preparing"
  BY DEF IInv, Types
<1>2. /\ sync.pc \in {"units", "preparing"} /\ sync.units # << >> /\ unit = Head(sync.units)
      /\ session \notin {"starting", "outdated"}
  BY BusyIs DEF Busy
<1>3. LoopSound'
  BY <1>1, <1>2 DEF IInv, LoopSound
<1>4. Running(runtime) => Agreed(engine', runtime')
  BY RuntimeIs DEF Agreed, Weakly, StopsAgree, SameTransition, Beside, SameTransport
<1>5. IInv'
  BY <1>1, <1>2, <1>3, <1>4 DEF IInv, Types, Numbered
<1>6. ASSUME JInv PROVE JInv'
  <2>1. RefreshNumbered(runtime', made'.refreshes) /\ FirstSession'
    BY <1>2, <1>6 DEF JInv, FirstSession
  <2>2. Running(runtime') => Audible(engine', runtime')
    BY <1>6 DEF JInv, Audible, Beside
  <2>3. BatchCurrent'
    BY <1>1, <1>2 DEF BatchCurrent, AsksCurrent
  <2>4. Covered'
    <3> SUFFICES ASSUME Current'
                 PROVE  /\ Wanted(song, engine', runtime)
                        /\ \A t \in Tracks :
                              Pending(runtime, t) /\ t \notin ScheduledOn(runtime)
                              => \E i \in DOMAIN sync.units :
                                    t \in DOMAIN sync.units[i] /\ Matches(runtime, sync.units[i])
      BY <1>1 DEF Covered, InUnits
    <3>1. Current /\ sync.pc # "idle"
      BY <1>1, <1>2 DEF Current
    <3>2. Covered
      BY <1>6 DEF JInv
    <3> QED
      BY <3>1, <3>2 DEF Covered, Wanted, InUnits, Beside
  <2> QED
    BY <1>6, <2>1, <2>2, <2>3, <2>4 DEF JInv
<1> QED
  BY <1>5, <1>6 DEF Keeps

LEMMA ScheduleUnitKeeps ==
    ASSUME IInv, ScheduleUnit
    PROVE  Keeps
<1> DEFINE unit == Head(sync.units)
           requests == RequestsOf(unit)
           begun == BatchBegun(engine, Caller, requests)
<1>1. /\ sync.pc = "units" /\ sync.units # << >> /\ UNCHANGED <<song, session, made>>
      /\ \/ engine' = engine /\ FailUnit(runtime, unit)
         \/ Refusal(engine, unit)
         \/ AllRetries(engine, requests) /\ Acknowledge(engine, unit)
         \/ /\ ~BatchRefused(engine, requests) /\ ~AllRetries(engine, requests)
            /\ \/ Prepared(begun, Caller) /\ Acknowledge(Committed(begun, Caller), unit)
               \/ /\ engine' = begun /\ runtime' = runtime
                  /\ sync' = [sync EXCEPT !.pc = "preparing"]
  BY DEF ScheduleUnit
<1> HIDE DEF unit, requests, begun
<1>2. Busy(unit)
  BY <1>1 DEF Busy, unit
<1>3. engine \in SessionEngines /\ engine.batch[Caller] = None /\ Still(engine) /\ song \in Songs
  BY <1>1, RuntimeIs DEF IInv, LoopSound, Still
<1>4. UnitSound(unit, runtime, made.requests) /\ DOMAIN unit \subseteq Tracks
  BY <1>2, BusyIs
<1>5. requests \in Seq(SessionRequests) /\ Asks(requests, unit) /\ AsksCurrent(requests, unit)
  BY <1>3, <1>4, RequestsOfIs DEF requests
<1>6. CASE engine' = engine /\ FailUnit(runtime, unit)
  <2>1. Still(engine')
    BY <1>3, <1>6 DEF Still
  <2> QED
    BY <1>1, <1>2, <1>6, <2>1, FailKeeps
<1>7. CASE Refusal(engine, unit)
  BY <1>1, <1>2, <1>3, <1>7, RefusalKeeps
<1>8. CASE AllRetries(engine, requests) /\ Acknowledge(engine, unit)
  <2>1. ~Running(runtime)
    BY <1>2, <1>5, <1>8, RetriesGone
  <2> QED
    BY <1>1, <1>2, <1>3, <1>8, <2>1, RetriedKeeps
<1>9. CASE /\ ~BatchRefused(engine, requests) /\ ~AllRetries(engine, requests)
           /\ \/ Prepared(begun, Caller) /\ Acknowledge(Committed(begun, Caller), unit)
              \/ /\ engine' = begun /\ runtime' = runtime
                 /\ sync' = [sync EXCEPT !.pc = "preparing"]
  <2>1. \A t \in DOMAIN unit : engine.pending[t] = None
    <3>1. \A i \in DOMAIN requests : ~Retry(engine, requests[i])
      BY <1>9 DEF BatchRefused, AllRetries
    <3>2. \A i \in DOMAIN requests : ~Unavailable(engine, requests[i])
      BY <1>9 DEF BatchRefused
    <3>3. \A i \in DOMAIN requests : engine.pending[requests[i].track] = None
      BY <3>1, <3>2 DEF Unavailable
    <3> QED
      BY <1>5, <3>3 DEF Asks
  <2>2. /\ begun \in SessionEngines /\ Beside(engine, begun)
        /\ begun.batch[Caller] # None /\ begun.batch[Caller].requests = requests
    BY <1>3, <1>5, BatchBegunIs DEF begun
  <2>3. BatchOf(begun, unit) /\ AsksCurrent(begun.batch[Caller].requests, unit)
    BY <1>5, <2>1, <2>2, BatchOfIs DEF Beside
  <2>4. CASE Prepared(begun, Caller) /\ Acknowledge(Committed(begun, Caller), unit)
    <3>1. Placed(Committed(begun, Caller), unit) /\ Fitting(Committed(begun, Caller), unit)
      BY <1>4, <2>2, <2>3, <2>4, CommittedPlaced
    <3> QED
      BY <1>1, <1>2, <2>4, <3>1, AcknowledgeKeeps
  <2>5. CASE engine' = begun /\ runtime' = runtime /\ sync' = [sync EXCEPT !.pc = "preparing"]
    <3>1. /\ engine' \in SessionEngines /\ Beside(engine, engine') /\ BatchOf(engine', unit)
          /\ AsksCurrent(engine'.batch[Caller].requests, unit)
      BY <2>2, <2>3, <2>5 DEF Beside, BatchOf
    <3> QED
      BY <1>1, <1>2, <2>5, <3>1, BeginKeeps
  <2> QED
    BY <1>9, <2>4, <2>5
<1> QED
  BY <1>1, <1>6, <1>7, <1>8, <1>9

LEMMA DroppedStill ==
    ASSUME NEW e \in SessionEngines, Beside(engine, e)
    PROVE  Still(BatchDropped(e, Caller))
BY BatchDroppedIs DEF Still, Beside, SameTransport

LEMMA PrepareResolvesKeeps ==
    ASSUME IInv, PrepareResolves
    PROVE  Keeps
<1> DEFINE unit == Head(sync.units)
           e == MaterialPrepared(engine, Caller, FreshVoice(engine))
<1>1. /\ sync.pc = "preparing" /\ Voices # engine.voices /\ UNCHANGED <<song, session, made>>
      /\ \/ ~Prepared(e, Caller) /\ engine' = e /\ UNCHANGED <<runtime, sync>>
         \/ Prepared(e, Caller) /\ Acknowledge(Committed(e, Caller), unit)
         \/ Refusal(BatchDropped(e, Caller), unit)
  BY DEF PrepareResolves
<1> HIDE DEF unit, e
<1>2. Busy(unit) /\ BatchOf(engine, unit) /\ engine \in SessionEngines
  BY <1>1, RuntimeIs DEF IInv, LoopSound, Busy, unit
<1>3. UnitSound(unit, runtime, made.requests) /\ DOMAIN unit \subseteq Tracks
  BY <1>2, BusyIs
<1>4. /\ engine.batch[Caller] # None
      /\ e \in SessionEngines /\ Beside(engine, e)
      /\ e.batch[Caller] # None /\ e.batch[Caller].requests = engine.batch[Caller].requests
  BY <1>1, <1>2, BatchOfIs, FreshVoiceIs, MaterialPreparedIs DEF e
<1>5. BatchOf(e, unit)
  BY <1>2, <1>4, BatchOfIs DEF Beside
<1>6. CASE engine' = e /\ UNCHANGED <<runtime, sync>>
  <2>1. SameRequests(engine, engine')
    BY <1>4, <1>6 DEF SameRequests, Beside
  <2>2. engine'.pending = engine.pending /\ engine'.active = engine.active
        /\ engine'.stop = engine.stop /\ engine'.running = engine.running
        /\ engine'.phase = engine.phase /\ engine'.beat = engine.beat
    BY <1>4, <1>6 DEF Beside, SameTransport
  <2>3. Running(runtime) => Agreed(engine', runtime')
    BY <1>6, <2>2, RuntimeIs DEF Agreed, Weakly, StopsAgree, SameTransition
  <2>4. session' = "starting" => Silent(engine')
    BY <1>1, <2>2 DEF IInv, Silent
  <2>5. IInv'
    BY <1>1, <1>4, <1>6, <2>1, <2>2, <2>3, <2>4, RuntimeIs, LoopKeeps
  <2>6. JInv => JInv'
    <3>1. JInv /\ Running(runtime) => Audible(engine', runtime')
      BY <1>6, <2>2 DEF JInv, Audible
    <3> QED
      BY <1>1, <1>6, <2>1, <2>2, <3>1, RuntimeIs, CoverKeeps
  <2> QED
    BY <2>5, <2>6 DEF Keeps
<1>7. CASE Prepared(e, Caller) /\ Acknowledge(Committed(e, Caller), unit)
  <2>1. /\ Placed(Committed(e, Caller), unit)
        /\ AsksCurrent(e.batch[Caller].requests, unit) => Fitting(Committed(e, Caller), unit)
    BY <1>3, <1>4, <1>5, <1>7, CommittedPlaced
  <2>2. JInv /\ Running(runtime) /\ ~sync.dirty => AsksCurrent(e.batch[Caller].requests, unit)
    BY <1>1, <1>4, RuntimeIs DEF JInv, BatchCurrent, AsksCurrent, unit
  <2> QED
    BY <1>1, <1>2, <1>7, <2>1, <2>2, AcknowledgeKeeps
<1>8. CASE Refusal(BatchDropped(e, Caller), unit)
  <2>1. Still(BatchDropped(e, Caller))
    BY <1>4, DroppedStill
  <2> QED
    BY <1>1, <1>2, <1>8, <2>1, RefusalKeeps
<1> QED
  BY <1>1, <1>6, <1>7, <1>8

LEMMA PrepareRejectsKeeps ==
    ASSUME IInv, PrepareRejects
    PROVE  Keeps
<1> DEFINE unit == Head(sync.units)
<1>1. /\ sync.pc = "preparing" /\ UNCHANGED <<song, session, made>>
      /\ Refusal(BatchDropped(engine, Caller), unit)
  BY DEF PrepareRejects
<1> HIDE DEF unit
<1>2. Busy(unit) /\ engine \in SessionEngines
  BY <1>1, RuntimeIs DEF IInv, LoopSound, Busy, unit
<1>3. Still(BatchDropped(engine, Caller))
  BY <1>2, DroppedStill DEF Beside, SameTransport
<1> QED
  BY <1>1, <1>2, <1>3, RefusalKeeps

-----------------------------------------------------------------------------
(* THE THEOREMS                                                            *)

LEMMA InitInv == Init => IInv /\ JInv
<1> SUFFICES ASSUME Init PROVE IInv /\ JInv
  OBVIOUS
<1> DEFINE none == << >>
<1>1. /\ engine = NewEngine /\ runtime = NewPerformance /\ song \in Loaded /\ session = "none"
      /\ sync = [pc |-> "idle", dirty |-> FALSE, units |-> none]
      /\ made = [requests |-> 0, edits |-> 0, sessions |-> 0, refreshes |-> 0]
  BY DEF Init
<1>2. none \in Seq(Units) /\ DOMAIN none = {}
  OBVIOUS
<1> HIDE DEF none
<1>3. /\ sync \in [pc : {"idle", "head", "units", "preparing", "failed"}, dirty : BOOLEAN, units : Seq(Units)]
      /\ sync.pc = "idle" /\ DOMAIN sync.units = {}
  BY <1>1, <1>2
<1>4. engine \in SessionEngines /\ \A c \in Callers : engine.batch[c] = None
  BY <1>1 DEF NewEngine, SessionEngines
<1>5. Sound(runtime) /\ ~Running(runtime) /\ runtime.ids = {}
  BY <1>1, NewIs DEF NewPerformance
<1>6. song \in Songs /\ Caller \in Callers
  BY <1>1, PerformanceAssumption, CallerIs
<1>7. IInv
  <2>1. Types
    BY <1>1, <1>3, <1>4, <1>6 DEF Types
  <2>2. LoopSound
    BY <1>1, <1>3, <1>4, <1>6 DEF LoopSound
  <2> QED
    BY <1>1, <1>5, <2>1, <2>2 DEF IInv, Numbered
<1>8. JInv
  BY <1>1, <1>3, <1>5 DEF JInv, RefreshNumbered, FirstSession, Covered, Current, BatchCurrent
<1> QED
  BY <1>7, <1>8

(* The first session is the only one, and ids are left at the end.         *)
IdsLeft == Cardinality(runtime.ids) < IdCapacity

Keeping == IInv' /\ (MaxSessions <= 1 /\ JInv /\ IdsLeft' => JInv')

LEMMA KeepsIs == Keeps => Keeping
BY DEF Keeps, Keeping, IdsLeft

LEMMA NextKeeps ==
    ASSUME IInv, Next
    PROVE  Keeping
<1>1. ASSUME NEW q \in Quantizations,
             \/ \E t \in Tracks : StopTrack(t, q) \/ \E c \in Clips : LaunchClip(t, c, q)
             \/ \E c \in Clips : LaunchScene(c, q)
             \/ StopTransport(q)
      PROVE  Keeping
  BY <1>1, StopTrackKeeps, LaunchClipKeeps, LaunchSceneKeeps, StopTransportKeeps, KeepsIs
<1>2. ASSUME NEW t \in Tracks, CancelUnitOf(t) \/ Boundary(t) PROVE Keeping
  BY <1>2, CancelUnitOfKeeps, BoundaryKeeps, KeepsIs
<1>3. CASE CancelTransportStop \/ SyncClock
  BY <1>3, CancelTransportStopKeeps, SyncClockKeeps, KeepsIs
<1>4. CASE Start
  BY <1>4, StartKeeps DEF Keeping, IdsLeft
<1>5. CASE Unlocks \/ UnlockFails \/ CloseIdle \/ EmergencyStop
  BY <1>5, UnlocksKeeps, UnlockFailsKeeps, CloseIdleKeeps, EmergencyStopKeeps, KeepsIs
<1>6. ASSUME NEW s \in Songs, EditSong(s) PROVE Keeping
  BY <1>6, EditSongKeeps, KeepsIs
<1>7. CASE LoadSong \/ EditTempo
  BY <1>7, LoadSongKeeps, EditTempoKeeps, KeepsIs
<1>8. CASE Microtask
  BY <1>8, SyncHeadKeeps, ScheduleUnitKeeps, SyncEndsKeeps, KeepsIs DEF Microtask
<1>9. CASE PrepareResolves \/ PrepareRejects
  BY <1>9, PrepareResolvesKeeps, PrepareRejectsKeeps, KeepsIs
<1>10. CASE TransportStop \/ Tick
  BY <1>10, TransportStopKeeps, TickKeeps, KeepsIs
<1> QED
  BY <1>1, <1>2, <1>3, <1>4, <1>5, <1>6, <1>7, <1>8, <1>9, <1>10 DEF Next

LEMMA StutterKeeps ==
    ASSUME UNCHANGED vars
    PROVE  (IInv => IInv') /\ (JInv => JInv')
<1>1. UNCHANGED <<engine, runtime, song, session, sync, made>>
  BY DEF vars
<1>2. IInv => IInv'
  BY <1>1 DEF IInv, Types, Numbered, LoopSound
<1>3. JInv => JInv'
  BY <1>1 DEF JInv, FirstSession, Covered, Current, InUnits, BatchCurrent
<1> QED
  BY <1>2, <1>3

LEMMA StepInv == IInv /\ [Next]_vars => IInv'
BY NextKeeps, StutterKeeps DEF Keeping

LEMMA StepCovered ==
    ASSUME MaxSessions <= 1
    PROVE  IInv /\ JInv /\ [Next]_vars /\ IdsLeft' => JInv'
BY NextKeeps, StutterKeeps DEF Keeping

(***************************************************************************)
(* The inductive invariant of the session: whatever the player, the song,  *)
(* the browser and the audio thread do, and in whatever order.             *)
(***************************************************************************)
THEOREM PerformanceInvariance == Spec => []IInv
<1>1. Init => IInv
  BY InitInv
<1>2. IInv /\ [Next]_vars => IInv'
  BY StepInv
<1> QED
  BY <1>1, <1>2, PTL DEF Spec

(***************************************************************************)
(* The states are those that the code can be in; a session that is live    *)
(* has a runtime that is never ahead of the engine. (performanceRuntime,   *)
(* liveAudioController)                                                    *)
(***************************************************************************)
LEMMA Typed == IInv => TypeOK
<1> SUFFICES ASSUME IInv PROVE TypeOK
  OBVIOUS
<1>1. /\ engine \in SessionEngines /\ song \in Songs
      /\ session \in {"none", "starting", "outdated", "active"}
      /\ sync.pc \in {"idle", "head", "units", "preparing", "failed"} /\ sync.dirty \in BOOLEAN
      /\ made \in [requests : Nat, edits : Nat, sessions : Nat, refreshes : Nat]
  BY DEF IInv, Types
<1>2. /\ runtime \in Performances(Ids)
      /\ (runtime.phase = "stopping" <=> runtime.stop # None)
  BY DEF IInv, Sound
<1>3. Live => runtime.beat <= engine.beat
  BY DEF IInv, Live, Running, Agreed
<1> QED
  BY <1>1, <1>2, <1>3 DEF TypeOK

THEOREM PerformanceTyped == Spec => []TypeOK
<1>1. Spec => []IInv
  BY PerformanceInvariance
<1>2. IInv => TypeOK
  BY Typed
<1> QED
  BY <1>1, <1>2, PTL

(***************************************************************************)
(* What the drain loop knows, in the first session and while there are ids *)
(* left for its transitions.                                               *)
(***************************************************************************)
THEOREM PerformanceCovered ==
    ASSUME MaxSessions <= 1
    PROVE  Spec /\ []IdsLeft => [](IInv /\ JInv)
<1>1. Init => IInv /\ JInv
  BY InitInv
<1>2. IInv /\ JInv /\ [Next]_vars /\ IdsLeft' => IInv' /\ JInv'
  BY StepInv, StepCovered
<1> QED
  BY <1>1, <1>2, PTL DEF Spec

LEMMA Agrees == IInv /\ JInv => RuntimeAgrees
<1> SUFFICES ASSUME IInv, JInv PROVE RuntimeAgrees
  OBVIOUS
<1>1. Sound(runtime)
  BY RuntimeIs
<1>2. OwnershipAgrees
  <2> SUFFICES ASSUME Live
               PROVE  /\ engine.running
                      /\ \A t \in Tracks :
                          /\ t \in ScheduledOn(runtime) <=> engine.pending[t] # None
                          /\ t \in ScheduledOn(runtime) =>
                                runtime.pending[t].id = engine.pending[t].request.id
                          /\ runtime.clip[t] # None <=> engine.active[t] # None
    BY DEF OwnershipAgrees
  <2>1. Agreed(engine, runtime) /\ Audible(engine, runtime)
    BY RuntimeIs DEF Live, Running, JInv
  <2> QED
    BY <2>1 DEF Agreed, Weakly, SameTransition, Audible
<1>3. SceneTogether
  BY <1>1 DEF SceneTogether, Sound, Together, Pending
<1>4. Drained
  <2> SUFFICES ASSUME Live, sync.pc = "idle", NEW t \in Tracks, runtime.pending[t] # None
               PROVE  t \in ScheduledOn(runtime) /\ Owned(Both, song, t)
    BY DEF Drained
  <2>1. Current /\ Pending(runtime, t)
    BY DEF Live, Current, Running, Pending
  <2>2. t \in ScheduledOn(runtime) /\ Wanted(song, engine, runtime)
    BY <2>1 DEF JInv, Covered
  <2>3. engine.pending[t] # None /\ engine.pending[t].request.id = runtime.pending[t].id
    BY <2>2, RuntimeIs DEF Live, Running, Agreed, Weakly, SameTransition
  <2> QED
    BY <2>2, <2>3 DEF Wanted, Owned, Both
<1> QED
  BY <1>2, <1>3, <1>4 DEF RuntimeAgrees, SchedulesAgree

(***************************************************************************)
(* Runtime and engine agree on every track whenever another task may run,  *)
(* scenes stay together, and a drain loop that has ended left nothing      *)
(* behind. (handleObservation, reconcileMaterial, syncPending)             *)
(***************************************************************************)
THEOREM Agreement ==
    ASSUME MaxSessions <= 1
    PROVE  Spec /\ []IdsLeft => []RuntimeAgrees
<1>1. Spec /\ []IdsLeft => [](IInv /\ JInv)
  BY PerformanceCovered
<1>2. IInv /\ JInv => RuntimeAgrees
  BY Agrees
<1> QED
  BY <1>1, <1>2, PTL

(* Only an edit changes the song. *)
LEMMA SongEdited ==
    ASSUME Next, song' # song
    PROVE  \E s \in Songs : EditSong(s)
<1>1. ASSUME NEW q \in Quantizations,
             \/ \E t \in Tracks : StopTrack(t, q) \/ \E c \in Clips : LaunchClip(t, c, q)
             \/ \E c \in Clips : LaunchScene(c, q)
             \/ StopTransport(q)
      PROVE  FALSE
  <2>1. Gesture(q)
    BY <1>1 DEF StopTrack, LaunchClip, LaunchScene, StopTransport
  <2> QED
    BY <2>1 DEF Gesture
<1>2. ASSUME NEW t \in Tracks, CancelUnitOf(t) \/ Boundary(t) PROVE FALSE
  BY <1>2 DEF CancelUnitOf, Boundary
<1>3. ~(CancelTransportStop \/ SyncClock \/ Start \/ Unlocks \/ UnlockFails \/ CloseIdle \/ EmergencyStop)
  BY DEF CancelTransportStop, SyncClock, Start, Unlocks, UnlockFails, CloseIdle, EmergencyStop, Disposing
<1>4. ~(LoadSong \/ EditTempo \/ Microtask)
  BY DEF LoadSong, Edited, EditTempo, Microtask, SyncHead, ScheduleUnit, SyncEnds
<1>5. ~(PrepareResolves \/ PrepareRejects \/ TransportStop \/ Tick)
  BY DEF PrepareResolves, PrepareRejects, TransportStop, Tick
<1> QED
  BY <1>1, <1>2, <1>3, <1>4, <1>5 DEF Next

LEMMA EditReplaces ==
    ASSUME IInv, JInv, Next, IdsLeft', song' # song, session = "active", NEW t \in Tracks,
           runtime'.clip[t] # None, engine'.active[t] # None,
           engine'.active[t].request.material # song'[t][runtime'.clip[t]]
    PROVE  runtime'.pending[t] # None
<1>1. PICK s \in Songs : EditSong(s)
  BY SongEdited
<1>2. Running(runtime') => Replaced(song', engine', runtime')
  BY <1>1, EditSongKeeps DEF IdsLeft
<1>3. Sound(runtime')
  BY NextKeeps DEF Keeping, IInv
<1>4. Running(runtime')
  BY <1>3 DEF Sound
<1> QED
  BY <1>2, <1>4 DEF Replaced, Pending

(***************************************************************************)
(* An edit of a loop that plays leaves a transition on its track in the    *)
(* same stack, in the first session and while there are ids left for it.   *)
(* (applyCommandBatch, reconcileMaterial)                                  *)
(***************************************************************************)
THEOREM Replacement ==
    ASSUME MaxSessions <= 1
    PROVE  Spec /\ []IdsLeft => EditsReplaced
<1> DEFINE Answered ==
               song' # song /\ session = "active" =>
                  \A t \in Tracks :
                      runtime'.clip[t] # None /\ engine'.active[t] # None
                        /\ engine'.active[t].request.material # song'[t][runtime'.clip[t]]
                      => runtime'.pending[t] # None
<1>1. Spec /\ []IdsLeft => [](IInv /\ JInv)
  BY PerformanceCovered
<1>2. IInv /\ JInv /\ [Next]_vars /\ IdsLeft' => [Answered]_vars
  BY EditReplaces
<1>3. EditsReplaced <=> [][Answered]_vars
  BY DEF EditsReplaced
<1> HIDE DEF Answered
<1> QED
  BY <1>1, <1>2, <1>3, PTL DEF Spec
=============================================================================

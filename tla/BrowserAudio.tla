---------------------------- MODULE BrowserAudio ----------------------------
(***************************************************************************)
(* Who may use the one live audio engine of the page: the lease of         *)
(* browserAudioRuntime, and its holders, which are the preview player, the *)
(* arrangement player of the agent's batches (mcpAudioPort), the live      *)
(* launcher and a Remote Jam session. An action is the code between two    *)
(* awaits of a holder, a call of the user interface, or a callback of the  *)
(* transport. The launcher's controller is LivePerformance; here it only   *)
(* takes the engine, uses it and gives it back.                            *)
(***************************************************************************)
EXTENDS LiveEngineState

CONSTANTS Lives,      \* sessions of the live launcher, one controller each
          Preview, Song, Jam,   \* the other holders
          MaxQueue,   \* bound on the preview operations that wait
          MaxRev      \* bound on the revisions of the song

Players == {Preview, Song}
Holders == Players \cup Lives \cup {Jam}

ASSUME HolderAssumption ==
    /\ Players \cup Lives = Callers
    /\ Preview # Song /\ Players \cap Lives = {} /\ Jam \notin Callers
    /\ None \notin Holders
    /\ MaxQueue \in Nat /\ MaxRev \in Nat
    /\ Tracks # {}
    /\ None \notin Sources(Callers) \cup Jobs(Callers)

VARIABLES
    lease,      \* activeLease: its holder, or None
    pc,         \* per holder, where its code awaits; "playing" holds the lease
    queue,      \* operations of the preview player, the head is running
    asked,      \* history: the latest operation the preview was asked for
    rev,        \* revision of the song in the store
    base,       \* the revision the running batch was projected from
    fresh,      \* no stop() since the running batch took its ticket
    heard       \* history: the revision whose materials the song player got

previewVars == <<queue, asked>>
songVars == <<rev, base, fresh, heard>>
vars == <<engine, lease, pc, previewVars, songVars>>

Init ==
    /\ engine = NewEngine
    /\ lease = None
    /\ pc = [h \in Holders |-> "idle"]
    /\ queue = << >> /\ asked = "stop"
    /\ rev = 0 /\ base = 0 /\ fresh = FALSE /\ heard = 0

Goto(h, place) == pc' = [pc EXCEPT ![h] = place]

-----------------------------------------------------------------------------
(* The lease.                                                              *)

(* acquire takes the lease before it awaits the engine.                    *)
Acquire(h) == lease = None /\ lease' = h /\ Goto(h, "acquiring")

(* release gives up this lease only.                                       *)
Release(h) == lease' = IF lease = h THEN None ELSE lease

Silenced(e) == IF Usable(e) THEN Stopped(e) ELSE e

(* Mutant: the player gives the lease back without stopping the engine. *)
GiveBackOnly(h, e) ==
    /\ engine' = e
    /\ Release(h)
    /\ Goto(h, "idle")

(* How a player ends: by stop, or by the catch or finally of a failed call *)
GiveBack(h, e) ==
    /\ engine' = Silenced(e)
    /\ Release(h)
    /\ Goto(h, "idle")

(* The dynamic import of the engine failed, so there is no engine yet.     *)
AcquireFails(h) ==
    /\ pc[h] \in {"acquiring", "closing"}
    /\ engine.phase = "new"
    /\ Release(h)
    /\ Goto(h, "idle")
    /\ UNCHANGED <<engine, songVars>>
    /\ queue' = IF h = Preview THEN Tail(queue) ELSE queue
    /\ asked' = asked

-----------------------------------------------------------------------------
(* Both players: initialize, reset, unlock, schedule one launch, start.    *)

Launch(h, t, target) == [id |-> h, track |-> t, kind |-> "launch", target |-> target]
Arrangement(h) == << Launch(h, CHOOSE t \in Tracks : TRUE, 0) >>

Preparation(h, e) ==
    /\ engine' = BatchBegun(e, h, Arrangement(h))
    /\ Goto(h, "preparing")
    /\ lease' = lease

(* The engine is busy with the work of an earlier holder, or is opened.    *)
Opens(h) ==
    LET e == Reset(Initialized(engine))
    IN  IF ~Initializable(engine) THEN GiveBack(h, engine)
        ELSE IF e.unlocked THEN Preparation(h, e)
        ELSE /\ engine' = [e EXCEPT !.unlocking[h] = "fresh"]
             /\ Goto(h, "unlocking")
             /\ lease' = lease

(* The browser let the audio run, or refused.                              *)
Unlocks(h) ==
    /\ pc[h] = "unlocking"
    /\ \/ engine.unlocking[h] = "fresh" /\ Preparation(h, UnlockResolved(engine, h))
       \/ GiveBack(h, UnlockRejected(engine, h))

Prepares(h) ==
    /\ pc[h] = "preparing" /\ Voices # engine.voices
    /\ Committable(MaterialPrepared(engine, h, FreshVoice(engine)), h)

Placed(h) == Committed(MaterialPrepared(engine, h, FreshVoice(engine)), h)

(* A material, the port or start(0) failed.                                *)
PlayerFails(h) == pc[h] = "preparing" /\ GiveBack(h, BatchDropped(engine, h))

Sounds(h) ==
    /\ engine' = Started(Placed(h), 0)
    /\ Goto(h, "playing")
    /\ lease' = lease

-----------------------------------------------------------------------------
(* The preview player: one operation after the other.                      *)

PreviewAsked(operation) ==
    /\ Len(queue) < MaxQueue
    /\ queue' = Append(queue, operation)
    /\ asked' = operation
    /\ UNCHANGED <<engine, lease, pc, songVars>>

PreviewStops ==
    /\ queue # << >> /\ Head(queue) = "stop" /\ pc[Preview] \in {"idle", "playing"}
    /\ IF pc[Preview] = "playing" THEN GiveBack(Preview, engine)
                                  ELSE UNCHANGED <<engine, lease, pc>>
    /\ queue' = Tail(queue)
    /\ UNCHANGED <<asked, songVars>>

(* playNow: what plays is stopped, then the lease is taken or refused.     *)
PreviewBegins ==
    /\ queue # << >> /\ Head(queue) = "play" /\ pc[Preview] \in {"idle", "playing"}
    /\ engine' = IF pc[Preview] = "playing" THEN Silenced(engine) ELSE engine
    /\ IF lease \in {None, Preview}
       THEN lease' = Preview /\ Goto(Preview, "acquiring") /\ queue' = queue
       ELSE UNCHANGED <<lease, pc>> /\ queue' = Tail(queue)
    /\ UNCHANGED <<asked, songVars>>

PreviewStep ==
    \/ pc[Preview] = "acquiring" /\ Opens(Preview)
    \/ Unlocks(Preview)
    \/ Prepares(Preview) /\ Sounds(Preview)
    \/ PlayerFails(Preview)

(* The operation is over when it holds no promise any more.                *)
PreviewPlays ==
    /\ PreviewStep
    /\ queue' = IF pc'[Preview] \in {"idle", "playing"} THEN Tail(queue) ELSE queue
    /\ UNCHANGED <<asked, songVars>>

-----------------------------------------------------------------------------
(* The song player: executeCommandBatch of the agent's port.               *)

Busy == pc[Song] \notin {"idle", "playing"}

(* stop: also outdates the ticket of a batch that is being prepared.       *)
SongStopped ==
    /\ fresh' = FALSE
    /\ IF pc[Song] = "playing" THEN GiveBack(Song, engine)
                               ELSE UNCHANGED <<engine, lease, pc>>

SongStops == SongStopped /\ UNCHANGED <<previewVars, rev, base, heard>>

(* A batch that plays stops what plays, projects its materials and takes   *)
(* the lease, unless another holder has it.                                *)
SongBegins ==
    /\ ~Busy
    /\ rev < MaxRev
    /\ engine' = IF pc[Song] = "playing" THEN Silenced(engine) ELSE engine
    /\ base' = rev /\ fresh' = TRUE
    /\ IF lease \in {None, Song} THEN lease' = Song /\ Goto(Song, "acquiring")
                                 ELSE UNCHANGED <<lease, pc>>
    /\ UNCHANGED <<previewVars, rev, heard>>

(* A batch that does not play is committed at once and ends the music.     *)
SilentBatch ==
    /\ ~Busy
    /\ rev < MaxRev
    /\ rev' = rev + 1
    /\ SongStopped
    /\ UNCHANGED <<previewVars, base, heard>>

(* Neither was the batch cancelled, nor was the song edited meanwhile.     *)
Committing == fresh /\ rev = base

SongStep ==
    \/ /\ pc[Song] = "acquiring"
       /\ IF fresh THEN Opens(Song) ELSE GiveBack(Song, engine)
       /\ UNCHANGED <<rev, heard>>
    \/ (Unlocks(Song) \/ PlayerFails(Song)) /\ UNCHANGED <<rev, heard>>
    \/ /\ Prepares(Song) /\ ~Committing
       /\ GiveBack(Song, Placed(Song)) /\ UNCHANGED <<rev, heard>>
    \/ /\ Prepares(Song) /\ Committing
       /\ rev' = rev + 1 /\ heard' = rev + 1
       /\ Sounds(Song) \/ GiveBack(Song, Placed(Song))

SongPlays == SongStep /\ UNCHANGED <<previewVars, base, fresh>>

(* The subscription of the agent panel stops a song that was edited.       *)
EditNoticed ==
    /\ rev' = rev + 1
    /\ IF pc[Song] = "playing" THEN SongStopped ELSE UNCHANGED <<engine, lease, pc, fresh>>

PlayerEdits ==
    /\ rev < MaxRev
    /\ EditNoticed
    /\ UNCHANGED <<previewVars, base, heard>>

-----------------------------------------------------------------------------
(* The live launcher.                                                      *)

(* dispose of the shared controller                                        *)
EmergencyStop(e) ==
    IF e.phase \in {"initialized", "blocked", "ready", "running", "suspended"}
    THEN Stopped(e) ELSE e

Disposes(l, e) ==
    /\ engine' = EmergencyStop(e)
    /\ Release(l)
    /\ Goto(l, "idle")

(* One controller at a time; what an earlier one asked for may be pending. *)
LiveBegins(l) ==
    /\ \A k \in Lives : pc[k] = "idle"
    /\ engine.unlocking[l] = "no" /\ engine.batch[l] = None
    /\ Acquire(l)
    /\ engine' = engine

LiveRuns(l, e) ==
    /\ engine' = Started(e, 0)
    /\ Goto(l, "playing")
    /\ lease' = lease

(* start of the controller                                                 *)
LiveOpens(l) ==
    /\ pc[l] = "acquiring"
    /\ LET e == Opened(engine, l)
       IN  IF ~Initializable(engine) THEN Disposes(l, engine)
           ELSE IF engine.unlocked THEN LiveRuns(l, e)
           ELSE engine' = e /\ Goto(l, "unlocking") /\ lease' = lease

(* A controller that comes after its launcher was closed is disposed.      *)
LiveAcquired(l) == LiveOpens(l) \/ (pc[l] = "closing" /\ Disposes(l, engine))

(* Unlocked: the session runs, unless song or performance have changed. A  *)
(* session that was closed meanwhile finds its generation outdated.        *)
LiveUnlocks(l) ==
    /\ engine.unlocking[l] # "no"
    /\ LET e == UnlockResolved(engine, l)
           r == UnlockRejected(engine, l)
       IN  IF pc[l] = "unlocking"
           THEN LiveRuns(l, e) \/ Disposes(l, Stopped(e)) \/ Disposes(l, r)
           ELSE engine' \in {e, r} /\ UNCHANGED <<lease, pc>>

LiveSchedules(l) ==
    /\ pc[l] = "playing" /\ engine.running /\ engine.batch[l] = None
    /\ \E t \in Tracks :
          LET requests == << Launch(l, t, engine.beat + 1) >>
          IN  /\ engine.beat < MaxBeat /\ ~BatchRefused(engine, requests)
              /\ ~AllRetries(engine, requests)
              /\ engine' = BatchBegun(engine, l, requests)
    /\ UNCHANGED <<lease, pc>>

LivePrepares(l) ==
    /\ l \in InFlight(engine)
    /\ LET e == MaterialPrepared(engine, l, FreshVoice(engine))
       IN  engine' = IF Voices # engine.voices /\ Committable(e, l)
                     THEN Committed(e, l) ELSE BatchDropped(engine, l)
    /\ UNCHANGED <<lease, pc>>

LiveStopsAtBeat(l) ==
    /\ pc[l] = "playing" /\ engine.running /\ engine.beat < MaxBeat
    /\ ~StopRefused(engine, l, engine.beat + 1)
    /\ engine' = StopScheduled(engine, l, engine.beat + 1)
    /\ UNCHANGED <<lease, pc>>

(* The launcher is reset or unmounted.                                     *)
LiveCloses(l) ==
    \/ pc[l] = "acquiring" /\ Goto(l, "closing") /\ UNCHANGED <<engine, lease>>
    \/ pc[l] \in {"unlocking", "playing"} /\ Disposes(l, Silenced(engine))

(* The effect that sees the performance idle after its transport stopped.  *)
LiveEnded(l) == pc[l] = "playing" /\ ~engine.running /\ Disposes(l, engine)

Live(l) ==
    \/ LiveAcquired(l) \/ LiveUnlocks(l) \/ LivePrepares(l) \/ LiveEnded(l)

-----------------------------------------------------------------------------
(* A Remote Jam session makes its own sound and never uses the engine.     *)

JamBegins == Acquire(Jam) /\ engine' = engine
JamAcquired == pc[Jam] = "acquiring" /\ Goto(Jam, "playing") /\ UNCHANGED <<engine, lease>>
JamEnds == pc[Jam] = "playing" /\ Release(Jam) /\ Goto(Jam, "idle") /\ engine' = engine

Callback ==
    /\ \/ \E t \in Tracks : Due(engine, t) /\ engine' = AtBoundary(engine, t)
       \/ StopDue(engine) /\ engine' = Stopped(engine)
       \/ Advancing(engine) /\ engine' = [engine EXCEPT !.beat = @ + 1]
    /\ UNCHANGED <<lease, pc>>

Other ==
    /\ \/ JamBegins \/ JamAcquired \/ JamEnds \/ Callback
       \/ \E l \in Lives :
             LiveBegins(l) \/ LiveSchedules(l) \/ LiveStopsAtBeat(l) \/ LiveCloses(l)
    /\ UNCHANGED <<previewVars, songVars>>

LiveWorks(l) == Live(l) /\ UNCHANGED <<previewVars, songVars>>

Next ==
    \/ \E operation \in {"play", "stop"} : PreviewAsked(operation)
    \/ PreviewStops \/ PreviewBegins \/ PreviewPlays
    \/ SongStops \/ SongBegins \/ SilentBatch \/ SongPlays \/ PlayerEdits
    \/ \E h \in Holders : AcquireFails(h)
    \/ \E l \in Lives : LiveWorks(l)
    \/ Other

Spec == Init /\ [][Next]_vars

(* Promises resume their awaiting code: the engine is loaded or not, and   *)
(* materials are prepared or refused. Whether the browser ever lets the    *)
(* audio run, and whether anybody plays or closes anything, is open.       *)
FairSpec ==
    /\ Spec
    /\ \A h \in Holders : WF_vars(AcquireFails(h))
    /\ WF_vars(PreviewStops) /\ WF_vars(PreviewBegins)
    /\ WF_vars(PreviewPlays /\ pc[Preview] # "unlocking")
    /\ WF_vars(SongPlays /\ pc[Song] # "unlocking")
    /\ \A l \in Lives : WF_vars(LiveWorks(l) /\ engine.unlocking[l] = "no")

-----------------------------------------------------------------------------
(* Properties.                                                             *)

Places == {"idle", "acquiring", "closing", "unlocking", "preparing", "playing"}

(* Types; who awaits an unlock or a material has asked the engine for it   *)
(* in its present generation.                                              *)
TypeOK ==
    /\ engine \in Engines(Callers)
    /\ lease \in Holders \cup {None}
    /\ pc \in [Holders -> Places]
    /\ Len(queue) <= MaxQueue
    /\ rev \in 0 .. MaxRev /\ base <= rev /\ heard <= rev
    /\ \A h \in Callers : pc[h] = "unlocking" <=> engine.unlocking[h] = "fresh"
    /\ \A h \in Players : pc[h] = "preparing" <=> h \in InFlight(engine) /\ engine.batch[h].fresh

(* The engine is used by one holder at a time, and given back silent: who  *)
(* is not idle has the lease, the transport runs only for a holder that    *)
(* plays, a player that believes to play is heard, and without a holder    *)
(* nothing is scheduled and no material is kept but that of a preparation  *)
(* that is outdated. So no late unlock, preparation or callback of an      *)
(* earlier holder starts, stops or changes the music of the next.          *)
TransportOwned ==
    /\ \A h \in Holders : pc[h] # "idle" => lease = h
    /\ engine.running => lease \in Callers /\ pc[lease] = "playing"
    /\ \A h \in Players : pc[h] = "playing" => engine.running
    /\ lease = None =>
          /\ Owning(engine) = {} /\ engine.stop = None
          /\ engine.voices = UNION {HeldVoices(engine.batch[c]) : c \in InFlight(engine)}
          /\ \A c \in InFlight(engine) : ~engine.batch[c].fresh

(* The latest wish counts. An arrangement that plays is that of the song   *)
(* the store holds now, although its materials were projected before the   *)
(* audio was waited for, and nobody has stopped it since, not even during  *)
(* that wait. A preview that was asked to stop last is silent when its     *)
(* operations are done.                                                    *)
LatestWish ==
    /\ pc[Song] = "playing" => heard = rev /\ fresh
    /\ queue = << >> /\ asked = "stop" => pc[Preview] = "idle"

(* Both: whoever sounds may, and sounds what was asked for last.           *)
HolderExact == TransportOwned /\ LatestWish

(* Who takes the lease gets to play or gives it back, and the port is      *)
(* ready for another batch, unless the browser keeps the audio locked.     *)
HoldersSettle ==
    \A h \in Callers :
        pc[h] \notin {"idle", "playing"} ~>
            pc[h] \in {"idle", "playing"} \/ engine.unlocking[h] # "no"
=============================================================================

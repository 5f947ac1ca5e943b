# Beat Twin: a TLA+ model of its plans, its songs and its live audio

Beat Twin lets an agent or a person change a song through *plans*: a plan is
created and reviewed in a local gateway, confirmed, executed once by a DAW
adapter, and its outcome is kept as evidence. The built-in DAW (NanoDAW) is a web
page that owns the song and talks to the gateway over one WebSocket. Bitwig Studio is
reached by another adapter, through a relay and a script that runs inside Bitwig. The
page also plays: a preview, the arrangement of an agent's batch, a live launcher of
clips and scenes, and a remote musician all want the one audio engine.

This directory models the path of a plan from its creation to the song, in both DAWs,
the song page with everything that edits the song, and the live audio of the page from
the player's gesture to the transport callback. It
checks the models with TLC, and proves with TLAPS the safety of the plan store, of
pairing, of the WebSocket proxy, of an execution in either DAW, of the song page, of
the live audio engine and the lease under which its holders use it, of the live
performance, and of the consumer that plays a remote musician's notes. Paths below are relative to the repository.

## 1. Inventory

### The path of a plan

```
 agent run / MCP tool        operator
        | createPlan            | confirm, execute
        v                       v
 gateway-http routes  -- authorize -->  PairingAuthority   (gateway-core)
        |                      
        +---------------------------->  GatewayPlanStore   (gateway-core)
        | adapter.execute
        v
 NanoDawAdapter (adapters/nanodaw)    BitwigAdapter (adapters/bitwig)
        | inspect, batch, inspect            | inspect, write, write, .. inspect
        v                                    v
 browser WebSocket proxy (gateway-http)   relay -> controller script -> Bitwig
        | frames of one session
        v
 agentGateway -> mcpAudioPort -> store   (apps/playground, the page)
                     |
                     |  preview   live launcher   Remote Jam   (the other holders)
                     v     v        |                |
                browserAudioRuntime (lease) <--------+
                     |              | liveAudioController <-> performanceRuntime
                     v              v
                live audio engine (audio-tone) -> transport
```

All of the gateway is one JavaScript process. Nothing runs in parallel; what
interleaves is the code between awaits (hashing, policy, audit sinks, the adapter,
timers, socket events). All gateway state lives as long as the process.

| Component | State | Operations | What is hard | What makes it correct |
|---|---|---|---|---|
| Plan store, `packages/gateway-core` | plans by planId, confirmations by token hash, four sets of planIds with a call in progress | createPlan, confirm, consumeExecution, consumeDirectExecution, recordExecution, recordExecutionUncertainty, retentionStatus | two or three awaits per call; checks before them, writes after them; rollback of claims; lazy cleanup in every read; planIds that come back | one execution per plan, exact pins, no evidence lost, outcomes final, capacity reserved, every grant resolved |
| Pairing authority, `packages/gateway-core` | token records (expiry, quota, revocation), a promise chain per token | issue, authorize, revoke, retentionStatus | quota claimed before an audit and refunded after; revocation among queued requests | exact quota, one operation per token, revocation final, queue drains |
| Retention map, `packages/retention` | entries with expiry and pins | set, get, peek, size, assertCanAdd, cleanup | cleanup inside reads | part of the two above |
| HTTP routes, `packages/gateway-http` | rate limits, active runs | agent runs, confirm, execute, readiness | adapter timeout without cancellation; failed records | a granted plan ends reported or uncertain |
| WebSocket proxy, `packages/gateway-http` | session, pending RPCs with timers | upgrade, call, receive, disconnect, close | late answers, old sockets' events, concurrent upgrades | one session, exact map, every call settles |
| NanoDAW adapter, `packages/adapters/nanodaw` | idempotency records | execute, inspect | lost answers, edits between inspection and readback | "failed" means untouched, "succeeded" means applied to the inspected song |
| The page as a plan sees it, `apps/playground` | song and revision, the batch waiting for audio | command batch, local edits, load, reload, connect | reload, audio gesture that never comes, throw after commit | compare-and-swap on the revision |
| Song, command engine, `packages/core`, `packages/commands`; DAW contract | tracks, clips and notes; the command state | every command, batches, preflight | edits validate their notes, loading validates the song | all-or-nothing on a base revision; an edited song can be loaded |
| The page's store, `apps/playground/src/store.ts`, `persistence.ts` | the song shown, undo and redo, the saved copy, the selection, the note form | the gestures of the player, undo, redo, save, load, import, clear, reload | storage that refuses; a selection that moves under an open form | one line of songs; an honest status |
| MIDI recorder, import panel, `MidiRecorder.tsx`, `midiRecording.ts`, `MidiImportPanel.tsx` | the take and the revision it was queued at; the file to be accepted | queue, observe, capture, finish, cancel, undo take; choose, accept, discard | an effect that runs late; work prepared now and applied later | applied only to the song it was prepared on; the recording slot is given back |
| MCP service, `packages/mcp` | review inbox | planReview, applyDirect | count before await | the plan store's own properties |
| Live audio engine, `packages/audio-tone` | phase, generation, per-track sources, materials, transport stop | unlock, start, suspend, stop, scheduleTransitions, cancel, reset, dispose, boundaries | materials prepared across a reset, callbacks that come late, rollback of a partly committed batch | every beat of a track belongs to one source; no leaked material; every transition executed or withdrawn |
| Live controller and performance runtime, `apps/playground` | what the player asked for; what the engine was given; the drain loop | launch, stop, scene, edit, load, syncPending, reconcileMaterial, emergencyStop | two owners of one truth; reentrant observations; edits during the preparation; late boundaries | they agree; a scene stays together; edits reach the playing loops; every request answered |
| Audio lease and its holders, `browserAudioRuntime.ts`, `previewAudio.ts`, `mcpAudioPort.ts`, the launcher's session | the lease; a queue of preview operations; the batch's ticket | acquire, release, play, stop, commit, open, close | disposal during an unlock that hangs; edits while a batch waits for audio | only the holder moves the transport, it gives it back silent, the latest wish is heard |
| Bitwig adapter, `packages/adapters/bitwig` | the execution's position | execute | one RPC per mutation, no transaction; an unknown outcome in the middle | only the confirmed clip is written; the report says what happened |
| Bitwig controller, `bitwig-controller/BeatTwin` | selected target and its generation; construction barriers | inspect, create clip, set note, navigation | callbacks of Bitwig come later than its effects | a stale binding writes nothing; a barrier ends |
| Remote Jam Bitwig consumer, `packages/adapters/bitwig/src/remote-jam.ts` | session, sequence, held notes, fault, generation, promise chain | arm, accept, disarm, fail-safe panic | disarm takes effect while a note is dispatched and others are queued; calls that fail after their effect | once the session is gone: silence, a panic to come, or a latched fault; held notes cover what sounds |
| Remote Jam local sink and peer | note leases, peer connection | note on and off, panic | - | not modelled |
| MIDI file conversion, agent contract, LiteRT provider, UI, scripts | - | - | little interleaving, pure data, or external state | not modelled |

`PROJECT.json` lists the components again with their status, and the hazards, each
at its line, with the properties that cover it or the reason why none does yet.

## 2. Modules

| Module | Models | Lines read |
|---|---|---|
| `PlanLifecycle` | what the gateway promises of a plan, seen from outside | abstract |
| `GatewayPlanStore` | plan store, its retention maps, and the execute route | gateway-core 1-140 and 370-840, retention, gateway-http 360-410, 640-700 |
| `PairingAuthority` | pairing authority and its retention map | gateway-core 140-330 |
| `BrowserProxy` | the WebSocket proxy and both ends of its sockets | browser-nanodaw-websocket.js |
| `NanoDawExecution` | adapter, page, audio port, over `BrowserProxy` | adapters/nanodaw, store.ts, agentGateway.ts, mcpAudioPort.ts |
| `LiveEngineState` | the live audio engine: the variable `engine`, a record, with its type, and each call as an operator on it | audio-tone/src/live-engine.ts |
| `LiveAudioEngine` | that engine alone, called by two callers | the same |
| `PerformanceRuntime` | the pure reducer of the live performance | performanceRuntime.ts |
| `LivePerformance` | launcher, reducer, controller and engine together | liveAudioController.ts, LiveLauncher, store.ts |
| `BrowserAudio` | the lease of the engine, and everyone who takes it | browserAudioRuntime.ts, previewAudio.ts, mcpAudioPort.ts, LiveLauncher |
| `BitwigController` | the script inside Bitwig: its state as a record | BeatTwin.control.ts |
| `BitwigExecution` | a plan written into Bitwig: adapter, relay, controller, Bitwig | adapters/bitwig/src/index.ts, bitwig-controller |
| `SongGraph` | songs, their edits and the commands, as operators | packages/core/src/index.ts 370-1063, packages/commands 310-500, 754-1112 |
| `SongHistory` | what undo, redo and edits promise | abstract |
| `SongStore` | the store of the page | store.ts, persistence.ts, StepEditor.tsx, performanceRuntime.ts 282-373 |
| `MidiTake` | a recorded take, as operators | midiRecording.ts |
| `SongEditing` | the page: the store, the recorder, the import panel and an agent | MidiRecorder.tsx, MidiImportPanel.tsx, store.ts 688-748 |
| `RemoteJamConsumer` | the Remote Jam consumer and the MIDI profile it plays on | adapters/bitwig/src/remote-jam.ts 150-295, bitwig-controller/BeatTwin/midi.ts 60-141 |
| `MC*` | instances for TLC: symmetry sets and constant functions | - |
| `GatewayPlanStore_proofs`, `PairingAuthority_proofs`, `NanoDawExecution_proofs`, `BitwigExecution_proofs`, `SongEditing_proofs`, `LivePerformance_proofs` | inductive invariants and theorems, each about the module of its name | - |
| `LiveAudio_proofs` | the same about `LiveAudioEngine` and `BrowserAudio`, over lemmas about the operators of `LiveEngineState` that both share | - |
| `Connections_proofs` | the same about `BrowserProxy` and `RemoteJamConsumer`, the two ends that outsiders connect to | - |

A definition whose comment begins with "Mutant:" is not part of a specification.
It is the form that a plausible bug would give to the definition next to it, and it
is used to test that a property can fail: `PROJECT.json` pairs each property with a
mutant that violates it.

### GatewayPlanStore

* A call of the store is a `Client`; its `pc` names the await at which it is
  suspended (`consumeAudit`: the claim's audit event is being written). An action
  is the code from one await to the next, so an interleaving of actions is an
  interleaving of microtasks.
* A member of `Plans` is a stored *object*, not a planId. `IdOf` maps objects to
  planIds, several to one, because the store forgets plans and then accepts the same
  planId again while older calls still hold a reference to the first object. The
  pin sets (`pendingPlan`, `pendingConf`, `pendingExec`, `pendingReport`) hold
  planIds, as in the code: whether that is enough is one of the questions.
* Cleanup is lazy: each action applies `KeptPlans` or `KeptConfs` exactly where the
  code reads through `get`, `size` or `assertCanAdd`, and not where it uses `peek`.
* `used`, `state` and `confOf` are written where the code writes them, before the
  audit, and undone in its catch clause (`Unclaim`).
* The execute route continues a granted call: the adapter answers (`RecordBegin`),
  throws or times out (`UncertainBegin`), recording fails (`RecordFails`, then
  uncertainty). `until` first holds the time of the grant, then the completion
  time of the report, which lies between grant and now.
* Left out: scopes, digests, audit contents, plan contents. A call they refuse
  returns before it has changed anything. The agent-run route is a caller of
  `createPlan`; a dual-target run would be two.

`PlanLifecycle` is the abstract specification: *new, offered, executing, resolved,
partial, uncertain, forgotten*. The mapping `life` computes the abstract state: a plan
whose claim is not granted yet is still *offered*, because the claim can be undone.
One concrete step may forget several plans and store one (cleanup in `set`), hence
`OfferOrForget`.

### PairingAuthority

Calls are clients again. `queue[t]` is the promise chain of `#withRecordLock`: a
pending operation on `t` awaits the one that was last when it arrived, so the chain
is a FIFO queue whose head holds the lock. `expiresAt`, `usedRequests` and
`revoked` outlive the removal of a record from the registry because a suspended call
keeps its reference to it. Origins and scopes are reduced to a request that the token
covers or does not. A revocation moves the expiry to the moment it was asked for,
as the code does, so a revoked record is evicted by the next cleanup.

### BrowserProxy

`srv[s]` is the server's WebSocket object and `brw[s]` the browser's end. Frames are
sets since the page answers asynchronously; the close frame comes after the answers.
A call that is not sent leaves no trace in the map (`CallRefused`). A malformed,
late or unexpected answer is a protocol failure, which ends the session with all its
calls. `Disconnect` takes the promises as they are before it runs, because the code
settles the call with the invalid answer first.

### NanoDawExecution

This module composes three parts. The proxy is an instance of `BrowserProxy` whose
calls are `Plans \X {"inspect", "batch", "readback"}` and whose results are page
snapshots; the adapter issues the calls, and the page replaces the arbitrary
`BrowserAnswers` of the proxy by the real handlers. A song is a number, fresh with
every change, so two songs are equal exactly if no change lies between them; a
revision is the page's counter, which starts again with the page. `from` is what the
page says the batch was applied to; the adapter compares it through the
deterministic projection of the inspected song.

`phase[p]` is where the execution of `p` waits. `Quiet` states the run-to-completion
order of the gateway: when an RPC is settled, the adapter's continuation runs before
the next socket event or timer.

Simplifications: a plan is executed by one caller, once (`SingleGrant` is checked
and proved in `GatewayPlanStore`); a terminal idempotency record may be evicted at any
moment rather than at its age, and other requests may hold all records at any moment;
a page opens its sockets in an arbitrary but fixed order, since they are alike; the inspection from which a plan is made is one step;
undo and redo are edits (`SongEditing` tells them apart); loading the song that is already shown is left out; the HTTP
adapter timeout is in `GatewayPlanStore` only (here the adapter simply continues after
it, which is what the code does); the gateway neither restarts nor shuts down, which
the proxy's own model covers (`Shutdown`).

### RemoteJamConsumer

* Every arm, accept and disarm puts a task behind the promise of the task before it
  (`#serialize`). `queue` holds the tasks that have not settled; only its head runs,
  and `step` is the port call it awaits. A task that rejects is followed by the next
  one just as one that resolves (`Settle`).
* What a method does before its first await happens at the call: `Disarm` ends the
  session, clears the fault and increments the generation at once, while its panic
  waits for its turn. Each task carries the generation it was called in (`at`), which
  the code captures in a local variable.
* `isWriteAuthorized` and `isAuthenticatedPeer` may change at any moment, so each look
  at them goes either way: `AcceptFaults` is possible for each live frame, `ArmRefused`
  at each check. A frame is its session, its sequence, its pitch and what it asks for:
  a note on with velocity 0 is an "off"; a control change, another channel or the
  clock is "other".
* The host is external state as the consumer sees it: `sounding` is what the controller
  tracks. It executes the calls in the order they were sent, and a call may fail
  before or after its effect, a cleanup also in its middle (`HostReleases` takes one
  pitch). A lease may end at any time and nobody is told. `Init` allows pitches left
  over by an earlier process, which is why `SilentWhenOff` speaks of the time after
  the first revocation (`generation > 0`), and why `arm` looks at the status.
* Left out: MIDI timing (`play_ns`, deadlines are not enforced by the consumer
  either), sustain pedals, and other clients of the controller.

### LiveEngineState and LiveAudioEngine

* The engine is a record and a call an operator on it, because its callers make
  several calls in one JavaScript task: `LivePerformance` and `BrowserAudio` compose
  the operators where the code does. `LiveAudioEngine` alone lets its callers make the
  calls in any order; its specification is `EngineSpec`, and its type is `Engines(ids)`
  for the transition ids that are in use.
* The engine's own awaits are two. `unlocking[c]` is an unlock whose port promise is
  pending, `batch[c]` a `scheduleTransitions` whose materials are being prepared. Each
  is *fresh* as long as `lifecycleGeneration` is the one that it captured; the model
  keeps the comparison's result instead of the counter. A batch holds what was prepared
  for it so far, and disposes of it when it is dropped.
* `Committed` and `RolledBack` are the synchronous loop over the tracks; the port may
  throw at any track (`CommitFails`), and the tracks before it are rolled back.
  `HandoverExact` says of every reachable state what the listener hears: for every beat
  up to the next boundary the active source up to its cutoff, then the pending one, and
  never both. A transition that stops needs no voice.
* The transport is `running` and `beat`. A callback is due at its target and may be up
  to `Late` beats late; a source plays what its boundary and cutoff say, not when the
  callback ran. Callbacks at the current beat are called; Tone's look-ahead and the
  notes of a material are left out.
* Materials are prepared asynchronously as the engine's interface promises; the Tone
  preparer that is shipped resolves after a microtask, which is the special case in
  which nothing comes between.

### PerformanceRuntime and LivePerformance

* The reducer throws on an illegal action, so each of its actions is two operators: the
  condition (`Queueable`) and the resulting state (`Queued`). Callers use both.
* An edit (`EditSong`) changes or removes clips and may remove tracks that are left
  without any: the reducer then drops the stops of those tracks too. A track that is
  removed and one without clips are the same afterwards.
* One action of `LivePerformance` is one task of the page: the gesture, the edit, the
  timer or the audio callback, with the observations that it causes and the
  reconciliation in its stack. `Disposing`, `Reconciled` and `FailSafe` are therefore
  operators on the pair of runtime and engine. `reconcileMaterial` is called twice by
  `syncMaterial`; it is idempotent and done once.
* The loops of the reconciliation over units and over tracks are one assignment to every
  track: an iteration changes its own tracks and no other. Only `RefreshActive` has an
  order, because it counts its ids and ends at the first track that it cannot explain.
* `sync.pc` is the drain loop of `syncPending`. It suspends at each engine call, but
  only the preparation lets other tasks in (`Yielded`); the other awaits are
  microtasks. `dirty` asks for another pass. A pass that throws (`LoopFails`) ends the
  drain with what is left undone.
* The session is `"none"`, `"starting"` (the unlock hangs, "outdated" when an edit came
  meanwhile) or `"active"`. A refused transport stop leaves the runtime "stopping", as
  the comment at liveAudioController.ts:763 says.
* `OwnershipAgrees` ends with the phase "idle": a transport stop that is cancelled too
  late resets the runtime, and the engine follows when the launcher closes.
* Left out: recording and overdub, levels, mutes, macros; the content of a transition
  is not looked at again when it is acknowledged, as in the code; the branch of
  `scheduledSceneMatches` that fails safe is unreachable and has no action; the
  launcher's page does not wire the `cancel*` calls, which are actions all the same.
  When the reserved ids reach `IdCapacity` the reducer throws; the bounds stay below it.

### BrowserAudio

* `lease` is `activeLease`; `pc[h]` says where the code of holder `h` awaits. The
  preview player serializes its operations (`queue`, the head runs), the song player
  has one batch at a time with its ticket (`fresh`) and base revision, each session of
  the launcher has a controller of its own, and Remote Jam just takes the lease.
* `GiveBack` is the release every holder runs: stop the engine if it can be stopped,
  then let the lease go, in this order. `AcquireFails` is the acquisition that finds
  the lease taken. `Disposes` is the launcher's `emergencyStop`, which may run while its
  own unlock hangs: that session stays in `unlocking` although it no longer holds anything.
* An unlock may hang for ever, and several may hang at once. After it, `await
  engine.unlock()` of an engine that is already unlocked is a microtask, as is the
  return of `scheduleTransitions` to its caller: both are part of the step before.
* `rev` is the song's revision, `base` the one a batch was projected from and `heard`
  the one whose materials the song player got. An edit stops the arrangement in the same
  step, since the subscription runs in the dispatch. A batch with a stale base is refused at its
  projection; it has stopped what was playing by then, as in the code.
* The engine is `LiveEngineState` with one track. The launcher's `externalAudioActive`
  check is covered by the refusal of the lease. A port that cannot be created for Remote
  Jam is a session that ends as soon as it began.

### BitwigController and BitwigExecution

* The script is single threaded; its state is a record and a request or callback an
  operator on it. `picked` and `cursor` are what the proxies' last callbacks said of the
  selected slots and the cursor clip, `generation` revokes all bindings, `barrier`
  closes the bridge after a construction until Bitwig has shown its result and a flush
  has passed, `gui` does the same for a global command.
* `host` holds commands that Bitwig has accepted and not carried out. Requests arrive in
  order (`wire`), are answered at once and take effect later: this is the gap which the
  adapter's polling (`Attempts`) and the controller's barriers are there for.
* `exec[p]` is the adapter: `pc` the await, `step` the mutation, `tries` the polls left.
  A call may time out, and its late answer then finds nobody (`call`); the connection may
  break, which rejects what is pending, while requests already received are handled; the
  controller may be reloaded, which gives it another instance and generation 0.
* A plan creates one clip and writes one note of its own into it, which is the shortest
  plan with an order to get wrong. Authentication is part of the inspection that
  follows; the transport is stopped and the project keeps its name; one bank window,
  so that an awaited scroll position counts as reached once anything of it is observed
  and the barrier of a navigation may open earlier than the code's (an execution never
  relies on its staying closed: navigation has revoked the binding); the inspection from which the plan is made is atomic; `execute` for a request that is
  known returns the same promise and is left out, as are the relay's limit of 256
  pending calls, the sharing of one observation between callers, and the retention of
  reports.

### SongGraph, SongStore, MidiTake, SongEditing

* A song is a record of tracks, clips and notes with their ids. A function of
  `packages/core` that may throw is an operator whose value is the set of its results,
  empty when it throws; `Outcomes` folds a batch over such sets, so that a batch is
  applied whole or not at all. `SongSound` is what `deserializeSong` accepts. The edits
  validate what the code validates and no more: `updateClipPattern` looks at every note
  and not at the song, and only deletions, restorations and resizing end in
  `deserializeSong` (`Normalized`). An empty batch is refused (`commands/src/index.ts:454`).
* Every handler of the store is synchronous and is one action; a handler that only sets
  `lastError` or a message changes nothing that is modelled and is no step. `addTrack`
  without a song dispatches twice (`AddFirstTrack`): two edits and two writes, of which
  the second may fail. `Stored` is a write that succeeds or is refused, for whatever
  reason. The text prompt calls these same handlers.
* `makeId` gives an id that nothing on the page has; `NewClips` and the like take the
  first of a pool, because which one it is makes no difference. A pool that is empty is a
  bound of the model: what needs an id is then not done, and `TakeFits` asks only for
  takes whose notes still find ids.
* `Names` are the ids there are, and `Song`, `Track`, `Clip`, `Note` the types a song is
  made of. Numbers are unrestricted in the types, because the code lets commands carry
  any number and refuses it when the edit is made.
* `shown.sel` is the selection of the command state, which undo brings back;
  `selected` is the page's own. `Target` is `resolveEditableClip`, which looks for the
  selected clip in every track, `FirstOr` the step editor's choice, which does not.
* `live` is the part of the performance that the store and the recorder read: the phase,
  the clips that play and the recording slot. Its other half is `PerformanceRuntime`.
* A take counts beats from the start of its loop, and its phase follows from the last
  beat observed. `ObserveTake` is the effect that runs after a render, so that edits,
  stops and keys may come before it; `CaptureInput` is a key. Both may cross the start or
  the end of the loop. `FinishTake` is the whole of `finishTake`, its batch included.
* `take`, `preview` and `agent` carry the revision the code remembers and, for the
  properties only, the song of that moment.
* Left out: names, colours, instruments, velocities, audio assets, exports, the song
  title; several keys or MIDI sources held at once; other tabs that write to the same
  storage.

`SongHistory` is the abstract specification: a line of songs and a place in it. The
mapping puts the undo stack before the shown song and the redo stack after it.

## 3. Runs

Every run is exhaustive for its constants. Properties that belong together are one
definition, the conjunction of named parts.

| Run | Instance | States | Shows |
|---|---|---|---|
| `plan_store` | 2 clients, 3 objects of 2 planIds, 1 token, capacity 1 of both maps, clock to 2 | 304,309 | `SingleGrant`, `PinsExclusive` (`PinsMatchCalls`, `OneCallPerPlan`), `ConfirmationsSound` (`ConfirmationKnown`, `UsedMeansClaimed`), `EvidenceSafe` (`NoDetachedCall`, `EvidenceRetained`), `ReservationHolds`, `ImplementsLifecycle`, `GrantResolves`, `TypeOK` |
| `pairing` | 2 clients, 3 tokens, quota 1, registry of 2 | 793,604 | `QuotaAccounted`, `OperationsReturn`, `TypeOK` |
| `proxy` | 2 sockets, 3 calls, map of 2 | 292,498 | `SessionExact` (`OpenIsActive`, `PendingUnsettled`, `PendingOnActive`), `CallsSettle`, `TypeOK` |
| `execution` | 2 plans, one playing, 2 records, 2 sockets, 1 edit, 1 reload | 1,157,396 | `ExecutionSound` (`VerdictsHonest`, `AppliesWithinOneLoad`), `ExecutionEnds`, `TypeOK` |
| `execution_stale` | 1 plan, 2 sockets, 2 edits, 1 reload | violated | see 5 |
| `jam` | 2 sessions, 2 pitches, 1 held note, 3 calls, 3 revocations | 1,185,608 | `SoundAccounted` (`SilentWhenOff`, `HeldSounds`), `ArmedAfterPanic`, `DisarmSilences`, `JamTypeOK` |
| `live_engine` | 2 tracks, 2 callers, 4 materials, beats to 3, a callback up to 1 late | 42,244 | `SourcesExact` (`HandoverExact`, `VoicesOwned`), `TransitionsResolve`, `EngineTypeOK` |
| `live_performance` | 2 tracks, 1 clip each, 2 materials, 2 gestures, 1 edit, 1 session, beats to 2 | 384,469 | `RuntimeAgrees` (`OwnershipAgrees`, `SceneTogether`, `Drained`), `EditsReplaced`, `RequestsAnswered`, `TypeOK` |
| `performance_second_session` | 1 track, 3 gestures, 2 edits, 2 sessions | violated | see 5 |
| `bitwig_execution` | 1 plan, 2 slots, 2 polls, 3 events | 696,107 | `ConfirmedTargetOnly`, `VerdictSound` (`ReportsHonest`, `SucceedsOnExactClip`), `ExecutionsEnd`, `TypeOK` |
| `browser_audio` | preview, song, 2 live sessions, Remote Jam; 3 materials, queue of 2, 2 edits, beats to 2 | 62,552 | `HolderExact` (`TransportOwned`, `LatestWish`), `HoldersSettle`, `TypeOK` |
| `song_editing` | a saved song of 2 clips and 1 note, a file whose tracks share their ids, 6 batches, 3 slots, takes of 1 note, 2 edits, 3 revisions | 715,422 | `SongsSound`, `StatusHonest`, `RecorderSound` (`SlotOwned`, `TakeFits`), `DeferredOnBase`, `ImplementsHistory` |

### Bounds

These are bounds of the model and not of the code, all of them in guards: `MaxTime`
(clocks), `MaxSongs` and `MaxReloads` (edits and reloads), `MaxQueue` (calls of the jam
consumer in progress; preview operations that wait), `MaxGeneration` (no further disarm
is called beyond it), `MaxBeat` (the transport is not advanced beyond it), `MaxRequests`,
`MaxEdits` and `MaxSessions` (gestures, edits and sessions of the live page), `MaxRev`
(edits while the holders compete), `MaxEdits` and `MaxRevision` of the song page (edits
that can be undone, revisions of one page load), `MaxTakeRevision` (takes are queued up to
it), `MaxTakeNotes`, `MaxOpen` (a note form, a take, a file and an agent's snapshot are
open one at a time; the player goes on editing meanwhile), the reload on a `Storable` song
only (a page that opens on any other is a start with that song) and `MaxEvents` (what the player, other tools, timers
and the connection do to a Bitwig execution, all together). `Late` is an assumption on
the browser, that a callback is at most so many beats late. `Attempts`, `IdCapacity`,
`MaxNotes`, `MaxPending` and the capacities are the code's own limits, made small.

Why they suffice. Plan store: a race needs two claims, and the
interleavings of two calls meet every pair of awaits; what a third caller could add,
`SingleGrant`, `PinsExclusive`, `EvidenceSafe`, `ConfirmationsSound` and
`ReservationHolds`, is proved for any number of them (section 4), as are the safety
properties of pairing, proxy, both executions, the engine, its lease, the live performance,
the consumer and the song page for instances of any size; for these the bounds matter to liveness only. The TTLs (plan 2, confirmation 1, report 1, clock 2) order
every expiry before, at and after the others. One planId with two objects is where the
pins could go wrong, two planIds with one slot is where capacity could. Pairing: the second operation queues behind the
first, finds the quota of 1 used, and gets it back when the first fails; three tokens
are one more than the registry holds. Proxy: two sockets give an old and a new
session; three calls over two places give one call too many. Execution: two plans
compete for the page, the one that waits for audio included; one reload separates the
page the plan was made on from the page that answers. Jam: with three calls one is
being dispatched, one is queued in the old generation and a disarm comes behind both;
three revocations allow a session, its end, a second session and a fault in it; the
frames reach the note limit, a gap, a duplicate and a foreign session. Engine: two
tracks make a batch that can be committed in half, two callers overlap one preparation
with another and with everything that outdates it, three beats are an active source, its
successor and a late callback. Performance: two gestures are a launch and what replaces
it, or two halves of a scene; one edit falls before, during or after every one of
them. Bitwig: three events are, for example, a selection, its return, and a lost answer; one
slot is the confirmed one, the other the wrong one. Audio: two live sessions are one whose unlock
still hangs and its successor; two edits fall before and after the wait for audio. Songs: three
revisions are a song, a change while something is prepared on it, and its application,
or an edit, its undo and the next edit; a quantization of the saved note, which starts
late in its clip, would push it over the end; the imported file has the ambiguous ids.

### Deadlock

It is checked in the plan store, pairing and jam runs. Elsewhere the system, or what its
bounds leave of it, stops legitimately: every socket used and the server closed
(`proxy`), every plan done and the edits used up (the execution runs and
`bitwig_execution`), the engine disposed (`live_engine`), the last beat
reached or the session closed (`live_performance`, `performance_second_session`,
`browser_audio`), all revisions used (`song_editing`). What must not stop early there is stated by `CallsSettle`,
`ExecutionEnds`, `ExecutionsEnd`, `TransitionsResolve`, `RequestsAnswered` and
`HoldersSettle`.

### Fairness

* Plan store and pairing: `WF(Continue(c))`. A suspended call resumes: hash, policy
  and audit promises settle, and the adapter call is raced against
  `adapterExecutionTimeoutMs`. New calls and the clock owe nothing.
* Proxy: `WF(CallFails(r))`. The timer set with each call fires unless the call is
  settled first. The browser owes nothing, sockets owe no close event.
* Execution: the same, and `WF(Adapter(p))`: a settled promise resumes the code that
  awaits it. Player and page owe nothing; in particular the audio gesture may never
  come.
* Jam: `WF(Queue)`. A port call settles (the Bitwig client answers or rejects after
  `BITWIG_RESPONSE_TIMEOUT_MS`, `index.ts:19`; the port's RPC is passed in by the caller) and
  the task that awaits it resumes. Nobody has to call, and the host owes no effect.
* Live engine: a running transport advances and calls back (`Tick`, `Boundary`,
  `TransportStop`: Tone's clock), and a preparation is answered or rejected. Suspend and
  all other calls owe nothing.
* Live performance: the same, and microtasks run; the launcher closes after the
  transport has stopped (`CloseIdle`, an effect of its next render). The conditions for the drain
  loop are weak fairness written out: its steps are enabled exactly in the states
  named. No gesture, edit or unlock has to come.
* Bitwig: the relay delivers (`HandleRequest`), an answer that is there arrives
  (`ReplyArrives`), a connection comes back (`Connect`), and Bitwig carries out what it
  has accepted, notices it and flushes. No timer is fair: a call ends because it is
  answered or because the connection broke and rejected it.
* Audio: `acquire` fails or its holder goes on, materials are prepared or refused. An unlock is
  never assumed to return, because browsers keep it until a gesture; nobody
  has to play, stop or close. A hanging unlock keeps the lease and, for the preview,
  its queue: `HoldersSettle` says that nothing else does.
* Song page: none; nobody has to edit, and a take ends by an effect of the next render.

## 4. What is proved

Each theorem is about `Spec` (`EngineSpec` of the engine alone, `JamSpec` of the Remote Jam
consumer) and holds for all values of the constants that satisfy the assumptions of its
module. The constants of a `.cfg` are one choice of them.

| Module | Theorems (what they prove of `Spec`) |
|---|---|
| `GatewayPlanStore_proofs` | `TypeCorrect`; `GrantedOnce` (`SingleGrant`); `PinsExact` (`PinsExclusive`); `EvidenceKept` (`EvidenceSafe`); `ConfirmationsKnown` (`ConfirmationsSound`); `ReservationsHonoured` (`ReservationHolds`); `OutcomesFinal`; `LifecycleRefined` (the safety part of `ImplementsLifecycle`) |
| `PairingAuthority_proofs` | `TypeCorrect`; `QuotaExact` (`QuotaAccounted`) |
| `Connections_proofs` | of the proxy: `TypeCorrect`; `SessionStaysExact` (`SessionExact`); of the consumer: `JamTyped` (`JamTypeOK`); `SoundKnown` (`SoundAccounted`); `PanicsFirst` (`ArmedAfterPanic`) |
| `NanoDawExecution_proofs` | `TypeCorrect`; `VerdictsAreHonest` (`VerdictsHonest`); `ExecutionIsSound` (`ExecutionSound`, with one page) |
| `BitwigExecution_proofs` | `TypeCorrect`; `WritesTheConfirmedTarget` (`ConfirmedTargetOnly`); `VerdictsAreSound` (`VerdictSound`) |
| `SongEditing_proofs` | `SongsStaySound` (`SongsSound`); `StatusIsHonest` (`StatusHonest`); `SlotStaysOwned` (`SlotOwned`); `RecorderStaysSound` (`RecorderSound`); `DeferredEditsSound` (`DeferredOnBase`); `HistoryRefined` (`ImplementsHistory`) |
| `LiveAudio_proofs` | of the engine: `EngineTyped` (`EngineTypeOK`); `EngineExact` (`SourcesExact`); of the lease: `HolderTyped` (`TypeOK` of `BrowserAudio`); `HolderOwned` (`HolderExact`) |
| `LivePerformance_proofs` | `PerformanceTyped` (`TypeOK`); in the first session, while ids are left: `Agreement` (`RuntimeAgrees`), `Replacement` (`EditsReplaced`) |

Almost none of these properties is inductive. Each module states the inductive
invariant first, then which steps can disturb which part of it (`StepCases` splits
`Next` along the methods of the code), then one lemma for each part, with one case per
step. The strengthenings are the interesting half; they say what the code relies on and
never checks.

### Plan store

* `CallsBound`: a call in progress refers to an object that was built.
* `ClaimState`: while the policy is awaited the pinned plan stays pending; while a
  claim is audited the plan is consumed and not granted. So a rollback puts back
  exactly what the claim found.
* `GrantState`: a granted plan is not pending, and one call owns its outcome. This is
  what makes the second claim's check fail, hence `SingleGrant`.
* `LookupLive`: `consumeExecution` holds its object unpinned while the token is
  hashed. If cleanup took it, it had expired or was executed, so the checks that
  follow must refuse it. Together with `ConfirmationWindow` (a confirmation
  expires no later than its plan) this gives `NoDetachedCall`.
* `ClaimToken`: a token that is made belongs to the plan and is not used; one that
  is redeemed is the plan's own as long as it lasts; during a claim no other token
  of the plan is used. It yields `ConfirmationKnown` and `UsedMeansClaimed`.

The capacities need three more facts (`CInv`): a planId has one object in the map and
none while it is being created, what is not stored was not granted, and the sets whose
sizes are compared are finite. An entry that is stored replaces its own reservation, so
the sum does not grow. With `IInv` and `CInv` every step maps to a step of
`PlanLifecycle` or to none: a claim is invisible until it is granted, so that its
rollback is a stutter.

### Pairing authority

Mutual exclusion is not a variable of the code; it is the promise chain of
`#withRecordLock`. `QueueHeld` states it: an operation stands in its token's queue, and
one in a locked phase is the head. A revocation carries the time of its call, which is
not in the future (`RevocationDated`); a token being issued is reserved by one call
(`IssueReserved`). So the count of a token is the authorizations that returned plus the
one in progress: the refund of a failed authorization can only meet its own claim.

### Proxy

Every handler decides by comparing a socket with `#activeSession`. `SessionExact` is
inductive with little help: frames are calls', and without a session nothing is
awaited (`NoSessionNoCalls`), so that a new session starts with an empty map.

### Execution in NanoDAW

The argument follows the one batch of a plan. `BatchTold`: until the page decides, the
batch is in one place, on its way down one socket or waiting for its audio on one page;
then it was not applied and nothing answers it; every answer on its way up, and the
value of a settled call, says what was done. `PhaseExact`: the adapter sends it after the
inspection and reads back after its answer. `ReportFinal`: a report other than partial
comes when the batch was never sent or has its answer. This gives `VerdictsHonest` for
any number of pages.

`AppliesWithinOneLoad` needs one page (`OnePage`, a hypothesis of `ExecutionIsSound`; the
run has it too). It says that the player keeps one tab, which nothing in the code
enforces. With two pages that take turns at the gateway the property is false: their
revisions are not comparable, which is the finding of section 5 without a reload.

### Execution in Bitwig

Two arguments. `Stale`: a binding that the controller still accepts (its instance and
generation are the present ones) is one whose slot has been the target ever since; each
callback that moves the target makes the generation greater, each reload the instance.
`WroteExact` follows: every write went to the confirmed slot. `Progress`, `WireExact` and
`HostExact` count the writes at each place of the adapter: those made, at most one on the
wire, and the order in which Bitwig has yet to carry them out. While the note is
due, no clip in the slot holds it (`NoteAbsent`); hence a readback that sees the plan's own
note knows that everything was done (`ReadExact`), however late the answers and
callbacks come.

### Song page

* History (`IInv`). `Based`: work that was prepared remembers a revision that is not
  ahead of the page, and while it is the page's, the song is the one it was prepared
  on. `LastTakeOnTop` says the same of the last take and the top of the undo
  stack. These hold whatever a command does to a song: the proof treats it as arbitrary
  (`HistoryTyped`). They yield `DeferredOnBase` and the steps of `SongHistory`.
* Songs (`SInv`). One lemma for each command and for each function of the core below it:
  from a song that `deserializeSong` accepts it leads to another one, or throws. Batches
  are `Outcomes`, a recursive function over the prefix; its invariant needs an induction,
  which `SetInduction` gives: the set of lengths at which the claim fails would have a
  least member. `Kept` is treated in the same way. `StatusHonest` is part of `SInv`.
* Recorder (`LInv`, `FInv`). What an edit may do to the recording slot is keep it or
  empty it (`SlotAtMost`); only a queued take fills it. `Landing`: the song on which
  a take was queued has its clip (overdub) or its empty slot (record). `TakeCommits`
  follows the commands of `finishTake` through that song: the notes of a take lie
  within the loop, get distinct new ids, and so the batch is accepted.

### Live audio

Engine and lease share one layer of lemmas: for each operator of `LiveEngineState`, what
it keeps of a `Good` engine and what else it changes. A step of `LiveAudioEngine` is one
of these operators; a step of `BrowserAudio` is a composition of two or three.

* `SourceSound`: a source that plays has begun, and is cut exactly where the pending
  source of its track begins (it goes on when there is none); a pending source is not cut,
  and one that stops has no material. `HandoverExact` follows beat by beat.
* `JobSound`, `JobsApart`: a batch in preparation has its tracks to itself, in the batch
  and against the other batches, and nothing is pending on them. The code checks this
  when the batch is accepted and not again when it is committed, after any number of
  awaits; the lemmas show that no call that comes between breaks it.
* `KeptOnce`: the voices of the port are those of active sources, pending sources and
  batches, each in one place. `VoicesOwned` is the same without the difference of active
  and pending. `Waits`: what a batch awaits is a launch, so an answer always has its
  request.
* `Unlocking`: at most one unlock is fresh, and only while the audio is locked; a running
  transport is unlocked. So a late unlock cannot make a running engine "ready".
* `Owner` (lease): who is not idle holds the lease (`Standing`); the transport runs only
  for a holder that plays, an engine that is not running has no source, no scheduled stop
  and is at beat 0, and a stop is scheduled only for a launcher (`Sounding`); a fresh
  unlock or batch is the holder's, awaited where its code stands, and no batch at all is
  in flight while an unlock is awaited (`Phased`). `OnlyHolder` is the step on which the
  rest depends: without a holder, or with one that has just taken the lease or is Remote
  Jam, the engine is `AtRest`. The code relies on it when a new holder resets
  or initializes the engine that it was given.
* `SongWish`, `PreviewWish`: a batch on its way was projected from a revision below
  the bound; the last operation in the queue is the last one asked for, and the player
  works only on a play at its head. They yield `LatestWish`.

### Live performance

Two modules own one truth: the runtime knows what was asked for, the engine what is
scheduled. A task changes one of them and then calls the reconciliation in the same stack,
so each step is a composition, and each lemma is about one of its parts.

* `Weakly` is what runtime and engine share before the reconciliation: what the runtime
  holds as scheduled is in the engine, as the same transition; the runtime may have
  forgotten something that the engine still has. `Agreed` is what they share after it: nothing
  is pending in the engine that the runtime does not hold as scheduled. With `Sound` (an
  entry names its track, its ids are reserved, a scene has one status and one target) it
  gives `OwnershipAgrees` and `SceneTogether`, but for the clips that play (`Audible`).
* `UnitSound` is what the drain loop still knows of a unit it found some tasks ago: its
  shape, and that no member of its scene is outside of it or was scheduled by anybody else.
  `BatchOf` ties the engine's batch in preparation to the head unit. So when a preparation
  comes back and the unit still matches, marking it and committing the batch schedule the
  same transitions on both sides; when it does not match, the cancellation takes back
  exactly what was committed.
* `Covered`: once the loop has looked, and unless it is dirty or failed, each open transition
  is in one of its units, and what is scheduled has the material of the song as it is now;
  `BatchCurrent` says the same of the batch. When the loop has ended no units are left,
  which is `Drained`.
* `RefreshNumbered`, `FirstSession`: the ids of refreshes that are reserved were counted by
  this controller, so the next one is new. This is the only reason why the reducer
  accepts a refresh, and the reconciliation then does not throw.

`PerformanceTyped` needs no hypothesis. `Agreement` and `Replacement` have two.
`MaxSessions <= 1`: in a second session `RefreshNumbered` is false, and `EditsReplaced` with it
(section 5). `[]IdsLeft`: the runtime has reserved fewer ids than its capacity, which is 4,096
in the code (`performanceRuntime.ts:98`). At the capacity the reducer refuses the refresh,
the reconciliation throws in the middle, and TLC violates both properties; the code does
not promise more, it says that it "fails closed" and that reset is the only cleanup
(`performanceRuntime.ts:94`). The run satisfies both: it has one
session, and room for 40 ids, which two gestures and one edit do not use up.

### Remote Jam

* `StepOfHead`: the await belongs to the task at the head, and a note that is being
  dispatched was not held and had room.
* `OlderBeforeDisarm`: no task is of a later generation than the consumer, and a task
  with a disarm queued behind it is of an older one. This is why `arm` may compare
  generations instead of looking at the queue: an unrevoked task has no disarm behind
  it, and a disarm before it has run by the time it is the head. It yields
  `ArmedAfterPanic`.
* `Revoked`: a dispatch that outlives its session has a disarm queued behind it, and a
  fail-safe panic is covered by the fault or by a disarm.
* `Sounds`: what the host plays beyond the held notes is the note being dispatched.

The lemmas follow the queue first (`QueueStep`: a step leaves it alone, appends a call or
settles its head), then each conjunct.

### Assumptions

Capacities, quotas and TTLs are positive where the constructors demand it; ids that stand
for "none" are none of the things they stand beside (`NoneAssumption`,
`NoTakeAssumption`, and the like in `ExecutionAssumption` of Bitwig, where a view, a set of
notes and "none" share variables). `StoreAssumption` of the page asks that the saved
and imported songs are accepted by `deserializeSong`, which the store calls on both, that
batches are lists of commands, and that `makeId` never repeats itself (the pools are
injective). Nothing is assumed of a batch's effect, of a form's numbers or of a take's
keys. The live audio asks that there is a track, that tracks and callers are told apart,
that materials and tracks are finite, and that "none" is no source and no batch; the live
performance, that the page begins with a song of the type, that somebody calls the
engine, and that "none" is no clip, id, transition or stop either. The bounds of section 3
are constants, and the theorems hold for any of them, `MaxSessions` excepted as said above.

The proofs corrected the specification twice. An empty batch was applied as a batch without effect and
gave a new history entry; `StatusIsHonest` could not be proved, and the code turned out to
refuse it. And `TakeFits` held in the run by the size of its pools; stated for any of
them it needs the condition on the ids that are left.

### Only model-checked

Everything that must eventually happen: `GrantResolves` and the fairness part of
`ImplementsLifecycle`, `OperationsReturn`, `CallsSettle`, `ExecutionEnds`,
`ExecutionsEnd`, `DisarmSilences`, `TransitionsResolve`, `RequestsAnswered`,
`HoldersSettle`. Liveness under fairness needs `ENABLED`, which the prover does not have.

## 5. Findings

`execution_stale` is violated. The page's command state starts with revision 0
whenever the page is loaded (`apps/playground/src/store.ts:598`), and both preflight and
commit compare revision numbers only. A plan made while the page showed revision *n* is
therefore accepted again by a reloaded page whose player has reached revision *n* with
another song, as long as the plan has not expired.
`docs/GEMMA-MOBILE-VERTICAL-SLICE.md:164-166` says that a revision change requires a
fresh plan and fresh confirmation. `execution` shows that without a reload the
comparison is enough (`AppliesWithinOneLoad`), and that even with one reports are true:
the plan is applied to the song that the execution inspected (`VerdictsHonest`).

`performance_second_session` is violated. The controller numbers the transitions by
which an edit replaces a playing loop with a counter that starts at 1 in every controller
(`liveAudioController.ts:62` and `628`). The runtime keeps the ids of a session that was
stopped normally (`performanceRuntime.ts:504-527`) and refuses them later (`1307-1311`);
only an emergency stop resets it (`browserAudioRuntime.ts:107-117`). In the next session the
first edit of a playing loop throws instead of replacing it, and the loop goes on with
its old material, where `docs/NANODAW_LIVE_AUDIO_ENGINE.md:62-63` says that it is
replaced at its next boundary, and `docs/ADR-003-PROCESS-LIFETIME-RETENTION.md:61` that a new
performance session clears the registry of ids. `live_performance` shows the same property for one session.

## 6. Not modelled

* `createCommandRuntime` and `preflight` replay: no product code creates a command
  runtime; the batch itself is part of `NanoDawExecution`.
* The MCP review inbox: a view of the plan store; its reservations are those of
  `ReservationHolds`.
* Dual-target runs: two independent plans, nothing ties them after their creation.
* The local sink of Remote Jam: its calls are synchronous and its one timer is outdated
  by `leaseEpoch`; the browser peer: WebRTC plumbing over an external signalling service.
* The other requests of the Bitwig controller (mixer, devices, scenes, automation): one
  call of the Bitwig API each, with no state of the script's own.
* MIDI files and exports, schemas: sequential functions over data. Web MIDI itself, and
  the note form of a song whose tracks share ids, which nothing documents.
  The LiteRT loop, UI, scripts and listening tools: an external model, rendering, offline
  use.
* Restart of the gateway: it persists nothing, so a restart is `Init`.

## 7. Plan

The model is complete as far as the sections above say, and each safety property that a
passing run checks is a theorem. What would come next are the parts that section 6 and
`PROJECT.json` list as not modelled, the other requests of the Bitwig controller first.

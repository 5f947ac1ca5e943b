-------------------------- MODULE NanoDawExecution --------------------------
(***************************************************************************)
(* The execution of plans in the browser: NanoDawAdapter of                *)
(* packages/adapters/nanodaw calls the page through the WebSocket proxy    *)
(* (BrowserProxy), and the page of apps/playground answers from its store, *)
(* through the audio port that serializes batches.                         *)
(*                                                                         *)
(* A song is a number: 0 is "no song", and each change makes a new one.    *)
(* The revision is the page's own counter and starts again when the page   *)
(* is loaded again; the saved song survives in the browser's storage.      *)
(***************************************************************************)
EXTENDS Naturals, FiniteSets

CONSTANTS Plans,
          Playing,        \* plans whose batch leaves the transport playing
          Pages, PageOf,  \* browser tabs, and the tab that opens each socket
          Sockets, NoSocket, MaxPending,
          NoResult,
          Capacity,       \* of the adapter's execution records
          MaxSongs,       \* bound on local edits
          MaxReloads      \* bound on page loads

ASSUME ExecutionAssumption ==
    /\ NoSocket \notin Sockets
    /\ MaxPending \in Nat \ {0}
    /\ Playing \subseteq Plans
    /\ PageOf \in [Sockets -> Pages]
    /\ Capacity \in Nat \ {0}
    /\ MaxSongs \in Nat /\ MaxReloads \in Nat

VARIABLES
    attached, active, srv, brw, down, up, pending, promise, result, sentOn,
    rev, song,          \* per page: the command state
    saved,              \* the autosaved song
    preparing,          \* per page: the batch whose audio is being prepared
    songs, reloads,     \* songs ever made, pages ever reloaded
    phase,              \* per plan: the adapter's execution of it
    planned,            \* the snapshot the plan was made from
    initial,            \* the snapshot its execution started from
    report,
    applied             \* history: the songs a plan was applied to

Steps == {"inspect", "batch", "readback"}
Kinds == {"snapshot", "applied", "refused"}
(* from is what the deterministic projection of the batch started with.    *)
PageResults == [kind : Kinds, rev : Nat, song : Nat, from : Nat]

Proxy == INSTANCE BrowserProxy
            WITH Rpcs <- Plans \X Steps,
                 Mutating <- Plans \X {"batch"},
                 Results <- PageResults

proxyVars == <<attached, active, srv, brw, down, up, pending, promise, result, sentOn>>
pageVars == <<rev, song, saved, preparing, songs, reloads>>
adapterVars == <<phase, planned, initial, report>>
vars == <<proxyVars, pageVars, adapterVars, applied>>

NoSnapshot == [rev |-> 0, song |-> 0]
Snapshot(pg) == [rev |-> rev[pg], song |-> song[pg]]
SnapshotOf(x) == [rev |-> x.rev, song |-> x.song]
Idle == <<NoSocket, NoResult>>

Init ==
    /\ Proxy!Init
    /\ rev = [pg \in Pages |-> 0]
    /\ song = [pg \in Pages |-> 0]
    /\ saved = 0
    /\ preparing = [pg \in Pages |-> Idle]
    /\ songs = 0 /\ reloads = 0
    /\ phase = [p \in Plans |-> "new"]
    /\ planned = [p \in Plans |-> NoSnapshot]
    /\ initial = [p \in Plans |-> NoSnapshot]
    /\ report = [p \in Plans |-> "none"]
    /\ applied = [p \in Plans |-> {}]

-----------------------------------------------------------------------------
(* The player at the page.                                                 *)

(* A new song is shown under the next revision, and autosaved.             *)
Show(pg, new) ==
    /\ rev' = [rev EXCEPT ![pg] = @ + 1]
    /\ song' = [song EXCEPT ![pg] = new]
    /\ saved' = new

LocalEdit(pg) ==
    /\ songs < MaxSongs
    /\ songs' = songs + 1
    /\ Show(pg, songs + 1)
    /\ UNCHANGED <<proxyVars, preparing, reloads, adapterVars, applied>>

(* Loading the song that is shown already would only raise the revision.   *)
LoadSavedSong(pg) ==
    /\ saved # 0
    /\ song[pg] # saved
    /\ Show(pg, saved)
    /\ UNCHANGED <<proxyVars, preparing, songs, reloads, adapterVars, applied>>

LiveSockets(pg) == {s \in Sockets : PageOf[s] = pg /\ brw[s] = "live"}

(* The page goes away with its sockets, its song and its audio.            *)
Reload(pg) ==
    /\ reloads < MaxReloads
    /\ reloads' = reloads + 1
    /\ rev' = [rev EXCEPT ![pg] = 0]
    /\ song' = [song EXCEPT ![pg] = 0]
    /\ preparing' = [preparing EXCEPT ![pg] = Idle]
    /\ brw' = [s \in Sockets |-> IF s \in LiveSockets(pg) THEN "gone" ELSE brw[s]]
    /\ down' = [s \in Sockets |-> IF s \in LiveSockets(pg) THEN {} ELSE down[s]]
    /\ UNCHANGED <<attached, active, srv, up, pending, promise, result, sentOn,
                   saved, songs, adapterVars, applied>>

(* Sockets are alike: a page opens one that was not used yet.              *)
NextSocket(pg) == CHOOSE s \in Sockets : PageOf[s] = pg /\ srv[s] = "unused"

(* Agent mode connects once; it reconnects only after it has disconnected. *)
Connect(s) ==
    /\ LiveSockets(PageOf[s]) = {}
    /\ Proxy!BrowserConnects(s)
    /\ s = NextSocket(PageOf[s])
    /\ UNCHANGED <<pageVars, adapterVars, applied>>

Disconnect(s) ==
    /\ Proxy!BrowserGone(s)
    /\ UNCHANGED <<pageVars, adapterVars, applied>>

-----------------------------------------------------------------------------
(* respondToGateway and the audio port.                                    *)

Reply(s, r, kind, value) ==
    up' = IF brw[s] = "live"
          THEN [up EXCEPT ![s] = @ \cup {[rpc |-> r, kind |-> kind, value |-> value]}]
          ELSE up

ReplySnapshot(s, r, kind) ==
    Reply(s, r, "result", [kind |-> kind, rev |-> rev[PageOf[s]],
                           song |-> song[PageOf[s]], from |-> song[PageOf[s]]])

Take(s, r) == r \in down[s] /\ down' = [down EXCEPT ![s] = @ \ {r}]

PageInspects(s, r) ==
    /\ r[2] # "batch"
    /\ Take(s, r)
    /\ ReplySnapshot(s, r, "snapshot")
    /\ UNCHANGED <<attached, active, srv, brw, pending, promise, result, sentOn,
                   pageVars, adapterVars, applied>>

(* Mutant: the page applies what the adapter has checked before.           *)
CurrentBefore(pg, p) == rev[pg] >= planned[p].rev

Current(pg, p) == rev[pg] = planned[p].rev

(* One batch at a time: the port throws while it prepares another one.     *)
PageBusy(s, r) ==
    /\ r[2] = "batch"
    /\ preparing[PageOf[s]] # Idle
    /\ Take(s, r)
    /\ Reply(s, r, "error", NoResult)
    /\ UNCHANGED <<attached, active, srv, brw, pending, promise, result, sentOn,
                   pageVars, adapterVars, applied>>

(* The projection fails: a stale revision, or a command that is not valid. *)
PageRefuses(s, r) ==
    /\ r[2] = "batch"
    /\ preparing[PageOf[s]] = Idle
    /\ Take(s, r)
    /\ ReplySnapshot(s, r, "refused")
    /\ UNCHANGED <<attached, active, srv, brw, pending, promise, result, sentOn,
                   pageVars, adapterVars, applied>>

(* The store commits the batch.  What follows may throw all the same, when *)
(* the audio is started or stopped, and then the answer is an error.       *)
Commit(s, r) ==
    LET pg == PageOf[s]
    IN  /\ Current(pg, r[1])
        /\ songs' = songs + 1
        /\ Show(pg, songs + 1)
        /\ applied' = [applied EXCEPT ![r[1]] = @ \cup {song[pg]}]
        /\ \/ Reply(s, r, "error", NoResult)
           \/ Reply(s, r, "result", [kind |-> "applied", rev |-> rev[pg] + 1,
                                     song |-> songs + 1, from |-> song[pg]])

PageApplies(s, r) ==
    /\ r[2] = "batch" /\ r[1] \notin Playing
    /\ preparing[PageOf[s]] = Idle
    /\ Take(s, r)
    /\ Commit(s, r)
    /\ UNCHANGED <<attached, active, srv, brw, pending, promise, result, sentOn,
                   preparing, reloads, adapterVars>>

PagePrepares(s, r) ==
    /\ r[2] = "batch" /\ r[1] \in Playing
    /\ preparing[PageOf[s]] = Idle
    /\ Current(PageOf[s], r[1])
    /\ Take(s, r)
    /\ preparing' = [preparing EXCEPT ![PageOf[s]] = <<s, r>>]
    /\ UNCHANGED <<attached, active, srv, brw, up, pending, promise, result, sentOn,
                   rev, song, saved, songs, reloads, adapterVars, applied>>

(* The store checks the revision again after the audio was prepared.       *)
PreparedApplies(pg) ==
    /\ preparing[pg] # Idle
    /\ Commit(preparing[pg][1], preparing[pg][2])
    /\ preparing' = [preparing EXCEPT ![pg] = Idle]
    /\ UNCHANGED <<attached, active, srv, brw, down, pending, promise, result, sentOn,
                   reloads, adapterVars>>

(* No audio, cancelled, or refused by the store after all.                 *)
PreparedFails(pg) ==
    LET s == preparing[pg][1]
        r == preparing[pg][2]
    IN  /\ preparing[pg] # Idle
        /\ Reply(s, r, "error", NoResult) \/ ReplySnapshot(s, r, "refused")
        /\ preparing' = [preparing EXCEPT ![pg] = Idle]
        /\ UNCHANGED <<attached, active, srv, brw, down, pending, promise, result,
                       sentOn, rev, song, saved, songs, reloads, adapterVars, applied>>

-----------------------------------------------------------------------------
(* NanoDawAdapter.                                                         *)

(* The call that the execution of a plan awaits.                           *)
Executing == Steps \cup {"refusing"}
Rpc(p) == <<p, IF phase[p] = "refusing" THEN "inspect" ELSE phase[p]>>

Resolved(p) == promise[Rpc(p)] = "resolved"

(* Mutant: the adapter handles only the errors of the connection.          *)
RejectedByConnection(p) == promise[Rpc(p)] \in {"unknown", "unavailable"}

Rejected(p) == promise[Rpc(p)] \in Proxy!Settled \ {"resolved"}
Value(p) == result[Rpc(p)]

(* The gateway turns to its next event when no awaiting code can resume.   *)
Quiet == \A p \in Plans : phase[p] \in Executing => ~Resolved(p) /\ ~Rejected(p)

(* A plan is made from an inspection of the connected page.                *)
Prepare(p) ==
    /\ Quiet
    /\ phase[p] = "new"
    /\ active # NoSocket /\ srv[active] = "open" /\ brw[active] = "live"
    /\ planned' = [planned EXCEPT ![p] = Snapshot(PageOf[active])]
    /\ phase' = [phase EXCEPT ![p] = "planned"]
    /\ UNCHANGED <<proxyVars, pageVars, initial, report, applied>>

Goto(p, step) == phase' = [phase EXCEPT ![p] = step]

Ends(p, status) ==
    /\ Goto(p, "done")
    /\ report' = [report EXCEPT ![p] = status]

(* Idempotency records; a terminal one goes when it is old, so it may or   *)
(* may not be there any more. Other requests have records as well.         *)
Records == {p \in Plans : phase[p] \in Steps \cup {"done"}}
Terminal == {p \in Plans : report[p] \in {"failed", "succeeded"}}

Execute(p) ==
    /\ Quiet
    /\ phase[p] = "planned"
    /\ Cardinality(Records \ Terminal) < Capacity
    /\ Proxy!Call(<<p, "inspect">>)
    /\ Goto(p, "inspect")
    /\ UNCHANGED <<pageVars, planned, initial, report, applied>>

(* #retentionRejected: with the records of other requests there is no room *)
(* to reserve this one, so nothing will be dispatched, and the inspection  *)
(* only decorates the report.                                              *)
ExecuteRefused(p) ==
    /\ Quiet
    /\ phase[p] = "planned"
    /\ Proxy!Call(<<p, "inspect">>)
    /\ Goto(p, "refusing")
    /\ UNCHANGED <<pageVars, planned, initial, report, applied>>

RefusalReported(p) ==
    /\ phase[p] = "refusing"
    /\ Resolved(p) \/ Rejected(p)
    /\ Goto(p, "rejected")
    /\ report' = [report EXCEPT ![p] = "failed"]
    /\ UNCHANGED <<proxyVars, pageVars, planned, initial, applied>>

(* Stale, expired, or without a scope: nothing is dispatched.              *)
PreflightFails(p) ==
    /\ phase[p] = "inspect"
    /\ Resolved(p)
    /\ initial' = [initial EXCEPT ![p] = SnapshotOf(Value(p))]
    /\ Ends(p, "failed")
    /\ UNCHANGED <<proxyVars, pageVars, planned, applied>>

DispatchBatch(p) ==
    /\ phase[p] = "inspect"
    /\ Resolved(p)
    /\ Value(p).rev = planned[p].rev
    /\ initial' = [initial EXCEPT ![p] = SnapshotOf(Value(p))]
    /\ Proxy!Call(<<p, "batch">>)
    /\ Goto(p, "batch")
    /\ UNCHANGED <<pageVars, planned, report, applied>>

(* Mutant: the error code of the port becomes the status of the report.    *)
ErrorCode(p) == promise[Rpc(p)]

(* execute throws if it could not inspect; once a batch is dispatched      *)
(* every rejection leaves the outcome open.                                *)
AfterRejection(p) == IF phase[p] = "inspect" THEN "thrown" ELSE "partial"

PortFails(p) ==
    /\ phase[p] \in Steps
    /\ Rejected(p)
    /\ Ends(p, AfterRejection(p))
    /\ UNCHANGED <<proxyVars, pageVars, planned, initial, applied>>

ReadBack(p) ==
    /\ phase[p] = "batch"
    /\ Resolved(p)
    /\ Proxy!Call(<<p, "readback">>)
    /\ Goto(p, "readback")
    /\ UNCHANGED <<pageVars, planned, initial, report, applied>>

(* validateSuccessfulBatch. *)
Consistent(p, batch) ==
    /\ batch.rev = planned[p].rev + 1
    /\ batch.from = initial[p].song

Verdict(p, batch, now) ==
    CASE batch.kind = "applied" /\ Consistent(p, batch) /\ now = SnapshotOf(batch) -> "succeeded"
      [] batch.kind = "refused" /\ now = SnapshotOf(batch) /\ now = initial[p] -> "failed"
      [] OTHER -> "partial"

Reported(p) ==
    /\ phase[p] = "readback"
    /\ Resolved(p)
    /\ Ends(p, Verdict(p, result[<<p, "batch">>], SnapshotOf(Value(p))))
    /\ UNCHANGED <<proxyVars, pageVars, planned, initial, applied>>

-----------------------------------------------------------------------------
Player == \E pg \in Pages : LocalEdit(pg) \/ LoadSavedSong(pg) \/ Reload(pg)

Page ==
    \/ \E s \in Sockets : Connect(s) \/ Disconnect(s)
    \/ \E s \in Sockets, r \in Plans \X Steps :
          PageInspects(s, r) \/ PageBusy(s, r) \/ PageRefuses(s, r)
            \/ PageApplies(s, r) \/ PagePrepares(s, r)
    \/ \E pg \in Pages : PreparedApplies(pg) \/ PreparedFails(pg)

ProxyServes ==
    /\ Quiet
    /\ \E s \in Sockets : Proxy!Serve(s)
    /\ UNCHANGED <<pageVars, adapterVars, applied>>

CallFails(r) ==
    /\ Quiet
    /\ Proxy!CallFails(r)
    /\ UNCHANGED <<pageVars, adapterVars, applied>>

Adapter(p) ==
    \/ PortFails(p) \/ PreflightFails(p) \/ DispatchBatch(p)
    \/ ReadBack(p) \/ Reported(p) \/ RefusalReported(p)

Next ==
    \/ Player \/ Page \/ ProxyServes
    \/ \E r \in Plans \X Steps : CallFails(r)
    \/ \E p \in Plans : Prepare(p) \/ Execute(p) \/ ExecuteRefused(p) \/ Adapter(p)

Spec == Init /\ [][Next]_vars

(* The timers of the proxy fire and promises resume their awaiting code;   *)
(* neither the player nor the page owes anything.                          *)
FairSpec ==
    /\ Spec
    /\ \A r \in Plans \X Steps : WF_vars(CallFails(r))
    /\ \A p \in Plans : WF_vars(Adapter(p))

-----------------------------------------------------------------------------
(* Properties.                                                             *)

(* Every variable of the page and the adapter keeps its type, and so does  *)
(* the proxy between them.                                                 *)
TypeOK ==
    /\ Proxy!TypeOK
    /\ rev \in [Pages -> Nat] /\ song \in [Pages -> 0 .. songs]
    /\ saved \in 0 .. songs
    /\ \A pg \in Pages :
          preparing[pg] = Idle \/ preparing[pg] \in Sockets \X (Plans \X {"batch"})
    /\ reloads \in 0 .. MaxReloads
    /\ phase \in [Plans -> Executing \cup {"new", "planned", "rejected", "done"}]
    /\ \A p \in Plans : planned[p].rev \in Nat /\ initial[p].rev \in Nat
    /\ report \in [Plans -> {"none", "succeeded", "failed", "partial", "thrown"}]
    /\ \A p \in Plans : applied[p] \subseteq 0 .. songs

(* The report is what happened.  A plan that was reported as failed, or     *)
(* whose execution threw before the dispatch, changed no song and never    *)
(* will: not by a late commit, not by a batch that was still waiting for   *)
(* audio, not after a reconnection.  A plan that was reported as succeeded *)
(* was applied, and to the very song that its execution had inspected,     *)
(* whatever the player and the network did between the inspection, the     *)
(* batch and the readback.                                                 *)
VerdictsHonest ==
    \A p \in Plans :
        /\ report[p] \in {"failed", "thrown"} => applied[p] = {}
        /\ report[p] = "succeeded" => applied[p] = {initial[p].song}

(* A plan is only ever applied to the song it was made from: any change in *)
(* between makes it stale.                                                 *)
AppliesOnPlanned == \A p \in Plans : applied[p] \subseteq {planned[p].song}

(* Within one life of the page, in which the revision never restarts, any  *)
(* edit between the plan and the commit makes the plan stale, also while   *)
(* its batch waits for the audio and after the gateway gave it up.         *)
AppliesWithinOneLoad == reloads = 0 => AppliesOnPlanned

(* Both: what is applied was planned, and what is reported was applied.    *)
ExecutionSound == VerdictsHonest /\ AppliesWithinOneLoad

(* An execution ends with a report or an error whatever the browser does.  *)
ExecutionEnds == \A p \in Plans : phase[p] \in Executing ~> phase[p] \in {"done", "rejected"}
=============================================================================

---------------------- MODULE NanoDawExecution_proofs ----------------------
(***************************************************************************)
(* Proofs about NanoDawExecution for any plans, pages, sockets and bounds. *)
(* The argument follows the one batch of a plan: until the page decides it *)
(* it is in one place, the page decides it once, and what the page answers *)
(* is what it did.                                                         *)
(***************************************************************************)
EXTENDS NanoDawExecution, FiniteSetTheorems, TLAPS

Rpcs == Plans \X Steps
Snapshots == [rev : Nat, song : Nat]

(* Types, the bound of the proxy's map apart. *)
ProxyTyped ==
    /\ attached \in BOOLEAN
    /\ active \in Sockets \cup {NoSocket}
    /\ srv \in [Sockets -> Proxy!ServerStates]
    /\ brw \in [Sockets -> Proxy!BrowserStates]
    /\ down \in [Sockets -> SUBSET Rpcs]
    /\ up \in [Sockets -> SUBSET Proxy!Answers]
    /\ pending \subseteq Rpcs
    /\ promise \in [Rpcs -> {"new", "pending"} \cup Proxy!Settled]
    /\ result \in [Rpcs -> PageResults \cup {NoResult}]
    /\ sentOn \in [Rpcs -> Sockets \cup {NoSocket}]

PageTyped ==
    /\ songs \in Nat
    /\ rev \in [Pages -> Nat] /\ song \in [Pages -> 0 .. songs]
    /\ saved \in 0 .. songs
    /\ preparing \in [Pages -> {Idle} \cup (Sockets \X (Plans \X {"batch"}))]
    /\ reloads \in 0 .. MaxReloads
    /\ applied \in [Plans -> SUBSET (0 .. songs)]

AdapterTyped ==
    /\ phase \in [Plans -> Executing \cup {"new", "planned", "rejected", "done"}]
    /\ planned \in [Plans -> Snapshots] /\ initial \in [Plans -> Snapshots]
    /\ report \in [Plans -> {"none", "succeeded", "failed", "partial", "thrown"}]

(* A call that resolves has a value of the page's.                         *)
Valued ==
    /\ \A s \in Sockets : \A a \in up[s] : a.kind = "result" => a.value \in PageResults
    /\ \A r \in Rpcs : promise[r] = "resolved" => result[r] \in PageResults

Typed == ProxyTyped /\ PageTyped /\ AdapterTyped /\ Valued

(* The map of pending calls: bounded, and without settled calls.           *)
PendingBounded == IsFiniteSet(pending) /\ Cardinality(pending) <= MaxPending
PendingUnsettled == \A r \in pending : promise[r] = "pending"

-----------------------------------------------------------------------------
Batch(p) == <<p, "batch">>

(* Where the batch of a plan can be while the page has not decided it: on  *)
(* its way down, or waiting for its audio.                                 *)
Down(p, s) == Batch(p) \in down[s]
Waits(p, pg) == \E s \in Sockets : preparing[pg] = <<s, Batch(p)>>
Held(p) == (\E s \in Sockets : Down(p, s)) \/ (\E pg \in Pages : Waits(p, pg))

HeldOnce(p) ==
    /\ \A s, t \in Sockets : Down(p, s) /\ Down(p, t) => s = t
    /\ \A s \in Sockets, pg \in Pages : ~(Down(p, s) /\ Waits(p, pg))
    /\ \A pg, qg \in Pages : Waits(p, pg) /\ Waits(p, qg) => pg = qg

Answers(p, s) == {a \in up[s] : a.rpc = Batch(p)}

(* What an answer says about the songs its plan was applied to.            *)
Told(p, x) ==
    /\ x.kind = "applied" => applied[p] = {x.from}
    /\ x.kind = "refused" => applied[p] = {}

(* A batch that was not sent yet, or that the page still holds, has had no *)
(* effect and has no answer; every answer is true.                         *)
BatchTold(p) ==
    /\ HeldOnce(p)
    /\ promise[Batch(p)] = "new" => ~Held(p)
    /\ Held(p) \/ promise[Batch(p)] = "new" =>
          /\ applied[p] = {}
          /\ promise[Batch(p)] # "resolved"
          /\ \A s \in Sockets : Answers(p, s) = {}
    /\ \A s \in Sockets : \A a \in Answers(p, s) : a.kind = "result" => Told(p, a.value)
    /\ promise[Batch(p)] = "resolved" => Told(p, result[Batch(p)])

(* The adapter sends the batch after the inspection and reads back after   *)
(* its answer; a report is the end.                                        *)
PhaseExact(p) ==
    /\ phase[p] \in {"new", "planned", "inspect", "refusing"} => promise[Batch(p)] = "new"
    /\ phase[p] = "readback" => promise[Batch(p)] = "resolved"
    /\ report[p] # "none" => phase[p] \in {"done", "rejected"}

(* Unless a report is partial, its batch was never sent or has its answer. *)
ReportFinal(p) ==
    /\ report[p] \in {"failed", "thrown"} =>
          promise[Batch(p)] \in {"new", "resolved"} /\ applied[p] = {}
    /\ report[p] = "succeeded" =>
          promise[Batch(p)] = "resolved" /\ applied[p] = {initial[p].song}

IInv ==
    /\ Typed /\ PendingBounded /\ PendingUnsettled
    /\ \A p \in Plans : BatchTold(p) /\ PhaseExact(p) /\ ReportFinal(p)

-----------------------------------------------------------------------------
(* The steps by the part of the system that takes them.                    *)

PlayerStep(pg) == LocalEdit(pg) \/ LoadSavedSong(pg) \/ Reload(pg)

SessionStep(s) ==
    /\ \/ Proxy!UpgradeAccepted(s) \/ Proxy!UpgradeRejected(s) \/ Proxy!SocketClosing(s)
       \/ Proxy!SocketFails(s) \/ Proxy!SocketClosed(s) \/ Proxy!ProtocolFailure(s)
    /\ UNCHANGED <<pageVars, adapterVars, applied>>

AnswerStep(s) == Proxy!AnswerAccepted(s) /\ UNCHANGED <<pageVars, adapterVars, applied>>

FrameStep(s, r) ==
    PageInspects(s, r) \/ PageBusy(s, r) \/ PageRefuses(s, r) \/ PageApplies(s, r) \/ PagePrepares(s, r)

PreparedStep(pg) == PreparedApplies(pg) \/ PreparedFails(pg)

CallStep(p) == Execute(p) \/ ExecuteRefused(p) \/ ReadBack(p) \/ DispatchBatch(p)

ReportStep(p) ==
    Prepare(p) \/ RefusalReported(p) \/ PreflightFails(p) \/ PortFails(p) \/ Reported(p)

(* Every step is one of these. *)
LEMMA StepCases ==
    ASSUME [Next]_vars
    PROVE  \/ \E pg \in Pages : PlayerStep(pg) \/ PreparedStep(pg)
           \/ \E s \in Sockets : Connect(s) \/ Disconnect(s) \/ SessionStep(s) \/ AnswerStep(s)
           \/ \E s \in Sockets, r \in Rpcs : FrameStep(s, r)
           \/ \E r \in Rpcs : CallFails(r)
           \/ \E p \in Plans : CallStep(p) \/ ReportStep(p)
           \/ UNCHANGED vars
<1>1. CASE Player \/ Page
  BY <1>1 DEF Player, Page, PlayerStep, PreparedStep, FrameStep, Rpcs
<1>2. CASE ProxyServes
  BY <1>2 DEF ProxyServes, Proxy!Serve, SessionStep, AnswerStep
<1>3. CASE \E p \in Plans : Prepare(p) \/ Execute(p) \/ ExecuteRefused(p) \/ Adapter(p)
  BY <1>3 DEF Adapter, CallStep, ReportStep
<1> QED
  BY <1>1, <1>2, <1>3 DEF Next, Rpcs

(* A batch call is the batch of its plan.                                  *)
LEMMA BatchRpc ==
    ASSUME NEW r \in Rpcs
    PROVE  /\ r[1] \in Plans
           /\ r[2] = "batch" => r = Batch(r[1]) /\ r \in Plans \X {"batch"}
           /\ r[2] # "batch" => \A p \in Plans : r # Batch(p)
BY DEF Rpcs, Batch, Steps

LEMMA RpcOfPlan ==
    ASSUME NEW p \in Plans
    PROVE  /\ Batch(p) \in Rpcs /\ <<p, "inspect">> \in Rpcs /\ <<p, "readback">> \in Rpcs
           /\ <<p, "inspect">> # Batch(p) /\ <<p, "readback">> # Batch(p)
           /\ \A q \in Plans : <<q, "inspect">> # Batch(p) /\ <<q, "readback">> # Batch(p)
           /\ \A q \in Plans : Batch(q) = Batch(p) => q = p
BY DEF Rpcs, Batch, Steps

-----------------------------------------------------------------------------
(* Types. *)

LEMMA SnapshotTyped ==
    ASSUME Typed, NEW pg \in Pages
    PROVE  /\ Snapshot(pg) \in Snapshots
           /\ \A kind \in Kinds :
                 [kind |-> kind, rev |-> rev[pg], song |-> song[pg], from |-> song[pg]] \in PageResults
BY DEF Typed, PageTyped, Snapshot, Snapshots, PageResults

LEMMA ReplyTyped ==
    ASSUME ProxyTyped, Valued, NEW s \in Sockets, NEW r \in Rpcs, NEW value,
           \/ Reply(s, r, "error", NoResult)
           \/ Reply(s, r, "result", value) /\ value \in PageResults
    PROVE  /\ up' \in [Sockets -> SUBSET Proxy!Answers]
           /\ \A t \in Sockets : \A a \in up'[t] : a.kind = "result" => a.value \in PageResults
<1>1. CASE Reply(s, r, "error", NoResult)
  <2>1. [rpc |-> r, kind |-> "error", value |-> NoResult] \in Proxy!Answers
    BY DEF Proxy!Answers, Rpcs
  <2> QED
    BY <1>1, <2>1 DEF Reply, ProxyTyped, Valued
<1>2. CASE Reply(s, r, "result", value) /\ value \in PageResults
  <2>1. [rpc |-> r, kind |-> "result", value |-> value] \in Proxy!Answers
    BY <1>2 DEF Proxy!Answers, Rpcs
  <2> QED
    BY <1>2, <2>1 DEF Reply, ProxyTyped, Valued
<1> QED
  BY <1>1, <1>2

LEMMA TakeTyped ==
    ASSUME ProxyTyped, NEW s \in Sockets, NEW r, Take(s, r)
    PROVE  r \in Rpcs /\ down' \in [Sockets -> SUBSET Rpcs]
BY DEF ProxyTyped, Take

LEMMA CommitTyped ==
    ASSUME Typed, NEW s \in Sockets, NEW r \in Rpcs, Commit(s, r)
    PROVE  /\ songs' \in Nat
           /\ rev' \in [Pages -> Nat] /\ song' \in [Pages -> 0 .. songs'] /\ saved' \in 0 .. songs'
           /\ applied' \in [Plans -> SUBSET (0 .. songs')]
           /\ up' \in [Sockets -> SUBSET Proxy!Answers]
           /\ \A t \in Sockets : \A a \in up'[t] : a.kind = "result" => a.value \in PageResults
<1> DEFINE pg == PageOf[s]
           value == [kind |-> "applied", rev |-> rev[pg] + 1, song |-> songs + 1, from |-> song[pg]]
<1>1. pg \in Pages /\ r[1] \in Plans
  BY BatchRpc, ExecutionAssumption
<1>2. value \in PageResults
  BY <1>1 DEF PageResults, Kinds, Typed, PageTyped
<1>3. /\ songs' \in Nat
      /\ rev' \in [Pages -> Nat] /\ song' \in [Pages -> 0 .. songs'] /\ saved' \in 0 .. songs'
  BY <1>1 DEF Commit, Show, Typed, PageTyped
<1>4. applied' \in [Plans -> SUBSET (0 .. songs')]
  BY <1>1 DEF Commit, Typed, PageTyped
<1>5. Reply(s, r, "error", NoResult) \/ Reply(s, r, "result", value)
  BY DEF Commit
<1> HIDE DEF value
<1> QED
  BY <1>2, <1>3, <1>4, <1>5, ReplyTyped DEF Typed

LEMMA PlayerTyped ==
    ASSUME Typed, NEW pg \in Pages, PlayerStep(pg)
    PROVE  Typed'
<1> USE DEF Typed, PageTyped
<1>1. CASE LocalEdit(pg)
  BY <1>1 DEF LocalEdit, Show, ProxyTyped, AdapterTyped, Valued, proxyVars, adapterVars
<1>2. CASE LoadSavedSong(pg)
  BY <1>2 DEF LoadSavedSong, Show, ProxyTyped, AdapterTyped, Valued, proxyVars, adapterVars
<1>3. CASE Reload(pg)
  <2>1. ProxyTyped' /\ Valued'
    BY <1>3 DEF Reload, ProxyTyped, Valued, Proxy!BrowserStates
  <2>2. PageTyped'
    BY <1>3, ExecutionAssumption DEF Reload, adapterVars
  <2>3. AdapterTyped'
    BY <1>3 DEF Reload, AdapterTyped, adapterVars
  <2> QED
    BY <2>1, <2>2, <2>3
<1> QED
  BY <1>1, <1>2, <1>3 DEF PlayerStep

LEMMA FrameTyped ==
    ASSUME Typed, NEW s \in Sockets, NEW r \in Rpcs, FrameStep(s, r)
    PROVE  Typed'
<1>1. PageOf[s] \in Pages
  BY ExecutionAssumption
<1>2. down' \in [Sockets -> SUBSET Rpcs]
  BY TakeTyped DEF FrameStep, PageInspects, PageBusy, PageRefuses, PageApplies, PagePrepares, Typed
<1>3. AdapterTyped'
  BY DEF FrameStep, PageInspects, PageBusy, PageRefuses, PageApplies, PagePrepares, adapterVars,
     Typed, AdapterTyped
<1>4. CASE PageInspects(s, r) \/ PageBusy(s, r) \/ PageRefuses(s, r)
  <2>1. \/ Reply(s, r, "error", NoResult)
        \/ \E kind \in Kinds : ReplySnapshot(s, r, kind)
    BY <1>4 DEF PageInspects, PageBusy, PageRefuses, Kinds
  <2>2. /\ up' \in [Sockets -> SUBSET Proxy!Answers]
        /\ \A t \in Sockets : \A a \in up'[t] : a.kind = "result" => a.value \in PageResults
    BY <1>1, <2>1, ReplyTyped, SnapshotTyped DEF ReplySnapshot, Typed
  <2>3. UNCHANGED <<attached, active, srv, brw, pending, promise, result, sentOn, pageVars, applied>>
    BY <1>4 DEF PageInspects, PageBusy, PageRefuses
  <2> QED
    BY <1>2, <1>3, <2>2, <2>3 DEF Typed, ProxyTyped, PageTyped, Valued, pageVars
<1>5. CASE PageApplies(s, r)
  <2>1. UNCHANGED <<attached, active, srv, brw, pending, promise, result, sentOn, preparing, reloads>>
    BY <1>5 DEF PageApplies
  <2> QED
    BY <1>2, <1>3, <1>5, <2>1, CommitTyped DEF PageApplies, Typed, ProxyTyped, PageTyped, Valued
<1>6. CASE PagePrepares(s, r)
  <2>1. UNCHANGED <<attached, active, srv, brw, up, pending, promise, result, sentOn, rev, song,
                    saved, songs, reloads, applied>>
    BY <1>6 DEF PagePrepares
  <2>2. preparing' \in [Pages -> {Idle} \cup (Sockets \X (Plans \X {"batch"}))]
    BY <1>1, <1>6, BatchRpc DEF PagePrepares, Typed, PageTyped
  <2> QED
    BY <1>2, <1>3, <2>1, <2>2 DEF Typed, ProxyTyped, PageTyped, Valued
<1> QED
  BY <1>4, <1>5, <1>6 DEF FrameStep

(* What waits for its audio is the batch of a plan.                        *)
LEMMA PreparingBatch ==
    ASSUME PageTyped, NEW pg \in Pages, preparing[pg] # Idle
    PROVE  \E s \in Sockets, p \in Plans : preparing[pg] = <<s, Batch(p)>>
BY DEF PageTyped, Batch

LEMMA PreparedTyped ==
    ASSUME Typed, NEW pg \in Pages, PreparedStep(pg)
    PROVE  Typed'
<1>1. PICK s \in Sockets, p \in Plans : preparing[pg] = <<s, Batch(p)>>
  BY PreparingBatch DEF PreparedStep, PreparedApplies, PreparedFails, Typed
<1>2. AdapterTyped'
  BY DEF PreparedStep, PreparedApplies, PreparedFails, adapterVars, Typed, AdapterTyped, ProxyTyped
<1>3. /\ preparing' \in [Pages -> {Idle} \cup (Sockets \X (Plans \X {"batch"}))]
      /\ UNCHANGED <<attached, active, srv, brw, down, pending, promise, result, sentOn, reloads>>
  BY DEF PreparedStep, PreparedApplies, PreparedFails, Typed, PageTyped
<1>4. CASE PreparedApplies(pg)
  <2>1. Commit(s, Batch(p))
    BY <1>1, <1>4 DEF PreparedApplies
  <2> QED
    BY <1>2, <1>3, <2>1, CommitTyped, RpcOfPlan DEF Typed, ProxyTyped, PageTyped, Valued
<1>5. CASE PreparedFails(pg)
  <2>1. Reply(s, Batch(p), "error", NoResult) \/ ReplySnapshot(s, Batch(p), "refused")
    BY <1>1, <1>5 DEF PreparedFails
  <2>2. PageOf[s] \in Pages
    BY ExecutionAssumption
  <2>3. /\ up' \in [Sockets -> SUBSET Proxy!Answers]
        /\ \A t \in Sockets : \A a \in up'[t] : a.kind = "result" => a.value \in PageResults
    BY <2>1, <2>2, ReplyTyped, RpcOfPlan, SnapshotTyped DEF ReplySnapshot, Typed, Kinds
  <2>4. UNCHANGED <<rev, song, saved, songs, applied>>
    BY <1>5 DEF PreparedFails
  <2> QED
    BY <1>2, <1>3, <2>3, <2>4 DEF Typed, ProxyTyped, PageTyped, Valued
<1> QED
  BY <1>4, <1>5 DEF PreparedStep

(* What the proxy does on its own settles pending calls, loses frames and  *)
(* makes no answer.                                                        *)
LEMMA SessionTyped ==
    ASSUME Typed, NEW s \in Sockets, Connect(s) \/ Disconnect(s) \/ SessionStep(s)
    PROVE  Typed'
<1> USE DEF Typed, ProxyTyped, Proxy!ServerStates, Proxy!BrowserStates, Proxy!Settled,
    Proxy!EntriesOnly, Proxy!Rejection, Proxy!sessionVars, Proxy!wireVars, Proxy!rpcVars, Rpcs
<1>1. PageTyped' /\ AdapterTyped'
  BY DEF Connect, Disconnect, SessionStep, pageVars, adapterVars, PageTyped, AdapterTyped
<1>2. CASE Connect(s) \/ Disconnect(s)
  BY <1>1, <1>2 DEF Connect, Disconnect, Valued, Proxy!BrowserConnects, Proxy!BrowserGone
<1>3. CASE Proxy!UpgradeAccepted(s) \/ Proxy!UpgradeRejected(s) \/ Proxy!SocketClosing(s)
  BY <1>1, <1>3 DEF Valued, Proxy!UpgradeAccepted, Proxy!UpgradeRejected, Proxy!SocketClosing
<1>4. CASE Proxy!SocketFails(s) \/ Proxy!SocketClosed(s)
  <2>1. ProxyTyped'
    <3>1. CASE Proxy!SocketFails(s)
      BY <3>1 DEF Proxy!SocketFails, Proxy!Disconnect
    <3>2. CASE Proxy!SocketClosed(s)
      BY <3>2 DEF Proxy!SocketClosed, Proxy!Disconnect
    <3> QED
      BY <1>4, <3>1, <3>2
  <2>2. Valued'
    BY <1>4 DEF Proxy!SocketFails, Proxy!SocketClosed, Proxy!Disconnect, Valued
  <2> QED
    BY <1>1, <2>1, <2>2
<1>5. CASE Proxy!ProtocolFailure(s)
  <2>1. ProxyTyped'
    BY <1>5 DEF Proxy!ProtocolFailure, Proxy!Awaited, Proxy!Disconnect
  <2>2. Valued'
    BY <1>5 DEF Proxy!ProtocolFailure, Proxy!Awaited, Proxy!Disconnect, Valued
  <2> QED
    BY <1>1, <2>1, <2>2
<1> QED
  BY <1>2, <1>3, <1>4, <1>5 DEF SessionStep

LEMMA AnswerTyped ==
    ASSUME Typed, NEW s \in Sockets, AnswerStep(s)
    PROVE  Typed'
<1> USE DEF AnswerStep, Proxy!AnswerAccepted, Proxy!Awaited, Proxy!RemoveEntry
<1>1. PageTyped' /\ AdapterTyped'
  BY DEF pageVars, adapterVars, Typed, PageTyped, AdapterTyped
<1>2. ProxyTyped'
  BY DEF Typed, ProxyTyped, Proxy!Answers, Proxy!Settled, Proxy!EntriesOnly, Proxy!sessionVars, Rpcs
<1>3. Valued'
  BY DEF Typed, ProxyTyped, Valued, Proxy!Answers, Rpcs
<1> QED
  BY <1>1, <1>2, <1>3 DEF Typed

(* A call that is made or refused has no value yet. *)
LEMMA CallTyped ==
    ASSUME ProxyTyped, Valued, NEW r \in Rpcs, Proxy!Call(r)
    PROVE  ProxyTyped' /\ Valued'
<1> USE DEF ProxyTyped, Valued, Proxy!Settled, Proxy!sessionVars, Proxy!wireVars
<1>1. CASE Proxy!CallSent(r)
  BY <1>1, ExecutionAssumption DEF Proxy!CallSent, Proxy!Callable
<1>2. CASE Proxy!CallRefused(r)
  BY <1>2 DEF Proxy!CallRefused
<1> QED
  BY <1>1, <1>2 DEF Proxy!Call

LEMMA CallFailsTyped ==
    ASSUME Typed, NEW r \in Rpcs, CallFails(r)
    PROVE  Typed'
<1>1. PageTyped' /\ AdapterTyped'
  BY DEF CallFails, pageVars, adapterVars, Typed, PageTyped, AdapterTyped
<1>2. ProxyTyped' /\ Valued'
  BY DEF CallFails, Proxy!CallFails, Proxy!RemoveEntry, Proxy!EntriesOnly, Proxy!Rejection,
     Proxy!sessionVars, Proxy!wireVars, Proxy!Settled, Typed, ProxyTyped, Valued, Rpcs
<1> QED
  BY <1>1, <1>2 DEF Typed

(* A verdict is one of three. *)
LEMMA VerdictCases ==
    ASSUME NEW p, NEW batch, NEW now
    PROVE  \/ /\ Verdict(p, batch, now) = "succeeded"
              /\ batch.kind = "applied" /\ batch.from = initial[p].song
           \/ Verdict(p, batch, now) = "failed" /\ batch.kind = "refused"
           \/ Verdict(p, batch, now) = "partial"
BY DEF Verdict, Consistent

LEMMA AdapterStepTyped ==
    ASSUME Typed, NEW p \in Plans, CallStep(p) \/ ReportStep(p)
    PROVE  Typed'
<1>1. PageTyped'
  BY DEF CallStep, ReportStep, Execute, ExecuteRefused, ReadBack, DispatchBatch, Prepare,
     RefusalReported, PreflightFails, PortFails, Reported, pageVars, Typed, PageTyped
<1>2. ProxyTyped' /\ Valued'
  <2>1. CASE CallStep(p)
    BY <2>1, CallTyped, RpcOfPlan
       DEF CallStep, Execute, ExecuteRefused, ReadBack, DispatchBatch, Batch, Typed
  <2>2. CASE ReportStep(p)
    BY <2>2 DEF ReportStep, Prepare, RefusalReported, PreflightFails, PortFails, Reported, Ends,
       proxyVars, Typed, ProxyTyped, Valued
  <2> QED
    BY <2>1, <2>2
<1>3. AdapterTyped'
  <2> USE DEF Typed, AdapterTyped, Goto, Ends, Executing, Steps
  <2>1. CASE Execute(p) \/ ExecuteRefused(p) \/ ReadBack(p) \/ RefusalReported(p)
    BY <2>1 DEF Execute, ExecuteRefused, ReadBack, RefusalReported
  <2>2. CASE PortFails(p)
    BY <2>2 DEF PortFails, AfterRejection
  <2>3. CASE PreflightFails(p) \/ DispatchBatch(p)
    <3>1. Value(p) \in PageResults
      BY <2>3 DEF PreflightFails, DispatchBatch, Resolved, Value, Rpc, Valued, Rpcs
    <3>2. SnapshotOf(Value(p)) \in Snapshots
      BY <3>1 DEF PageResults, SnapshotOf, Snapshots
    <3> QED
      BY <2>3, <3>2 DEF PreflightFails, DispatchBatch
  <2>4. CASE Prepare(p)
    <3>1. PageOf[active] \in Pages
      BY <2>4, ExecutionAssumption DEF Prepare, ProxyTyped
    <3>2. Snapshot(PageOf[active]) \in Snapshots
      BY <3>1, SnapshotTyped
    <3> QED
      BY <2>4, <3>2 DEF Prepare
  <2>5. CASE Reported(p)
    <3>1. Verdict(p, result[<<p, "batch">>], SnapshotOf(Value(p))) \in {"succeeded", "failed", "partial"}
      BY VerdictCases
    <3> QED
      BY <2>5, <3>1 DEF Reported
  <2> QED
    BY <2>1, <2>2, <2>3, <2>4, <2>5 DEF CallStep, ReportStep
<1> QED
  BY <1>1, <1>2, <1>3 DEF Typed

LEMMA TypedStep == Typed /\ [Next]_vars => Typed'
<1> SUFFICES ASSUME Typed, [Next]_vars PROVE Typed'
  OBVIOUS
<1>1. CASE UNCHANGED vars
  BY <1>1 DEF vars, proxyVars, pageVars, adapterVars, Typed, ProxyTyped, PageTyped, AdapterTyped, Valued
<1> QED
  BY <1>1, StepCases, PlayerTyped, PreparedTyped, SessionTyped, AnswerTyped, FrameTyped,
     CallFailsTyped, AdapterStepTyped

-----------------------------------------------------------------------------
(* The map of pending calls. *)

(* A call keeps what it came to; one that waits may come to something else *)
(* than an answer.                                                         *)
Settles(r) ==
    /\ promise'[r] = promise[r] \/ (promise[r] = "pending" /\ promise'[r] \notin {"new", "resolved"})
    /\ result'[r] = result[r]

FramesLost == \A t \in Sockets : down'[t] \subseteq down[t] /\ up'[t] \subseteq up[t]

(* A session that begins or ends, and a call that times out, settle calls  *)
(* and lose frames.                                                        *)
LEMMA SettleStep ==
    ASSUME Typed, PendingUnsettled,
           \/ \E s \in Sockets : Connect(s) \/ Disconnect(s) \/ SessionStep(s)
           \/ \E r \in Rpcs : CallFails(r)
    PROVE  /\ \A r \in Rpcs : Settles(r)
           /\ FramesLost
           /\ pending' \subseteq pending /\ PendingUnsettled'
<1> DEFINE Goal == /\ \A r \in Rpcs : Settles(r)
                   /\ FramesLost
                   /\ pending' \subseteq pending /\ PendingUnsettled'
<1> USE DEF Typed, ProxyTyped, PendingUnsettled, Settles, FramesLost, Rpcs,
    Proxy!Rejection, Proxy!RemoveEntry, Proxy!sessionVars, Proxy!wireVars, Proxy!rpcVars
<1>1. ASSUME NEW s \in Sockets, Connect(s) \/ Disconnect(s) PROVE Goal
  BY <1>1 DEF Connect, Disconnect, Proxy!BrowserConnects, Proxy!BrowserGone
<1>2. ASSUME NEW s \in Sockets, SessionStep(s) PROVE Goal
  <2>1. CASE Proxy!UpgradeAccepted(s) \/ Proxy!UpgradeRejected(s) \/ Proxy!SocketClosing(s)
    BY <2>1 DEF Proxy!UpgradeAccepted, Proxy!UpgradeRejected, Proxy!SocketClosing
  <2>2. CASE Proxy!SocketFails(s) \/ Proxy!SocketClosed(s)
    BY <2>2 DEF Proxy!SocketFails, Proxy!SocketClosed, Proxy!Disconnect
  <2>3. CASE Proxy!ProtocolFailure(s)
    BY <2>3 DEF Proxy!ProtocolFailure, Proxy!Awaited, Proxy!Disconnect
  <2> QED
    BY <1>2, <2>1, <2>2, <2>3 DEF SessionStep
<1>3. ASSUME NEW r \in Rpcs, CallFails(r) PROVE Goal
  BY <1>3 DEF CallFails, Proxy!CallFails
<1> QED
  BY <1>1, <1>2, <1>3

(* The instance of the proxy has the operators of FiniteSets under names   *)
(* of its own.                                                             *)
LEMMA SameCardinality == ASSUME NEW S PROVE Proxy!Cardinality(S) = Cardinality(S)
BY DEF Proxy!Cardinality, Cardinality

(* The call of a plan: sent, or refused without being sent.                *)
LEMMA CallEffect ==
    ASSUME Typed, PendingUnsettled, NEW r \in Rpcs, Proxy!Call(r)
    PROVE  /\ promise[r] = "new" /\ promise'[r] \notin {"new", "resolved"}
           /\ \A q \in Rpcs \ {r} : promise'[q] = promise[q]
           /\ result' = result /\ up' = up
           /\ \A t \in Sockets : down'[t] \subseteq down[t] \cup {r}
           /\ \A t, u \in Sockets : down'[t] # down[t] /\ down'[u] # down[u] => t = u
           /\ pending' = pending \/ (pending' = pending \cup {r} /\ Cardinality(pending) < MaxPending)
           /\ PendingUnsettled'
<1> USE DEF Typed, ProxyTyped, PendingUnsettled, Rpcs, Proxy!sessionVars, Proxy!wireVars
<1>1. CASE Proxy!CallSent(r)
  <2>1. active \in Sockets /\ down' \in {[down EXCEPT ![active] = @ \cup {r}], down}
    BY <1>1 DEF Proxy!CallSent, Proxy!Callable
  <2>2. /\ promise[r] = "new" /\ promise' = [promise EXCEPT ![r] = "pending"]
        /\ pending' = pending \cup {r} /\ Cardinality(pending) < MaxPending
        /\ result' = result /\ up' = up
    BY <1>1, SameCardinality, Zenon DEF Proxy!CallSent, Proxy!Callable
  <2>3. PendingUnsettled'
    BY <2>2
  <2> QED
    BY <2>1, <2>2, <2>3
<1>2. CASE Proxy!CallRefused(r)
  BY <1>2 DEF Proxy!CallRefused
<1> QED
  BY <1>1, <1>2 DEF Proxy!Call

(* An answer settles the call that it names.                               *)
LEMMA AnswerEffect ==
    ASSUME Typed, PendingUnsettled, NEW s \in Sockets, AnswerStep(s)
    PROVE  /\ \E a \in up[s] :
                 /\ \A r \in Rpcs \ {a.rpc} : Settles(r)
                 /\ promise'[a.rpc] = "resolved" =>
                       a.kind = "result" /\ result'[a.rpc] = a.value
                 /\ promise[a.rpc] = "pending" /\ promise'[a.rpc] # "new"
           /\ FramesLost
           /\ pending' \subseteq pending /\ PendingUnsettled'
<1>1. PICK a \in up[s] :
        /\ a.rpc \in pending
        /\ pending' = pending \ {a.rpc}
        /\ promise' = [promise EXCEPT ![a.rpc] = IF a.kind = "result" THEN "resolved" ELSE "remote_error"]
        /\ result' = [result EXCEPT ![a.rpc] = a.value]
        /\ up' = [up EXCEPT ![s] = @ \ {a}]
        /\ down' = down
  BY DEF AnswerStep, Proxy!AnswerAccepted, Proxy!Awaited, Proxy!RemoveEntry
<1>2. a.rpc \in Rpcs
  BY <1>1 DEF Typed, ProxyTyped
<1>3. PendingUnsettled' /\ FramesLost
  BY <1>1, <1>2 DEF Typed, ProxyTyped, PendingUnsettled, FramesLost
<1> QED
  BY <1>1, <1>2, <1>3 DEF Typed, ProxyTyped, PendingUnsettled, Settles

(* The page and the player leave the map alone.                            *)
LEMMA PageKeepsCalls ==
    ASSUME \/ \E pg \in Pages : PlayerStep(pg) \/ PreparedStep(pg)
           \/ \E s \in Sockets, r \in Rpcs : FrameStep(s, r)
    PROVE  UNCHANGED <<pending, promise, result, sentOn, adapterVars>>
BY DEF PlayerStep, LocalEdit, LoadSavedSong, Reload, PreparedStep, PreparedApplies, PreparedFails,
   FrameStep, PageInspects, PageBusy, PageRefuses, PageApplies, PagePrepares, proxyVars

(* The adapter makes a call or changes nothing in the proxy.               *)
LEMMA CallStepCalls ==
    ASSUME NEW p \in Plans, CallStep(p)
    PROVE  Proxy!Call(<<p, "inspect">>) \/ Proxy!Call(<<p, "readback">>)
              \/ (Proxy!Call(Batch(p)) /\ DispatchBatch(p))
BY DEF CallStep, Execute, ExecuteRefused, ReadBack, DispatchBatch, Batch

LEMMA ReportStepKeeps ==
    ASSUME NEW p \in Plans, ReportStep(p)
    PROVE  UNCHANGED <<proxyVars, pageVars, applied>>
BY DEF ReportStep, Prepare, RefusalReported, PreflightFails, PortFails, Reported

LEMMA PendingStep ==
    ASSUME Typed, PendingBounded, PendingUnsettled, [Next]_vars
    PROVE  PendingBounded' /\ PendingUnsettled'
<1>1. CASE pending' \subseteq pending /\ PendingUnsettled'
  BY <1>1, FS_Subset, FS_CardinalityType, ExecutionAssumption DEF PendingBounded
<1>2. ASSUME NEW p \in Plans, CallStep(p) PROVE PendingBounded' /\ PendingUnsettled'
  <2>1. PICK r \in Rpcs : Proxy!Call(r)
    BY <1>2, CallStepCalls, RpcOfPlan
  <2>2. CASE pending' = pending
    BY <1>1, <2>1, <2>2, CallEffect
  <2>3. CASE pending' = pending \cup {r} /\ Cardinality(pending) < MaxPending
    <3>1. r \notin pending
      BY <2>1, CallEffect DEF PendingUnsettled
    <3>2. IsFiniteSet(pending \cup {r}) /\ Cardinality(pending \cup {r}) = Cardinality(pending) + 1
      BY <3>1, FS_AddElement, Zenon DEF PendingBounded
    <3>3. IsFiniteSet(pending') /\ Cardinality(pending') = Cardinality(pending) + 1
      BY <2>3, <3>2, Zenon
    <3>4. Cardinality(pending) \in Nat
      BY FS_CardinalityType DEF PendingBounded
    <3> QED
      BY <2>1, <2>3, <3>3, <3>4, CallEffect, ExecutionAssumption DEF PendingBounded
  <2> QED
    BY <2>1, <2>2, <2>3, CallEffect
<1>3. CASE UNCHANGED <<pending, promise>>
  BY <1>1, <1>3 DEF PendingUnsettled
<1> QED
  BY <1>1, <1>2, <1>3, StepCases, SettleStep, AnswerEffect, PageKeepsCalls, ReportStepKeeps
     DEF vars, proxyVars

-----------------------------------------------------------------------------
(* The batch of a plan.  A step that concerns another call at most loses   *)
(* its frames or settles it; the page decides it once.                     *)

Recedes(p) ==
    /\ applied'[p] = applied[p]
    /\ Settles(Batch(p))
    /\ \A s \in Sockets : (Down(p, s)' => Down(p, s)) /\ Answers(p, s)' \subseteq Answers(p, s)
    /\ \A pg \in Pages : Waits(p, pg)' => Waits(p, pg)

LEMMA RecedesKeeps ==
    ASSUME NEW p \in Plans, BatchTold(p), Recedes(p)
    PROVE  BatchTold(p)'
<1>1. HeldOnce(p)' /\ (Held(p)' => Held(p))
  BY DEF BatchTold, HeldOnce, Held, Recedes
<1>2. promise'[Batch(p)] = "new" <=> promise[Batch(p)] = "new"
  BY DEF Recedes, Settles
<1>3. \A x : Told(p, x)' <=> Told(p, x)
  BY DEF Recedes, Told
<1> QED
  BY <1>1, <1>2, <1>3 DEF BatchTold, Recedes, Settles

Decided(p) ==
    /\ Held(p) /\ ~Held(p)'
    /\ UNCHANGED <<promise, result>>
    /\ \A s \in Sockets : \A a \in Answers(p, s)' :
          a \in Answers(p, s) \/ (a.kind = "result" => Told(p, a.value)')

LEMMA DecidedKeeps ==
    ASSUME NEW p \in Plans, BatchTold(p), Decided(p)
    PROVE  BatchTold(p)'
<1>1. HeldOnce(p)'
  BY DEF Decided, Held, HeldOnce
<1>2. promise[Batch(p)] \notin {"new", "resolved"} /\ \A s \in Sockets : Answers(p, s) = {}
  BY DEF BatchTold, Decided
<1> QED
  BY <1>1, <1>2 DEF BatchTold, Decided

LEMMA ReplyEffect ==
    ASSUME ProxyTyped, NEW s, NEW r, NEW kind, NEW value, Reply(s, r, kind, value)
    PROVE  \A t \in Sockets : \A a \in up'[t] :
              a \in up[t] \/ a = [rpc |-> r, kind |-> kind, value |-> value]
BY DEF Reply, ProxyTyped

(* What the page says of a batch that it has just committed is true.       *)
LEMMA CommitEffect ==
    ASSUME Typed, NEW s \in Sockets, NEW p \in Plans, Commit(s, Batch(p)), applied[p] = {}
    PROVE  /\ \A q \in Plans \ {p} : applied'[q] = applied[q]
           /\ \A t \in Sockets : \A a \in up'[t] :
                 a \in up[t] \/ (a.rpc = Batch(p) /\ (a.kind = "result" => Told(p, a.value)'))
<1>1. applied' = [applied EXCEPT ![p] = @ \cup {song[PageOf[s]]}]
  BY DEF Commit, Batch
<1>2. applied'[p] = {song[PageOf[s]]} /\ \A q \in Plans \ {p} : applied'[q] = applied[q]
  BY <1>1 DEF Typed, PageTyped
<1>3. CASE Reply(s, Batch(p), "error", NoResult)
  BY <1>2, <1>3, ReplyEffect DEF Typed
<1>4. ASSUME NEW x, x.kind = "applied", x.from = song[PageOf[s]], Reply(s, Batch(p), "result", x)
      PROVE  \A t \in Sockets : \A a \in up'[t] :
                a \in up[t] \/ (a.rpc = Batch(p) /\ (a.kind = "result" => Told(p, a.value)'))
  <2>1. Told(p, x)'
    BY <1>2, <1>4 DEF Told
  <2> QED
    BY <1>4, <2>1, ReplyEffect DEF Typed
<1> QED
  BY <1>2, <1>3, <1>4 DEF Commit

(* A refusal and an error tell of a batch that was not applied.            *)
LEMMA RefusalEffect ==
    ASSUME Typed, NEW s \in Sockets, NEW r \in Rpcs, NEW kind \in {"snapshot", "refused"},
           Reply(s, r, "error", NoResult) \/ ReplySnapshot(s, r, kind),
           NEW p \in Plans, applied'[p] = {}
    PROVE  \A t \in Sockets : \A a \in up'[t] :
              a \in up[t] \/ (a.rpc = r /\ (a.kind = "result" => Told(p, a.value)'))
<1>1. CASE Reply(s, r, "error", NoResult)
  BY <1>1, ReplyEffect DEF Typed
<1>2. ASSUME NEW x, x.kind = kind, Reply(s, r, "result", x)
      PROVE  \A t \in Sockets : \A a \in up'[t] :
                a \in up[t] \/ (a.rpc = r /\ (a.kind = "result" => Told(p, a.value)'))
  <2>1. Told(p, x)'
    BY <1>2 DEF Told
  <2> QED
    BY <1>2, <2>1, ReplyEffect DEF Typed
<1> QED
  BY <1>1, <1>2 DEF ReplySnapshot

(* The frame of a call does not concern the batches of other plans.        *)
LEMMA FrameOfOther ==
    ASSUME Typed, NEW s \in Sockets, NEW r \in Rpcs, FrameStep(s, r),
           NEW p \in Plans, Batch(p) # r, BatchTold(p)
    PROVE  Recedes(p)
<1>1. UNCHANGED <<promise, result>>
  BY PageKeepsCalls
<1>2. \A t \in Sockets : Down(p, t)' => Down(p, t)
  BY DEF FrameStep, PageInspects, PageBusy, PageRefuses, PageApplies, PagePrepares, Take, Down,
     Typed, ProxyTyped
<1>3. \A t \in Sockets : Answers(p, t)' \subseteq Answers(p, t)
  <2>1. CASE PagePrepares(s, r)
    BY <2>1 DEF PagePrepares, Answers
  <2>2. CASE ~PagePrepares(s, r)
    <3>1. \E kind, value : Reply(s, r, kind, value)
      BY <2>2 DEF FrameStep, PageInspects, PageBusy, PageRefuses, PageApplies, Commit, ReplySnapshot
    <3> QED
      BY <3>1, ReplyEffect DEF Answers, Typed
  <2> QED
    BY <2>1, <2>2
<1>4. \A pg \in Pages : Waits(p, pg)' => Waits(p, pg)
  <2>1. CASE PagePrepares(s, r)
    BY <2>1 DEF PagePrepares, Waits, Typed, PageTyped
  <2>2. CASE ~PagePrepares(s, r)
    BY <2>2 DEF FrameStep, PageInspects, PageBusy, PageRefuses, PageApplies, pageVars, Waits
  <2> QED
    BY <2>1, <2>2
<1>5. applied'[p] = applied[p]
  <2>1. CASE PageApplies(s, r)
    <3>1. r[1] # p
      BY <2>1, BatchRpc DEF PageApplies
    <3> QED
      BY <2>1, <3>1 DEF PageApplies, Commit, Typed, PageTyped
  <2>2. CASE ~PageApplies(s, r)
    BY <2>2 DEF FrameStep, PageInspects, PageBusy, PageRefuses, PagePrepares
  <2> QED
    BY <2>1, <2>2
<1> QED
  BY <1>1, <1>2, <1>3, <1>4, <1>5 DEF Recedes, Settles

(* The page takes the batch of a plan from the wire: it is nowhere else.   *)
LEMMA TakenBatch ==
    ASSUME Typed, NEW s \in Sockets, NEW p \in Plans, BatchTold(p), Take(s, Batch(p))
    PROVE  /\ Held(p) /\ \A t \in Sockets : ~Down(p, t)'
           /\ \A pg \in Pages : ~Waits(p, pg)
BY DEF Typed, ProxyTyped, Take, BatchTold, HeldOnce, Held, Down

LEMMA FrameOfBatch ==
    ASSUME Typed, NEW s \in Sockets, NEW p \in Plans, FrameStep(s, Batch(p)), BatchTold(p)
    PROVE  BatchTold(p)'
<1>1. Take(s, Batch(p)) /\ Batch(p)[2] = "batch" /\ Batch(p) \in Rpcs
  BY RpcOfPlan DEF FrameStep, PageInspects, PageBusy, PageRefuses, PageApplies, PagePrepares, Batch
<1>2. /\ Held(p) /\ \A t \in Sockets : ~Down(p, t)'
      /\ \A pg \in Pages : ~Waits(p, pg)
  BY <1>1, TakenBatch
<1>3. applied[p] = {}
  BY <1>2 DEF BatchTold
<1>4. UNCHANGED <<promise, result>>
  BY <1>1, PageKeepsCalls
<1>5. CASE PageBusy(s, Batch(p)) \/ PageRefuses(s, Batch(p))
  <2>1. applied' = applied /\ preparing' = preparing
    BY <1>5 DEF PageBusy, PageRefuses, pageVars
  <2>2. Reply(s, Batch(p), "error", NoResult) \/ ReplySnapshot(s, Batch(p), "refused")
    BY <1>5 DEF PageBusy, PageRefuses
  <2>3. \A t \in Sockets : \A a \in up'[t] :
           a \in up[t] \/ (a.rpc = Batch(p) /\ (a.kind = "result" => Told(p, a.value)'))
    BY <1>1, <1>3, <2>1, <2>2, RefusalEffect
  <2>4. Decided(p)
    BY <1>2, <1>4, <2>1, <2>3 DEF Decided, Held, Waits, Answers
  <2> QED
    BY <2>4, DecidedKeeps
<1>6. CASE PageApplies(s, Batch(p))
  <2>1. \A t \in Sockets : \A a \in up'[t] :
           a \in up[t] \/ (a.rpc = Batch(p) /\ (a.kind = "result" => Told(p, a.value)'))
    BY <1>3, <1>6, CommitEffect DEF PageApplies
  <2>2. Decided(p)
    BY <1>2, <1>4, <1>6, <2>1 DEF PageApplies, Decided, Held, Waits, Answers
  <2> QED
    BY <2>2, DecidedKeeps
<1>7. CASE PagePrepares(s, Batch(p))
  <2>1. \A pg \in Pages : Waits(p, pg)' => pg = PageOf[s]
    BY <1>2, <1>7 DEF PagePrepares, Waits, Typed, PageTyped
  <2>2. UNCHANGED <<up, applied>>
    BY <1>7 DEF PagePrepares
  <2>3. HeldOnce(p)'
    BY <1>2, <2>1 DEF HeldOnce
  <2> QED
    BY <1>2, <1>4, <2>2, <2>3 DEF BatchTold, Answers, Told
<1> QED
  BY <1>1, <1>5, <1>6, <1>7 DEF FrameStep, PageInspects

(* The same for a batch whose audio is ready, or will not be.              *)
LEMMA PreparedBatch ==
    ASSUME Typed, NEW pg \in Pages, PreparedStep(pg), \A p \in Plans : BatchTold(p)
    PROVE  \A p \in Plans : BatchTold(p)'
<1>1. PICK s \in Sockets, q \in Plans : preparing[pg] = <<s, Batch(q)>>
  BY PreparingBatch DEF PreparedStep, PreparedApplies, PreparedFails, Typed
<1>2. /\ preparing' = [preparing EXCEPT ![pg] = Idle]
      /\ UNCHANGED <<down, promise, result>>
  BY DEF PreparedStep, PreparedApplies, PreparedFails
<1>3. Waits(q, pg) /\ \A p \in Plans \ {q} : ~Waits(p, pg)
  BY <1>1 DEF Waits, Batch
<1>4. /\ \A p \in Plans, qg \in Pages : Waits(p, qg)' => Waits(p, qg) /\ qg # pg
      /\ \A p \in Plans, t \in Sockets : Down(p, t)' <=> Down(p, t)
  BY <1>2, ExecutionAssumption DEF Waits, Down, Idle, Typed, PageTyped
<1>5. Held(q) /\ ~Held(q)' /\ applied[q] = {}
  BY <1>3, <1>4 DEF BatchTold, HeldOnce, Held
<1>6. /\ \A p \in Plans \ {q} : applied'[p] = applied[p]
      /\ \A t \in Sockets : \A a \in up'[t] :
            a \in up[t] \/ (a.rpc = Batch(q) /\ (a.kind = "result" => Told(q, a.value)'))
  <2>1. CASE PreparedApplies(pg)
    <3>1. Commit(s, Batch(q))
      BY <1>1, <2>1 DEF PreparedApplies
    <3> QED
      BY <1>5, <3>1, CommitEffect
  <2>2. CASE PreparedFails(pg)
    <3>1. Reply(s, Batch(q), "error", NoResult) \/ ReplySnapshot(s, Batch(q), "refused")
      BY <1>1, <2>2 DEF PreparedFails
    <3>2. applied' = applied
      BY <2>2 DEF PreparedFails
    <3> QED
      BY <1>5, <3>1, <3>2, RefusalEffect, RpcOfPlan
  <2> QED
    BY <2>1, <2>2 DEF PreparedStep
<1>7. Decided(q)
  BY <1>2, <1>5, <1>6 DEF Decided, Answers
<1>8. \A p \in Plans \ {q} : Recedes(p)
  BY <1>2, <1>4, <1>6, RpcOfPlan DEF Recedes, Settles, Answers
<1> QED
  BY <1>7, <1>8, DecidedKeeps, RecedesKeeps

(* Sending a call that is new puts it on one wire at most.                 *)
LEMMA CallBatch ==
    ASSUME Typed, PendingUnsettled, NEW q \in Plans, CallStep(q),
           NEW p \in Plans, BatchTold(p)
    PROVE  BatchTold(p)'
<1>1. PICK r \in Rpcs : Proxy!Call(r)
  BY CallStepCalls, RpcOfPlan
<1>2. UNCHANGED <<pageVars, applied>>
  BY DEF CallStep, Execute, ExecuteRefused, ReadBack, DispatchBatch
<1>3. CASE r # Batch(p)
  <2>1. Settles(Batch(p))
    BY <1>1, <1>3, CallEffect, RpcOfPlan DEF Settles
  <2>2. /\ up' = up
        /\ \A t \in Sockets : down'[t] \subseteq down[t] \cup {r}
    BY <1>1, CallEffect
  <2>3. Recedes(p)
    BY <1>2, <1>3, <2>1, <2>2 DEF Recedes, Down, Waits, Answers, pageVars
  <2> QED
    BY <2>3, RecedesKeeps
<1>4. CASE r = Batch(p)
  <2>1. /\ promise[Batch(p)] = "new" /\ promise'[Batch(p)] \notin {"new", "resolved"}
        /\ up' = up
        /\ \A t, u \in Sockets : down'[t] # down[t] /\ down'[u] # down[u] => t = u
    BY <1>1, <1>4, CallEffect
  <2>2. /\ ~Held(p) /\ applied[p] = {}
        /\ \A t \in Sockets : Answers(p, t) = {}
    BY <2>1 DEF BatchTold
  <2>3. \A pg \in Pages : ~Waits(p, pg)'
    BY <1>2, <2>2 DEF Held, Waits, pageVars
  <2>4. HeldOnce(p)'
    BY <2>1, <2>2, <2>3 DEF HeldOnce, Held, Down
  <2> QED
    BY <1>2, <2>1, <2>2, <2>4 DEF BatchTold, Answers
<1> QED
  BY <1>3, <1>4

LEMMA AnswerBatch ==
    ASSUME Typed, PendingUnsettled, NEW s \in Sockets, AnswerStep(s),
           NEW p \in Plans, BatchTold(p)
    PROVE  BatchTold(p)'
<1>1. PICK a \in up[s] :
        /\ \A r \in Rpcs \ {a.rpc} : Settles(r)
        /\ promise'[a.rpc] = "resolved" => a.kind = "result" /\ result'[a.rpc] = a.value
        /\ promise[a.rpc] = "pending" /\ promise'[a.rpc] # "new"
  BY AnswerEffect
<1>2. UNCHANGED <<pageVars, applied>> /\ FramesLost
  BY AnswerEffect DEF AnswerStep
<1>3. /\ \A t \in Sockets : (Down(p, t)' => Down(p, t)) /\ Answers(p, t)' \subseteq Answers(p, t)
      /\ \A pg \in Pages : Waits(p, pg)' => Waits(p, pg)
  BY <1>2 DEF FramesLost, Down, Answers, Waits, pageVars
<1>4. CASE a.rpc # Batch(p)
  <2>1. Recedes(p)
    BY <1>1, <1>2, <1>3, <1>4, RpcOfPlan DEF Recedes
  <2> QED
    BY <2>1, RecedesKeeps
<1>5. CASE a.rpc = Batch(p)
  <2>1. a \in Answers(p, s) /\ ~Held(p)
    BY <1>5 DEF Answers, BatchTold
  <2>2. HeldOnce(p)' /\ ~Held(p)'
    BY <1>3, <2>1 DEF HeldOnce, Held, BatchTold
  <2>3. promise'[Batch(p)] # "new"
    BY <1>1, <1>5
  <2>4. \A x : Told(p, x)' <=> Told(p, x)
    BY <1>2 DEF Told
  <2>5. promise'[Batch(p)] = "resolved" => Told(p, result'[Batch(p)])
    BY <1>1, <1>5, <2>1 DEF BatchTold
  <2> QED
    BY <1>3, <2>2, <2>3, <2>4, <2>5 DEF BatchTold
<1> QED
  BY <1>4, <1>5

LEMMA BatchStep ==
    ASSUME Typed, PendingUnsettled, \A p \in Plans : BatchTold(p), [Next]_vars
    PROVE  \A p \in Plans : BatchTold(p)'
<1> USE DEF Recedes, Down, Waits, Answers, pageVars
<1>1. ASSUME NEW p \in Plans,
             \/ \E s \in Sockets : Connect(s) \/ Disconnect(s) \/ SessionStep(s)
             \/ \E r \in Rpcs : CallFails(r)
      PROVE  BatchTold(p)'
  <2>1. (\A r \in Rpcs : Settles(r)) /\ FramesLost
    BY <1>1, SettleStep
  <2>2. UNCHANGED <<pageVars, applied>>
    BY <1>1 DEF Connect, Disconnect, SessionStep, CallFails
  <2>3. Recedes(p)
    BY <2>1, <2>2, RpcOfPlan DEF FramesLost
  <2> QED
    BY <2>3, RecedesKeeps
<1>2. ASSUME NEW pg \in Pages, PlayerStep(pg), NEW p \in Plans PROVE BatchTold(p)'
  <2>1. /\ UNCHANGED <<up, promise, result, applied>>
        /\ \A s \in Sockets : down'[s] \subseteq down[s]
        /\ \A qg \in Pages : preparing'[qg] \in {Idle, preparing[qg]}
    BY <1>2 DEF PlayerStep, LocalEdit, LoadSavedSong, Reload, proxyVars, Typed, PageTyped, ProxyTyped
  <2>2. \A s \in Sockets : Idle # <<s, Batch(p)>>
    BY ExecutionAssumption DEF Idle
  <2>3. Recedes(p)
    BY <2>1, <2>2 DEF Settles
  <2> QED
    BY <2>3, RecedesKeeps
<1>3. ASSUME NEW s \in Sockets, NEW r \in Rpcs, FrameStep(s, r), NEW p \in Plans
      PROVE  BatchTold(p)'
  BY <1>3, FrameOfOther, FrameOfBatch, RecedesKeeps
<1>4. ASSUME UNCHANGED <<proxyVars, pageVars, applied>>, NEW p \in Plans PROVE BatchTold(p)'
  <2>1. Recedes(p)
    BY <1>4 DEF Settles, proxyVars
  <2> QED
    BY <2>1, RecedesKeeps
<1> QED
  BY <1>1, <1>2, <1>3, <1>4, StepCases, PreparedBatch, CallBatch, AnswerBatch, ReportStepKeeps
     DEF vars

-----------------------------------------------------------------------------
(* The adapter's view.  What is not the adapter's step for a plan neither  *)
(* changes its report nor, when the batch was not sent or has its answer,  *)
(* the songs it was applied to.                                            *)

Settled(p) == promise[Batch(p)] \in {"new", "resolved"}

ReportKept(p) ==
    /\ phase'[p] = phase[p] /\ report'[p] = report[p] /\ initial'[p] = initial[p]
    /\ Settled(p) => promise'[Batch(p)] = promise[Batch(p)] /\ applied'[p] = applied[p]

LEMMA ReportKeptKeeps ==
    ASSUME NEW p \in Plans, PhaseExact(p), ReportFinal(p), ReportKept(p)
    PROVE  PhaseExact(p)' /\ ReportFinal(p)'
BY DEF PhaseExact, ReportFinal, ReportKept, Settled

LEMMA SettledApplied ==
    ASSUME Typed, \A p \in Plans : BatchTold(p), NEW p \in Plans, Settled(p),
           \/ \E s \in Sockets, r \in Rpcs : FrameStep(s, r)
           \/ \E pg \in Pages : PreparedStep(pg)
    PROVE  applied'[p] = applied[p]
<1>1. ~Held(p)
  BY DEF Settled, BatchTold
<1>2. ASSUME NEW s \in Sockets, NEW r \in Rpcs, FrameStep(s, r) PROVE applied'[p] = applied[p]
  <2>1. CASE Batch(p) # r
    BY <1>2, <2>1, FrameOfOther DEF Recedes
  <2>2. CASE Batch(p) = r
    <3>1. Take(s, Batch(p))
      BY <1>2, <2>2 DEF FrameStep, PageInspects, PageBusy, PageRefuses, PageApplies, PagePrepares
    <3> QED
      BY <1>1, <3>1, TakenBatch
  <2> QED
    BY <2>1, <2>2
<1>3. ASSUME NEW pg \in Pages, PreparedApplies(pg) PROVE applied'[p] = applied[p]
  <2>1. PICK s \in Sockets, q \in Plans : preparing[pg] = <<s, Batch(q)>>
    BY <1>3, PreparingBatch DEF PreparedApplies, Typed
  <2>2. q # p
    BY <1>1, <2>1 DEF Held, Waits
  <2>3. applied' = [applied EXCEPT ![q] = @ \cup {song[PageOf[s]]}]
    BY <1>3, <2>1 DEF PreparedApplies, Commit, Batch
  <2> QED
    BY <2>2, <2>3 DEF Typed, PageTyped
<1>4. ASSUME NEW pg \in Pages, PreparedFails(pg) PROVE applied'[p] = applied[p]
  BY <1>4 DEF PreparedFails
<1> QED
  BY <1>2, <1>3, <1>4 DEF PreparedStep

(* The adapter's own steps for the plan. *)
LEMMA CallPhase ==
    ASSUME Typed, PendingUnsettled, NEW p \in Plans, CallStep(p), PhaseExact(p), ReportFinal(p)
    PROVE  PhaseExact(p)' /\ ReportFinal(p)'
<1>1. report' = report /\ applied' = applied
  BY DEF CallStep, Execute, ExecuteRefused, ReadBack, DispatchBatch
<1>2. report[p] = "none"
  BY DEF CallStep, Execute, ExecuteRefused, ReadBack, DispatchBatch, PhaseExact, Typed, AdapterTyped
<1>3. CASE Execute(p) \/ ExecuteRefused(p)
  <2>1. phase[p] = "planned" /\ phase'[p] \in {"inspect", "refusing"}
    BY <1>3 DEF Execute, ExecuteRefused, Goto, Typed, AdapterTyped
  <2>2. promise'[Batch(p)] = promise[Batch(p)]
    BY <1>3, CallEffect, RpcOfPlan DEF Execute, ExecuteRefused
  <2> QED
    BY <1>1, <1>2, <2>1, <2>2 DEF PhaseExact, ReportFinal
<1>4. CASE ReadBack(p)
  <2>1. /\ phase[p] = "batch" /\ phase'[p] = "readback"
        /\ promise[Batch(p)] = "resolved"
    BY <1>4 DEF ReadBack, Goto, Resolved, Rpc, Batch, Typed, AdapterTyped
  <2>2. promise'[Batch(p)] = promise[Batch(p)]
    BY <1>4, CallEffect, RpcOfPlan DEF ReadBack
  <2> QED
    BY <1>1, <1>2, <2>1, <2>2 DEF PhaseExact, ReportFinal
<1>5. CASE DispatchBatch(p)
  <2>1. phase'[p] = "batch"
    BY <1>5 DEF DispatchBatch, Goto, Typed, AdapterTyped
  <2> QED
    BY <1>1, <1>2, <2>1 DEF PhaseExact, ReportFinal
<1> QED
  BY <1>3, <1>4, <1>5 DEF CallStep

LEMMA ReportPhase ==
    ASSUME Typed, NEW p \in Plans, ReportStep(p), BatchTold(p), PhaseExact(p), ReportFinal(p)
    PROVE  PhaseExact(p)' /\ ReportFinal(p)'
<1>1. UNCHANGED <<promise, result, applied>>
  BY ReportStepKeeps DEF proxyVars
<1>2. report[p] = "none"
  BY DEF ReportStep, Prepare, RefusalReported, PreflightFails, PortFails, Reported, PhaseExact,
     Typed, AdapterTyped, Steps
<1> USE DEF Typed, AdapterTyped, PhaseExact, ReportFinal, Ends, Goto
<1>3. CASE Prepare(p)
  BY <1>1, <1>2, <1>3 DEF Prepare
<1>4. CASE RefusalReported(p) \/ PreflightFails(p)
  <2>1. promise[Batch(p)] = "new" /\ applied[p] = {}
    BY <1>4 DEF RefusalReported, PreflightFails, BatchTold
  <2> QED
    BY <1>1, <1>4, <2>1 DEF RefusalReported, PreflightFails
<1>5. CASE PortFails(p)
  <2>1. AfterRejection(p) = "thrown" => promise[Batch(p)] = "new" /\ applied[p] = {}
    BY <1>5 DEF AfterRejection, BatchTold
  <2>2. AfterRejection(p) \in {"thrown", "partial"}
    BY DEF AfterRejection
  <2> QED
    BY <1>1, <1>5, <2>1, <2>2 DEF PortFails
<1>6. CASE Reported(p)
  <2> DEFINE verdict == Verdict(p, result[<<p, "batch">>], SnapshotOf(Value(p)))
  <2>1. promise[Batch(p)] = "resolved" /\ Told(p, result[Batch(p)])
    BY <1>6 DEF Reported, BatchTold
  <2>2. /\ verdict \in {"succeeded", "failed", "partial"}
        /\ verdict = "succeeded" => applied[p] = {initial[p].song}
        /\ verdict = "failed" => applied[p] = {}
    BY <2>1, VerdictCases DEF Told, Batch
  <2>3. phase'[p] = "done" /\ report'[p] = verdict /\ initial' = initial
    BY <1>6 DEF Reported
  <2> HIDE DEF verdict
  <2> QED
    BY <1>1, <2>1, <2>2, <2>3
<1> QED
  BY <1>3, <1>4, <1>5, <1>6 DEF ReportStep

LEMMA PhaseStep ==
    ASSUME IInv, [Next]_vars, NEW p \in Plans
    PROVE  PhaseExact(p)' /\ ReportFinal(p)'
<1> USE DEF IInv
<1>1. CASE \/ \E s \in Sockets : Connect(s) \/ Disconnect(s) \/ SessionStep(s)
           \/ \E r \in Rpcs : CallFails(r)
  <2>1. Settles(Batch(p))
    BY <1>1, SettleStep, RpcOfPlan
  <2>2. UNCHANGED <<adapterVars, applied>>
    BY <1>1 DEF Connect, Disconnect, SessionStep, CallFails
  <2>3. ReportKept(p)
    BY <2>1, <2>2 DEF ReportKept, Settled, Settles, adapterVars
  <2> QED
    BY <2>3, ReportKeptKeeps
<1>2. ASSUME NEW s \in Sockets, AnswerStep(s) PROVE PhaseExact(p)' /\ ReportFinal(p)'
  <2>1. PICK a \in up[s] :
          (\A r \in Rpcs \ {a.rpc} : Settles(r)) /\ promise[a.rpc] = "pending"
    BY <1>2, AnswerEffect
  <2>2. Settled(p) => promise'[Batch(p)] = promise[Batch(p)]
    BY <2>1, RpcOfPlan DEF Settled, Settles
  <2>3. UNCHANGED <<adapterVars, applied>>
    BY <1>2 DEF AnswerStep
  <2>4. ReportKept(p)
    BY <2>2, <2>3 DEF ReportKept, adapterVars
  <2> QED
    BY <2>4, ReportKeptKeeps
<1>3. CASE \/ \E pg \in Pages : PlayerStep(pg) \/ PreparedStep(pg)
           \/ \E s \in Sockets, r \in Rpcs : FrameStep(s, r)
  <2>1. UNCHANGED <<promise, adapterVars>>
    BY <1>3, PageKeepsCalls
  <2>2. CASE \E pg \in Pages : PlayerStep(pg)
    <3>1. applied' = applied
      BY <2>2 DEF PlayerStep, LocalEdit, LoadSavedSong, Reload
    <3>2. ReportKept(p)
      BY <2>1, <3>1 DEF ReportKept, adapterVars
    <3> QED
      BY <3>2, ReportKeptKeeps
  <2>3. CASE \/ \E s \in Sockets, r \in Rpcs : FrameStep(s, r)
             \/ \E pg \in Pages : PreparedStep(pg)
    <3>1. ReportKept(p)
      BY <2>1, <2>3, SettledApplied DEF ReportKept, adapterVars
    <3> QED
      BY <3>1, ReportKeptKeeps
  <2> QED
    BY <1>3, <2>2, <2>3
<1>4. ASSUME NEW q \in Plans, CallStep(q) \/ ReportStep(q), q # p
      PROVE  PhaseExact(p)' /\ ReportFinal(p)'
  <2>1. phase'[p] = phase[p] /\ report'[p] = report[p] /\ initial'[p] = initial[p]
    BY <1>4 DEF CallStep, ReportStep, Execute, ExecuteRefused, ReadBack, DispatchBatch, Prepare,
       RefusalReported, PreflightFails, PortFails, Reported, Goto, Ends, Typed, AdapterTyped
  <2>2. applied' = applied
    BY <1>4, ReportStepKeeps DEF CallStep, Execute, ExecuteRefused, ReadBack, DispatchBatch
  <2>3. promise'[Batch(p)] = promise[Batch(p)]
    <3>1. CASE ReportStep(q)
      BY <3>1, ReportStepKeeps DEF proxyVars
    <3>2. CASE CallStep(q)
      <4>1. PICK r \in Rpcs : Proxy!Call(r) /\ r # Batch(p)
        BY <1>4, <3>2, CallStepCalls, RpcOfPlan
      <4> QED
        BY <4>1, CallEffect, RpcOfPlan
    <3> QED
      BY <1>4, <3>1, <3>2
  <2>4. ReportKept(p)
    BY <2>1, <2>2, <2>3 DEF ReportKept
  <2> QED
    BY <2>4, ReportKeptKeeps
<1>5. CASE UNCHANGED vars
  <2>1. ReportKept(p)
    BY <1>5 DEF ReportKept, vars, proxyVars, adapterVars
  <2> QED
    BY <2>1, ReportKeptKeeps
<1> QED
  BY <1>1, <1>2, <1>3, <1>4, <1>5, StepCases, CallPhase, ReportPhase

-----------------------------------------------------------------------------
LEMMA InitInv == Init => IInv
<1> SUFFICES ASSUME Init PROVE IInv
  OBVIOUS
<1> USE DEF Init, Proxy!Init, Rpcs
<1>1. ProxyTyped /\ Valued
  BY DEF ProxyTyped, Valued, Proxy!ServerStates, Proxy!BrowserStates, Proxy!Settled
<1>2. PageTyped /\ AdapterTyped
  BY ExecutionAssumption DEF PageTyped, AdapterTyped, NoSnapshot, Snapshots, Executing, Steps
<1>3. PendingBounded /\ PendingUnsettled
  BY FS_EmptySet, ExecutionAssumption DEF PendingBounded, PendingUnsettled
<1>4. ASSUME NEW p \in Plans PROVE BatchTold(p) /\ PhaseExact(p) /\ ReportFinal(p)
  <2>1. promise[Batch(p)] = "new" /\ report[p] = "none" /\ phase[p] = "new"
    BY RpcOfPlan
  <2>2. ~Held(p) /\ HeldOnce(p) /\ \A s \in Sockets : Answers(p, s) = {}
    BY ExecutionAssumption DEF Held, HeldOnce, Down, Waits, Answers, Idle
  <2> QED
    BY <2>1, <2>2 DEF BatchTold, PhaseExact, ReportFinal
<1> QED
  BY <1>1, <1>2, <1>3, <1>4 DEF IInv, Typed

LEMMA StepInv == IInv /\ [Next]_vars => IInv'
BY TypedStep, PendingStep, BatchStep, PhaseStep DEF IInv

(* The inductive invariant holds in every reachable state. *)
THEOREM Invariance == Spec => []IInv
BY InitInv, StepInv, PTL DEF Spec

(* The page, the adapter and the proxy between them keep their types, and  *)
(* the proxy's map of pending calls its bound.                             *)
THEOREM TypeCorrect == Spec => []TypeOK
<1>1. IInv => TypeOK
  <2> SUFFICES ASSUME IInv PROVE TypeOK
    OBVIOUS
  <2>1. Proxy!TypeOK
    BY SameCardinality DEF IInv, Typed, ProxyTyped, PendingBounded, Proxy!TypeOK, Rpcs
  <2> QED
    BY <2>1 DEF IInv, Typed, PageTyped, AdapterTyped, TypeOK, Snapshots
<1> QED
  BY <1>1, Invariance, PTL

(* What execute of the adapter reports is what became of the plan, for any *)
(* number of pages and plans: nothing was or will be applied when it says  *)
(* failed or throws, and the inspected song was when it says succeeded.    *)
THEOREM VerdictsAreHonest == Spec => []VerdictsHonest
<1>1. IInv => VerdictsHonest
  BY DEF IInv, ReportFinal, VerdictsHonest
<1> QED
  BY <1>1, Invariance, PTL

-----------------------------------------------------------------------------
(* The revision of a page that is not loaded again only grows, so that it  *)
(* identifies the song.                                                    *)

OnePage == \A pg, qg \in Pages : pg = qg

PlannedCurrent ==
    reloads = 0 =>
        \A p \in Plans, pg \in Pages :
            /\ planned[p].rev <= rev[pg]
            /\ planned[p].rev = rev[pg] => planned[p].song = song[pg]

LEMMA ShowKeepsPlanned ==
    ASSUME Typed, PlannedCurrent, NEW pg \in Pages, NEW new, Show(pg, new),
           planned' = planned, reloads' = reloads
    PROVE  PlannedCurrent'
BY DEF Typed, PageTyped, AdapterTyped, PlannedCurrent, Show, Snapshots

(* A commit compares the revisions, so it applies the plan to its song.    *)
LEMMA CommitPlanned ==
    ASSUME Typed, PlannedCurrent, AppliesWithinOneLoad, NEW s \in Sockets, NEW p \in Plans,
           Commit(s, Batch(p)), planned' = planned, reloads' = reloads
    PROVE  PlannedCurrent' /\ AppliesWithinOneLoad'
<1>1. PageOf[s] \in Pages
  BY ExecutionAssumption
<1>2. PlannedCurrent'
  BY <1>1, ShowKeepsPlanned DEF Commit
<1>3. /\ rev[PageOf[s]] = planned[p].rev
      /\ applied' = [applied EXCEPT ![p] = @ \cup {song[PageOf[s]]}]
  BY DEF Commit, Current, Batch
<1>4. reloads = 0 => song[PageOf[s]] = planned[p].song
  BY <1>1, <1>3 DEF PlannedCurrent
<1>5. AppliesWithinOneLoad'
  BY <1>3, <1>4 DEF AppliesWithinOneLoad, AppliesOnPlanned, Typed, PageTyped
<1> QED
  BY <1>2, <1>5

LEMMA PlannedStep ==
    ASSUME OnePage, IInv, PlannedCurrent, AppliesWithinOneLoad, [Next]_vars
    PROVE  PlannedCurrent' /\ AppliesWithinOneLoad'
<1> USE DEF IInv
<1>1. CASE UNCHANGED <<rev, song, reloads, planned, applied>>
  BY <1>1 DEF PlannedCurrent, AppliesWithinOneLoad, AppliesOnPlanned
<1>2. ASSUME NEW pg \in Pages, PlayerStep(pg) PROVE PlannedCurrent' /\ AppliesWithinOneLoad'
  <2>1. CASE Reload(pg)
    <3>1. reloads' # 0
      BY <2>1 DEF Reload, Typed, PageTyped
    <3> QED
      BY <3>1 DEF PlannedCurrent, AppliesWithinOneLoad
  <2>2. CASE LocalEdit(pg) \/ LoadSavedSong(pg)
    <3>1. /\ \E new : Show(pg, new)
          /\ UNCHANGED <<planned, reloads, applied>>
      BY <2>2 DEF LocalEdit, LoadSavedSong, adapterVars
    <3> QED
      BY <3>1, ShowKeepsPlanned DEF AppliesWithinOneLoad, AppliesOnPlanned
  <2> QED
    BY <1>2, <2>1, <2>2 DEF PlayerStep
<1>3. ASSUME NEW s \in Sockets, NEW r \in Rpcs, PageApplies(s, r)
      PROVE  PlannedCurrent' /\ AppliesWithinOneLoad'
  <2>1. r = Batch(r[1]) /\ r[1] \in Plans
    BY <1>3, BatchRpc DEF PageApplies
  <2> QED
    BY <1>3, <2>1, CommitPlanned DEF PageApplies, adapterVars
<1>4. ASSUME NEW pg \in Pages, PreparedApplies(pg) PROVE PlannedCurrent' /\ AppliesWithinOneLoad'
  <2>1. PICK s \in Sockets, p \in Plans : preparing[pg] = <<s, Batch(p)>>
    BY <1>4, PreparingBatch DEF PreparedApplies, Typed
  <2>2. Commit(s, Batch(p)) /\ planned' = planned /\ reloads' = reloads
    BY <1>4, <2>1 DEF PreparedApplies, adapterVars
  <2> QED
    BY <2>2, CommitPlanned
<1>5. ASSUME NEW p \in Plans, Prepare(p) PROVE PlannedCurrent' /\ AppliesWithinOneLoad'
  <2>1. PageOf[active] \in Pages
    BY <1>5, ExecutionAssumption DEF Prepare, Typed, ProxyTyped
  <2>2. /\ planned' = [planned EXCEPT ![p] = Snapshot(PageOf[active])]
        /\ UNCHANGED <<rev, song, reloads, applied>>
    BY <1>5 DEF Prepare, pageVars
  <2>3. applied[p] = {}
    BY <1>5 DEF Prepare, PhaseExact, BatchTold
  <2>4. \A pg \in Pages : Snapshot(PageOf[active]) = Snapshot(pg)
    BY <2>1 DEF OnePage
  <2>5. PlannedCurrent'
    <3>1. \A q \in Plans \ {p} : planned'[q] = planned[q]
      BY <2>2
    <3>2. \A pg \in Pages : planned'[p].rev = rev[pg] /\ planned'[p].song = song[pg]
      BY <2>2, <2>4 DEF Typed, AdapterTyped, Snapshot
    <3>3. rev \in [Pages -> Nat]
      BY DEF Typed, PageTyped
    <3> QED
      BY <2>2, <3>1, <3>2, <3>3 DEF PlannedCurrent
  <2>6. AppliesWithinOneLoad'
    BY <2>2, <2>3 DEF AppliesWithinOneLoad, AppliesOnPlanned, Typed, AdapterTyped
  <2> QED
    BY <2>5, <2>6
<1>6. ASSUME NEW pg \in Pages, PreparedFails(pg) PROVE PlannedCurrent' /\ AppliesWithinOneLoad'
  BY <1>1, <1>6 DEF PreparedFails, adapterVars
<1>7. ASSUME NEW s \in Sockets, NEW r \in Rpcs, FrameStep(s, r), ~PageApplies(s, r)
      PROVE  PlannedCurrent' /\ AppliesWithinOneLoad'
  BY <1>1, <1>7 DEF FrameStep, PageInspects, PageBusy, PageRefuses, PagePrepares, pageVars, adapterVars
<1>8. CASE \/ \E s \in Sockets : Connect(s) \/ Disconnect(s) \/ SessionStep(s) \/ AnswerStep(s)
           \/ \E r \in Rpcs : CallFails(r)
  BY <1>1, <1>8 DEF Connect, Disconnect, SessionStep, AnswerStep, CallFails, pageVars, adapterVars
<1>9. ASSUME NEW p \in Plans, CallStep(p) \/ (ReportStep(p) /\ ~Prepare(p))
      PROVE  PlannedCurrent' /\ AppliesWithinOneLoad'
  BY <1>1, <1>9 DEF CallStep, ReportStep, Execute, ExecuteRefused, ReadBack, DispatchBatch,
     RefusalReported, PreflightFails, PortFails, Reported, pageVars
<1>10. CASE UNCHANGED vars
  BY <1>1, <1>10 DEF vars, pageVars, adapterVars
<1> QED
  BY <1>2, <1>3, <1>4, <1>5, <1>6, <1>7, <1>8, <1>9, <1>10, StepCases DEF PreparedStep

(* With one page, what is reported was applied, and what is applied before *)
(* the page is loaded again was planned on that very song.  With two pages *)
(* the second part is false: their revisions are not comparable.           *)
THEOREM ExecutionIsSound == ASSUME OnePage PROVE Spec => []ExecutionSound
<1>1. Init => PlannedCurrent /\ AppliesWithinOneLoad
  BY DEF Init, PlannedCurrent, AppliesWithinOneLoad, AppliesOnPlanned, NoSnapshot
<1>2. IInv /\ PlannedCurrent /\ AppliesWithinOneLoad /\ [Next]_vars
         => PlannedCurrent' /\ AppliesWithinOneLoad'
  BY PlannedStep
<1>3. IInv /\ AppliesWithinOneLoad => ExecutionSound
  BY DEF IInv, ReportFinal, VerdictsHonest, ExecutionSound
<1> QED
  BY <1>1, <1>2, <1>3, Invariance, PTL DEF Spec
=============================================================================

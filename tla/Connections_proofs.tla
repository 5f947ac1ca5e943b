------------------------ MODULE Connections_proofs ------------------------
(***************************************************************************)
(* Proofs about the two ends of a connection that may be given up at any   *)
(* moment: BrowserProxy, for any number of sockets and calls, and          *)
(* RemoteJamConsumer, for any sessions, pitches, frames, note limit and    *)
(* number of calls in progress.                                            *)
(*                                                                         *)
(* The proxy decides by comparing sockets with #activeSession, so its      *)
(* invariant says what an old socket's events may find there. The consumer *)
(* decides by comparing generations, so its invariant says which calls of  *)
(* its queue are older than a disarm.                                      *)
(***************************************************************************)
EXTENDS BrowserProxy, RemoteJamConsumer, FiniteSetTheorems, TLAPS

-----------------------------------------------------------------------------
(* THE BROWSER PROXY                                                       *)

(* The wires carry frames of calls. *)
WiresTyped ==
    /\ down \in [Sockets -> SUBSET Rpcs]
    /\ up \in [Sockets -> SUBSET Answers]

(* Without a session nothing is awaited, so that a new session starts with *)
(* an empty map.                                                           *)
NoSessionNoCalls == active = NoSocket => pending = {}

IInv ==
    /\ TypeOK /\ WiresTyped /\ IsFiniteSet(pending)
    /\ SessionExact /\ NoSessionNoCalls

(* The steps by what they do to the map: connections and frames leave it   *)
(* alone, some end a session, some settle or make one call.                *)
WireStep(s) ==
    BrowserConnects(s) \/ BrowserGone(s) \/ BrowserAnswers(s) \/ UpgradeRejected(s) \/ SocketClosing(s)

EndStep ==
    \/ Shutdown
    \/ \E s \in Sockets : SocketFails(s) \/ SocketClosed(s) \/ ProtocolFailure(s)

(* Every step is one of these. *)
LEMMA StepCases ==
    ASSUME [Next]_vars
    PROVE  \/ \E s \in Sockets : WireStep(s) \/ UpgradeAccepted(s) \/ AnswerAccepted(s)
           \/ EndStep
           \/ \E r \in Rpcs : CallSent(r) \/ CallRefused(r) \/ CallFails(r)
           \/ UNCHANGED vars
BY DEF Next, Serve, Call, WireStep, EndStep

(* A session that ends empties the map and leaves no call without an       *)
(* outcome; another socket that ends changes neither.                      *)
SessionEnds ==
    /\ \/ active' = NoSocket /\ pending' = {} /\ \A r \in Rpcs : promise'[r] # "pending"
       \/ UNCHANGED <<active, pending, promise>>
    /\ promise' \in [Rpcs -> {"new", "pending"} \cup Settled]
    /\ srv' \in [Sockets -> ServerStates]
    /\ \A s \in Sockets : srv'[s] = "open" => srv[s] = "open" /\ (s = active => active' = active)

LEMMA EndCases ==
    ASSUME TypeOK, PendingUnsettled, EndStep
    PROVE  SessionEnds
<1> USE ProxyAssumption DEF TypeOK, PendingUnsettled, Settled, ServerStates, Disconnect, Rejection,
    SessionEnds
<1>1. CASE Shutdown
  BY <1>1 DEF Shutdown
<1>2. ASSUME NEW s \in Sockets, SocketFails(s) \/ SocketClosed(s) PROVE SessionEnds
  BY <1>2 DEF SocketFails, SocketClosed
<1>3. ASSUME NEW s \in Sockets, ProtocolFailure(s) PROVE SessionEnds
  BY <1>3 DEF ProtocolFailure, Awaited
<1> QED
  BY <1>1, <1>2, <1>3 DEF EndStep

(* The map loses entries or gains the one that the bound has room for.     *)
LEMMA BoundStep ==
    IInv /\ [Next]_vars => IsFiniteSet(pending') /\ Cardinality(pending') <= MaxPending
<1> SUFFICES ASSUME IInv, [Next]_vars
             PROVE  IsFiniteSet(pending') /\ Cardinality(pending') <= MaxPending
  OBVIOUS
<1>1. /\ IsFiniteSet(pending) /\ Cardinality(pending) \in Nat /\ MaxPending \in Nat
      /\ Cardinality(pending) <= MaxPending
  BY FS_CardinalityType, ProxyAssumption DEF IInv, TypeOK
<1>2. CASE pending' \subseteq pending
  BY <1>1, <1>2, FS_Subset, FS_CardinalityType
<1>3. ASSUME NEW r \in Rpcs, CallSent(r)
      PROVE  IsFiniteSet(pending') /\ Cardinality(pending') <= MaxPending
  <2>1. pending' = pending \cup {r}
    BY <1>3 DEF CallSent
  <2>2. r \notin pending /\ Cardinality(pending) < MaxPending
    BY <1>3 DEF CallSent, Callable, IInv, SessionExact, PendingUnsettled
  <2>3. /\ IsFiniteSet(pending \cup {r})
        /\ Cardinality(pending \cup {r}) = Cardinality(pending) + 1
    BY <1>1, <2>2, FS_AddElement, Zenon
  <2>4. IsFiniteSet(pending') /\ Cardinality(pending') = Cardinality(pending) + 1
    BY <2>1, <2>3, Zenon
  <2> QED
    BY <1>1, <2>2, <2>4
<1>4. ASSUME ~\E r \in Rpcs : CallSent(r) PROVE pending' \subseteq pending
  <2>1. CASE EndStep
    BY <2>1, EndCases DEF SessionEnds, IInv, SessionExact
  <2>2. ASSUME NEW s \in Sockets, WireStep(s) \/ UpgradeAccepted(s) \/ AnswerAccepted(s)
        PROVE  pending' \subseteq pending
    BY <2>2 DEF WireStep, BrowserConnects, BrowserGone, BrowserAnswers, UpgradeRejected,
       SocketClosing, UpgradeAccepted, AnswerAccepted, RemoveEntry, rpcVars
  <2>3. ASSUME NEW r \in Rpcs, CallRefused(r) \/ CallFails(r) PROVE pending' \subseteq pending
    BY <2>3 DEF CallRefused, CallFails, RemoveEntry
  <2>4. CASE UNCHANGED vars
    BY <2>4 DEF vars, rpcVars
  <2> QED
    BY <1>4, <2>1, <2>2, <2>3, <2>4, StepCases
<1> QED
  BY <1>2, <1>3, <1>4

(* Types, the map's bound apart.                                           *)
Typed ==
    /\ attached \in BOOLEAN
    /\ active \in Sockets \cup {NoSocket}
    /\ srv \in [Sockets -> ServerStates]
    /\ brw \in [Sockets -> BrowserStates]
    /\ WiresTyped
    /\ pending \subseteq Rpcs
    /\ promise \in [Rpcs -> {"new", "pending"} \cup Settled]
    /\ result \in [Rpcs -> Results \cup {NoResult}]
    /\ sentOn \in [Rpcs -> Sockets \cup {NoSocket}]

LEMMA TypedStep == IInv /\ [Next]_vars => Typed'
<1> SUFFICES ASSUME IInv, Typed, [Next]_vars PROVE Typed'
  BY DEF IInv, TypeOK, Typed
<1> USE ProxyAssumption DEF Typed, WiresTyped, ServerStates, BrowserStates, Settled, EntriesOnly,
    RemoveEntry, Rejection, sessionVars, wireVars, rpcVars
<1>1. CASE EndStep
  <2>1. SessionEnds
    BY <1>1, EndCases DEF IInv, SessionExact
  <2>2. CASE Shutdown
    BY <2>1, <2>2 DEF Shutdown, SessionEnds
  <2>3. ASSUME NEW s \in Sockets, SocketFails(s) \/ SocketClosed(s) \/ ProtocolFailure(s)
        PROVE  Typed'
    <3>1. (active \in Sockets \cup {NoSocket})' /\ (pending \subseteq Rpcs)'
      BY <2>1 DEF SessionEnds
    <3>2. (WiresTyped /\ brw \in [Sockets -> BrowserStates] /\ attached \in BOOLEAN)'
      BY <2>3 DEF SocketFails, SocketClosed, ProtocolFailure
    <3>3. (result \in [Rpcs -> Results \cup {NoResult}])'
      BY <2>3 DEF SocketFails, SocketClosed, ProtocolFailure
    <3>4. (sentOn \in [Rpcs -> Sockets \cup {NoSocket}])'
      BY <2>3 DEF SocketFails, SocketClosed, ProtocolFailure
    <3> QED
      BY <2>1, <3>1, <3>2, <3>3, <3>4 DEF SessionEnds
  <2> QED
    BY <1>1, <2>2, <2>3 DEF EndStep
<1>2. ASSUME NEW s \in Sockets, WireStep(s) \/ UpgradeAccepted(s) PROVE Typed'
  BY <1>2 DEF WireStep, BrowserConnects, BrowserGone, BrowserAnswers, UpgradeRejected,
       SocketClosing, UpgradeAccepted
<1>3. ASSUME NEW s \in Sockets, AnswerAccepted(s) PROVE Typed'
  BY <1>3 DEF AnswerAccepted, Answers
<1>4. ASSUME NEW r \in Rpcs, CallSent(r) \/ CallRefused(r) \/ CallFails(r) PROVE Typed'
  BY <1>4 DEF CallSent, CallRefused, CallFails, Callable
<1>5. CASE UNCHANGED vars
  BY <1>5 DEF vars
<1> QED
  BY <1>1, <1>2, <1>3, <1>4, <1>5, StepCases

(* The session and its map.  A socket becomes the session only when there  *)
(* is none, a call is entered for the session at hand, and every exit from *)
(* the map settles the call.                                               *)
LEMMA SessionStep == IInv /\ [Next]_vars => SessionExact' /\ NoSessionNoCalls'
<1> SUFFICES ASSUME IInv, Typed, [Next]_vars PROVE SessionExact' /\ NoSessionNoCalls'
  BY DEF IInv, TypeOK, Typed
<1> USE ProxyAssumption DEF IInv, Typed, SessionExact, OpenIsActive, PendingUnsettled,
    PendingOnActive, NoSessionNoCalls, EntriesOnly, RemoveEntry, Rejection, Settled,
    sessionVars, wireVars, rpcVars
<1>1. CASE EndStep
  <2>1. SessionEnds
    BY <1>1, EndCases
  <2>2. sentOn' = [r \in Rpcs |-> IF r \in pending' THEN sentOn[r] ELSE NoSocket]
    BY <1>1 DEF EndStep, Shutdown, SocketFails, SocketClosed, ProtocolFailure
  <2> QED
    BY <2>1, <2>2 DEF SessionEnds
<1>2. ASSUME NEW s \in Sockets, WireStep(s) PROVE SessionExact' /\ NoSessionNoCalls'
  BY <1>2 DEF WireStep, BrowserConnects, BrowserGone, BrowserAnswers, UpgradeRejected,
     SocketClosing
<1>3. ASSUME NEW s \in Sockets, UpgradeAccepted(s) PROVE SessionExact' /\ NoSessionNoCalls'
  BY <1>3 DEF UpgradeAccepted, SlotFree
<1>4. ASSUME NEW s \in Sockets, AnswerAccepted(s) PROVE SessionExact' /\ NoSessionNoCalls'
  BY <1>4 DEF AnswerAccepted, Awaited
<1>5. ASSUME NEW r \in Rpcs, CallSent(r) \/ CallRefused(r) \/ CallFails(r)
      PROVE  SessionExact' /\ NoSessionNoCalls'
  BY <1>5 DEF CallSent, CallRefused, CallFails, Callable
<1>6. CASE UNCHANGED vars
  BY <1>6 DEF vars
<1> QED
  BY <1>1, <1>2, <1>3, <1>4, <1>5, <1>6, StepCases

-----------------------------------------------------------------------------
(* No socket and no call yet. *)
LEMMA InitInv == Init => IInv
<1> SUFFICES ASSUME Init PROVE IInv
  OBVIOUS
<1>1. IsFiniteSet(pending) /\ Cardinality(pending) <= MaxPending
  BY FS_EmptySet, ProxyAssumption DEF Init
<1> QED
  BY <1>1, ProxyAssumption
     DEF Init, IInv, TypeOK, WiresTyped, SessionExact, OpenIsActive, PendingUnsettled,
         PendingOnActive, NoSessionNoCalls, ServerStates, BrowserStates, Settled

(* The conjuncts hold together, so that each step lemma may use them all.  *)
LEMMA StepInv == IInv /\ [Next]_vars => IInv'
<1> SUFFICES ASSUME IInv, [Next]_vars PROVE IInv'
  OBVIOUS
<1>1. Typed' /\ IsFiniteSet(pending') /\ Cardinality(pending') <= MaxPending
  BY TypedStep, BoundStep
<1>2. TypeOK'
  BY <1>1 DEF Typed, WiresTyped, TypeOK
<1> QED
  BY <1>1, <1>2, SessionStep DEF Typed, IInv

(* The inductive invariant holds in every reachable state. *)
THEOREM Invariance == Spec => []IInv
BY InitInv, StepInv, PTL DEF Spec

(* The proxy's variables keep their types, and the map of pending calls    *)
(* its bound maxPendingRequests.                                           *)
THEOREM TypeCorrect == Spec => []TypeOK
<1>1. IInv => TypeOK
  BY DEF IInv
<1> QED
  BY <1>1, Invariance, PTL

(* One socket is open, and it is the session; the map holds the unsettled  *)
(* calls, each sent on that session, whatever old sockets still deliver.   *)
THEOREM SessionStaysExact == Spec => []SessionExact
<1>1. IInv => SessionExact
  BY DEF IInv
<1> QED
  BY <1>1, Invariance, PTL

-----------------------------------------------------------------------------
(* THE REMOTE JAM CONSUMER                                                 *)

(* The await belongs to the task at the head, and a note that is being     *)
(* dispatched is one that could be dispatched when the task began.         *)
StepOfHead ==
    /\ step # "ready" => queue # <<>>
    /\ step = "status" => Task.kind = "arm"
    /\ step \in {"noteOn", "noteOff", "panic", "failSafe"} => Task.kind = "accept"
    /\ step = "disarm" => Task.kind = "disarm"
    /\ step \in {"noteOn", "noteOff"} => Task.input \in Frames
    /\ step = "noteOn" => Task.input.pitch \notin notes /\ Room

(* A task that a disarm was queued behind is of an older generation: this  *)
(* is what the comparison of generations relies on.                        *)
OlderBeforeDisarm ==
    /\ \A i \in 1 .. Len(queue) : queue[i].at <= generation
    /\ \A i, j \in 1 .. Len(queue) :
          i < j /\ queue[j].kind = "disarm" => queue[i].at < generation

(* A fault ends the session; a dispatch that outlives its session is       *)
(* followed by a panic.                                                    *)
Revoked ==
    /\ session # NoSession => ~faulted /\ step \notin {"failSafe", "disarm"}
    /\ step \in {"noteOn", "noteOff", "panic"} => session # NoSession \/ DisarmQueued
    /\ step = "failSafe" => faulted \/ DisarmQueued

(* What the host plays beyond the held notes is being dispatched.          *)
Sounds ==
    session # NoSession =>
        sounding \subseteq (IF step = "noteOn" THEN notes \cup {Task.input.pitch} ELSE notes)

JamInv ==
    /\ JamTypeOK /\ StepOfHead /\ OlderBeforeDisarm /\ Revoked
    /\ Sounds /\ ArmedAfterPanic /\ SilentWhenOff

-----------------------------------------------------------------------------
(* How a step changes the queue: not at all, by a call, or by settling.    *)
LEMMA QueueStep ==
    ASSUME JamTypeOK, StepOfHead, [JamNext]_jamVars
    PROVE  \/ UNCHANGED queue
           \/ \E t \in Tasks : /\ queue' = Append(queue, t) /\ t.at = generation
                               /\ step' = step
                               /\ t.kind = "disarm" => generation' = generation + 1
           \/ queue # <<>> /\ queue' = Tail(queue) /\ step' = "ready"
<1>1. CASE \E s \in Sessions : Arm(s)
  <2>1. PICK s \in Sessions : Arm(s)
    BY <1>1
  <2>2. [kind |-> "arm", at |-> generation, input |-> s] \in Tasks
    BY DEF Tasks, JamTypeOK
  <2> QED BY <2>1, <2>2 DEF Arm, Enqueue
<1>2. CASE \E input \in Frames \cup {Invalid} : Accept(input)
  <2>1. PICK input \in Frames \cup {Invalid} : Accept(input)
    BY <1>2
  <2>2. [kind |-> "accept", at |-> generation, input |-> input] \in Tasks
    BY DEF Tasks, JamTypeOK
  <2> QED BY <2>1, <2>2 DEF Accept, Enqueue
<1>3. CASE Disarm
  <2>1. [kind |-> "disarm", at |-> generation, input |-> None] \in Tasks
    BY DEF Tasks, JamTypeOK
  <2> QED BY <1>3, <2>1 DEF Disarm, Enqueue
<1>4. CASE \/ ArmRefused \/ ArmStores \/ AcceptRefused \/ AcceptUnsupported
          \/ NoteOnReturns \/ NoteOffReturns \/ StopReturns \/ FailSafeEnds
          \/ DisarmReturns \/ DisarmFails
  BY <1>4 DEF ArmRefused, ArmStores, AcceptRefused, AcceptUnsupported, NoteOnReturns,
              NoteOffReturns, StopReturns, FailSafeEnds, DisarmReturns, DisarmFails, Runs,
              Begins, Settle, StepOfHead
<1>5. CASE \/ ArmBegins \/ AcceptFaults \/ AcceptDispatches \/ DispatchFails \/ DisarmBegins
          \/ HostPlays \/ (\E p \in Pitches : HostReleases(p) \/ HostLeaseEnds(p))
          \/ UNCHANGED jamVars
  BY <1>5 DEF ArmBegins, AcceptFaults, AcceptDispatches, DispatchFails, DisarmBegins, HostPlays,
              HostReleases, HostLeaseEnds, Await, FailSafe, jamVars
<1> QED BY <1>1, <1>2, <1>3, <1>4, <1>5 DEF JamNext, Calls, Queue, Host

(* A call changes neither the task at the head nor what is queued behind.  *)
LEMMA AppendKeeps ==
    ASSUME NEW q \in Seq(Tasks), NEW t \in Tasks
    PROVE  /\ Append(q, t) \in Seq(Tasks)
           /\ Len(Append(q, t)) = Len(q) + 1
           /\ \A i \in 1 .. Len(q) : Append(q, t)[i] = q[i]
           /\ Append(q, t)[Len(q) + 1] = t
           /\ q # <<>> => Head(Append(q, t)) = Head(q)
  OBVIOUS

(* Settling moves every task one place forward.                            *)
LEMMA TailKeeps ==
    ASSUME NEW q \in Seq(Tasks), q # <<>>
    PROVE  /\ Tail(q) \in Seq(Tasks)
           /\ Len(Tail(q)) = Len(q) - 1
           /\ \A i \in 1 .. Len(q) - 1 : Tail(q)[i] = q[i + 1]
           /\ Head(q) = q[1] /\ Head(q) \in Tasks
  OBVIOUS

(* The queue keeps its type.                                               *)
LEMMA QueueTyped ==
    ASSUME JamTypeOK, StepOfHead, [JamNext]_jamVars
    PROVE  queue' \in Seq(Tasks)
BY QueueStep, AppendKeeps, TailKeeps DEF JamTypeOK

(* The task at the head stays there until it settles.                      *)
LEMMA HeadStays ==
    ASSUME JamTypeOK, StepOfHead, [JamNext]_jamVars, queue # <<>>
    PROVE  \/ queue' # <<>> /\ Task' = Task
           \/ step' = "ready"
BY QueueStep, AppendKeeps DEF JamTypeOK, Task

(* The fault flag is set, cleared or left alone.                           *)
LEMMA FaultedTyped ==
    ASSUME JamTypeOK, [JamNext]_jamVars
    PROVE  faulted' \in BOOLEAN
<1>1. CASE AcceptFaults \/ DispatchFails \/ DisarmFails
  <2>1. faulted' = TRUE
    BY <1>1 DEF AcceptFaults, DispatchFails, DisarmFails, FailSafe, Latch
  <2> QED BY <2>1, Zenon
<1>2. CASE Disarm
  <2>1. faulted' = FALSE
    BY <1>2 DEF Disarm
  <2> QED BY <2>1, Zenon
<1>3. CASE UNCHANGED faulted
  BY <1>3, Zenon DEF JamTypeOK
<1>4. (AcceptFaults \/ DispatchFails \/ DisarmFails) \/ Disarm \/ UNCHANGED faulted
  BY DEF JamNext, Calls, Queue, Host, Arm, Accept, ArmBegins, ArmRefused, ArmStores, AcceptRefused,
         AcceptUnsupported, AcceptDispatches, NoteOnReturns, NoteOffReturns, StopReturns,
         FailSafeEnds, DisarmBegins, DisarmReturns, HostPlays, HostReleases, HostLeaseEnds,
         consumerVars, jamVars
<1> QED BY <1>1, <1>2, <1>3, <1>4

(* Types; a note is only added where there was room for it.                *)
LEMMA TypeStep ==
    ASSUME JamTypeOK, StepOfHead, [JamNext]_jamVars
    PROVE  JamTypeOK'
<1>1. queue' \in Seq(Tasks)
  BY QueueTyped
<1>2. faulted' \in BOOLEAN
  BY FaultedTyped
<1>3. IsFiniteSet(notes)
  BY JamAssumption, FS_Subset DEF JamTypeOK
<1>4. Cardinality({}) <= MaxNotes
  BY FS_EmptySet, JamAssumption
<1>5. CASE NoteOnReturns
  <2>1. Task.input \in Frames /\ Task.input.pitch \in Pitches
    BY <1>5, JamAssumption DEF NoteOnReturns, StepOfHead
  <2>2. Cardinality(notes \cup {Task.input.pitch}) = Cardinality(notes) + 1
    BY <1>3, <1>5, FS_AddElement DEF NoteOnReturns, StepOfHead
  <2>3. Cardinality(notes) \in Nat
    BY <1>3, FS_CardinalityType
  <2>4. Cardinality(notes) < MaxNotes
    BY <1>5 DEF NoteOnReturns, StepOfHead, Room
  <2>5. Cardinality(notes') <= MaxNotes
    BY <1>5, <2>2, <2>3, <2>4, JamAssumption DEF NoteOnReturns
  <2> QED BY <1>1, <1>5, <2>1, <2>5 DEF NoteOnReturns, JamTypeOK, Settle
<1>6. CASE NoteOffReturns
  <2>1. Cardinality(notes \ {Task.input.pitch}) <= Cardinality(notes)
    BY <1>3, FS_Subset
  <2>2. /\ Cardinality(notes) \in Nat
        /\ Cardinality(notes \ {Task.input.pitch}) \in Nat
    BY <1>3, FS_CardinalityType, FS_Subset
  <2>3. Cardinality(notes') <= MaxNotes
    BY <1>6, <2>1, <2>2, JamAssumption DEF NoteOffReturns, JamTypeOK
  <2> QED BY <1>1, <1>6, <2>3 DEF NoteOffReturns, JamTypeOK, Settle
<1>7. CASE StopReturns \/ FailSafeEnds \/ DisarmReturns \/ DisarmFails
  <2>1. notes' = {} /\ step' = "ready" /\ UNCHANGED <<session, generation, sounding>>
    BY <1>7 DEF StopReturns, FailSafeEnds, DisarmReturns, DisarmFails, Settle
  <2>2. sequence' \in {sequence, 0}
    BY <1>7 DEF StopReturns, FailSafeEnds, DisarmReturns, DisarmFails
  <2> QED BY <1>1, <1>2, <1>4, <2>1, <2>2 DEF JamTypeOK
<1>8. CASE ArmStores
  <2>1. Task.input \in Sessions
    BY <1>8, TailKeeps DEF ArmStores, Runs, Tasks, Task, JamTypeOK
  <2> QED BY <1>1, <1>4, <1>8, <2>1 DEF ArmStores, JamTypeOK, Settle
<1>9. CASE Calls \/ UNCHANGED jamVars
  <2>1. UNCHANGED <<sequence, notes, step, sounding>>
    BY <1>9 DEF Calls, Arm, Accept, Disarm, consumerVars, jamVars
  <2>2. session' \in {session, NoSession} /\ generation' \in {generation, generation + 1}
    BY <1>9 DEF Calls, Arm, Accept, Disarm, consumerVars, jamVars
  <2> QED BY <1>1, <1>2, <2>1, <2>2 DEF JamTypeOK
<1>10. CASE ArmBegins \/ ArmRefused \/ AcceptRefused \/ DisarmBegins
  BY <1>1, <1>10 DEF ArmBegins, ArmRefused, AcceptRefused, DisarmBegins, Await, Settle,
                     consumerVars, JamTypeOK, PortCalls
<1>11. CASE AcceptUnsupported \/ AcceptDispatches
  BY <1>1, <1>11 DEF AcceptUnsupported, AcceptDispatches, Await, Settle, JamTypeOK, PortCalls
<1>12. CASE AcceptFaults \/ DispatchFails
  BY <1>1, <1>2, <1>12 DEF AcceptFaults, DispatchFails, FailSafe, Await, JamTypeOK, PortCalls
<1>13. CASE HostPlays
  <2>1. Task.input.pitch \in Pitches
    BY <1>13, JamAssumption DEF HostPlays, StepOfHead
  <2> QED BY <1>1, <1>13, <2>1 DEF HostPlays, consumerVars, JamTypeOK
<1>14. CASE \E p \in Pitches : HostReleases(p) \/ HostLeaseEnds(p)
  BY <1>1, <1>14 DEF HostReleases, HostLeaseEnds, consumerVars, JamTypeOK
<1> QED BY <1>5, <1>6, <1>7, <1>8, <1>9, <1>10, <1>11, <1>12, <1>13, <1>14
        DEF JamNext, Calls, Queue, Host

(* The await belongs to the head, which no call replaces.                  *)
LEMMA HeadStep ==
    ASSUME JamTypeOK, StepOfHead, [JamNext]_jamVars
    PROVE  StepOfHead'
<1>1. queue # <<>> => \/ queue' # <<>> /\ Task' = Task
                      \/ step' = "ready"
  BY HeadStays
<1>2. CASE Calls \/ Host \/ UNCHANGED jamVars
  <2>1. UNCHANGED <<step, notes>>
    BY <1>2 DEF Calls, Host, Arm, Accept, Disarm, HostPlays, HostReleases, HostLeaseEnds,
                consumerVars, jamVars
  <2> QED BY <1>1, <2>1 DEF StepOfHead, Room
<1>3. CASE ArmBegins
  BY <1>1, <1>3 DEF ArmBegins, Runs, Await, StepOfHead
<1>4. CASE AcceptDispatches
  <2>1. Task.input \in Frames \cup {Invalid} /\ Task.kind = "accept" /\ queue # <<>>
    BY <1>4, TailKeeps DEF AcceptDispatches, Begins, Runs, Task, Tasks, JamTypeOK
  <2>2. Task.input \in Frames
    BY <1>4, <2>1 DEF AcceptDispatches, InOrder, Ours, Live
  <2> QED BY <1>1, <1>4, <2>1, <2>2 DEF AcceptDispatches, Await, Starts, Releases, Room, StepOfHead
<1>5. CASE DisarmBegins
  BY <1>1, <1>5 DEF DisarmBegins, Begins, Runs, Await, StepOfHead
<1>6. CASE AcceptFaults \/ DispatchFails
  BY <1>1, <1>6 DEF AcceptFaults, DispatchFails, Begins, Runs, FailSafe, Await, StepOfHead
<1>7. CASE step' = "ready"
  BY <1>7 DEF StepOfHead
<1>8. Queue => \/ ArmBegins \/ AcceptDispatches \/ DisarmBegins \/ AcceptFaults \/ DispatchFails
               \/ step' = "ready"
  BY DEF Queue, ArmRefused, ArmStores, AcceptRefused, AcceptUnsupported, NoteOnReturns,
         NoteOffReturns, StopReturns, FailSafeEnds, DisarmReturns, DisarmFails, Settle
<1> QED BY <1>2, <1>3, <1>4, <1>5, <1>6, <1>7, <1>8 DEF JamNext

(* Generations only grow, and a disarm starts a new one.                   *)
LEMMA OlderStep ==
    ASSUME JamTypeOK, StepOfHead, OlderBeforeDisarm, [JamNext]_jamVars
    PROVE  OlderBeforeDisarm'
<1>1. generation \in Nat /\ generation' \in {generation, generation + 1}
  BY DEF JamTypeOK, JamNext, Calls, Queue, Host, Arm, Accept, Disarm, ArmBegins, ArmRefused, ArmStores,
         AcceptRefused, AcceptFaults, AcceptUnsupported, AcceptDispatches, NoteOnReturns,
         NoteOffReturns, StopReturns, DispatchFails, FailSafeEnds, FailSafe, DisarmBegins,
         DisarmReturns, DisarmFails, HostPlays, HostReleases, HostLeaseEnds, consumerVars, jamVars
<1>2. \A i \in 1 .. Len(queue) : queue[i].at \in Nat
  BY DEF JamTypeOK, Tasks
<1>3. CASE UNCHANGED queue
  BY <1>1, <1>2, <1>3 DEF OlderBeforeDisarm
<1>4. ASSUME NEW t \in Tasks, queue' = Append(queue, t), t.at = generation,
             t.kind = "disarm" => generation' = generation + 1
      PROVE  OlderBeforeDisarm'
  <2>1. /\ Len(queue') = Len(queue) + 1 /\ Len(queue) \in Nat
        /\ \A i \in 1 .. Len(queue) : queue'[i] = queue[i]
        /\ queue'[Len(queue) + 1] = t
    BY <1>4, AppendKeeps DEF JamTypeOK
  <2>2. \A i \in 1 .. Len(queue') : queue'[i].at <= generation'
    BY <1>1, <1>2, <1>4, <2>1 DEF OlderBeforeDisarm
  <2>3. ASSUME NEW i \in 1 .. Len(queue'), NEW j \in 1 .. Len(queue'),
               i < j, queue'[j].kind = "disarm"
        PROVE  queue'[i].at < generation'
    <3>1. i \in 1 .. Len(queue) /\ queue'[i] = queue[i]
      BY <2>1, <2>3
    <3>2. CASE j = Len(queue) + 1
      BY <1>1, <1>2, <1>4, <2>1, <2>3, <3>1, <3>2 DEF OlderBeforeDisarm
    <3>3. CASE j \in 1 .. Len(queue)
      BY <1>1, <1>2, <2>1, <2>3, <3>1, <3>3 DEF OlderBeforeDisarm
    <3> QED BY <2>1, <3>2, <3>3
  <2> QED BY <2>2, <2>3 DEF OlderBeforeDisarm
<1>5. CASE queue # <<>> /\ queue' = Tail(queue)
  <2>1. /\ Len(queue') = Len(queue) - 1 /\ Len(queue) \in Nat
        /\ \A i \in 1 .. Len(queue) - 1 : queue'[i] = queue[i + 1]
    BY <1>5, TailKeeps DEF JamTypeOK
  <2>2. \A i \in 1 .. Len(queue') : i + 1 \in 1 .. Len(queue) /\ queue'[i] = queue[i + 1]
    BY <2>1
  <2>3. \A i \in 1 .. Len(queue') : queue'[i].at <= generation'
    BY <1>1, <1>2, <2>2 DEF OlderBeforeDisarm
  <2>4. ASSUME NEW i \in 1 .. Len(queue'), NEW j \in 1 .. Len(queue'),
               i < j, queue'[j].kind = "disarm"
        PROVE  queue'[i].at < generation'
    <3>1. queue[i + 1].at < generation
      <4>1. i + 1 \in 1 .. Len(queue) /\ j + 1 \in 1 .. Len(queue) /\ i + 1 < j + 1
        BY <2>2, <2>4
      <4> QED BY <2>2, <2>4, <4>1 DEF OlderBeforeDisarm
    <3> QED BY <1>1, <1>2, <2>2, <3>1
  <2> QED BY <2>3, <2>4 DEF OlderBeforeDisarm
<1> QED BY <1>3, <1>4, <1>5, QueueStep

(* A panic that is queued is still queued after the step, unless it is the *)
(* one at the head that has run.                                           *)
LEMMA DisarmStays ==
    ASSUME JamTypeOK, StepOfHead, [JamNext]_jamVars, DisarmQueued
    PROVE  DisarmQueued' \/ (Runs("disarm") /\ step' = "ready")
<1>1. PICK n \in 1 .. Len(queue) : queue[n].kind = "disarm"
  BY DEF DisarmQueued
<1>2. CASE UNCHANGED queue
  BY <1>2 DEF DisarmQueued
<1>3. CASE \E t \in Tasks : queue' = Append(queue, t)
  <2>1. n \in 1 .. Len(queue') /\ queue'[n] = queue[n]
    BY <1>3, AppendKeeps DEF JamTypeOK
  <2> QED BY <1>1, <2>1 DEF DisarmQueued
<1>4. CASE queue # <<>> /\ queue' = Tail(queue) /\ step' = "ready"
  <2>1. CASE n = 1
    BY <1>1, <1>4, <2>1, TailKeeps DEF Runs, Task, JamTypeOK
  <2>2. CASE n # 1
    <3>1. n - 1 \in 1 .. Len(queue') /\ queue'[n - 1] = queue[n]
      BY <1>4, <2>2, TailKeeps DEF JamTypeOK
    <3> QED BY <1>1, <3>1 DEF DisarmQueued
  <2> QED BY <2>1, <2>2
<1> QED BY <1>2, <1>3, <1>4, QueueStep
(* A step that ends a session without a disarm, or that latches a fault.   *)
LEMMA RevokedStep ==
    ASSUME JamTypeOK, StepOfHead, Revoked, ArmedAfterPanic, [JamNext]_jamVars
    PROVE  Revoked'
<1>1. DisarmQueued => DisarmQueued' \/ (Runs("disarm") /\ step' = "ready")
  BY DisarmStays
<1>2. CASE (\E s \in Sessions : Arm(s)) \/ (\E input \in Frames \cup {Invalid} : Accept(input))
          \/ Host \/ UNCHANGED jamVars
  <2>1. UNCHANGED <<session, faulted, step>>
    BY <1>2 DEF Arm, Accept, Host, HostPlays, HostReleases, HostLeaseEnds, consumerVars, jamVars
  <2>2. step # "ready" => (DisarmQueued => DisarmQueued')
    BY <1>1, <2>1
  <2> QED BY <2>1, <2>2 DEF Revoked
<1>3. CASE Disarm
  <2>1. DisarmQueued'
    <3>1. Append(queue, [kind |-> "disarm", at |-> generation, input |-> None])[Len(queue) + 1].kind
             = "disarm"
      BY AppendKeeps DEF JamTypeOK, Tasks
    <3>2. Len(queue') = Len(queue) + 1 /\ Len(queue) \in Nat
      BY <1>3, AppendKeeps DEF Disarm, Enqueue, JamTypeOK, Tasks
    <3> QED BY <1>3, <3>1, <3>2 DEF Disarm, Enqueue, DisarmQueued
  <2> QED BY <1>3, <2>1 DEF Disarm, Revoked
<1>4. CASE AcceptFaults \/ DispatchFails
  BY <1>4 DEF AcceptFaults, DispatchFails, FailSafe, Await, Revoked
<1>5. CASE ArmBegins
  BY <1>5 DEF ArmBegins, Await, consumerVars, Revoked
<1>10. CASE DisarmBegins
  <2>1. DisarmQueued
    BY <1>10, TailKeeps DEF DisarmBegins, Begins, Runs, Task, JamTypeOK, DisarmQueued
  <2> QED BY <1>10, <2>1 DEF DisarmBegins, Await, consumerVars, Revoked, ArmedAfterPanic
<1>6. CASE AcceptDispatches
  BY <1>6 DEF AcceptDispatches, Await, InOrder, Ours, Live, Revoked
<1>7. CASE ArmStores
  BY <1>7 DEF ArmStores, Settle, Revoked
<1>8. CASE \/ ArmRefused \/ AcceptRefused \/ AcceptUnsupported \/ NoteOnReturns
          \/ NoteOffReturns \/ StopReturns \/ FailSafeEnds \/ DisarmReturns
  BY <1>8 DEF ArmRefused, AcceptRefused, AcceptUnsupported, NoteOnReturns, NoteOffReturns,
              StopReturns, FailSafeEnds, DisarmReturns, Settle, consumerVars, Revoked
<1>9. CASE DisarmFails
  BY <1>9 DEF DisarmFails, Settle, Revoked
<1> QED BY <1>2, <1>3, <1>4, <1>5, <1>6, <1>7, <1>8, <1>9, <1>10 DEF JamNext, Calls, Queue
(* Nothing sounds that is neither held nor on its way to being held.       *)
LEMMA SoundsStep ==
    ASSUME JamTypeOK, StepOfHead, Revoked, Sounds, [JamNext]_jamVars
    PROVE  Sounds'
<1>1. step # "ready" => (Task' = Task \/ step' = "ready")
  BY HeadStays DEF StepOfHead
<1>2. CASE (\E s \in Sessions : Arm(s)) \/ (\E input \in Frames \cup {Invalid} : Accept(input))
          \/ UNCHANGED jamVars
  BY <1>1, <1>2 DEF Arm, Accept, consumerVars, jamVars, Sounds
<1>3. CASE Disarm \/ AcceptFaults \/ DispatchFails
  BY <1>3 DEF Disarm, AcceptFaults, DispatchFails, FailSafe, Sounds
<1>4. CASE ArmBegins \/ DisarmBegins \/ ArmRefused \/ AcceptRefused
  BY <1>4 DEF ArmBegins, DisarmBegins, ArmRefused, AcceptRefused, Begins, Runs, Await, Settle,
              consumerVars, StepOfHead, Sounds
<1>5. CASE AcceptUnsupported \/ AcceptDispatches
  BY <1>5 DEF AcceptUnsupported, AcceptDispatches, Begins, Await, Settle, Sounds
<1>6. CASE NoteOnReturns \/ NoteOffReturns
  BY <1>6 DEF NoteOnReturns, NoteOffReturns, Settle, Sounds
<1>7. CASE StopReturns \/ ArmStores \/ DisarmReturns
  BY <1>7 DEF StopReturns, ArmStores, DisarmReturns, Settle, Sounds
<1>8. CASE FailSafeEnds \/ DisarmFails
  BY <1>8 DEF FailSafeEnds, DisarmFails, Revoked, Sounds
<1>9. CASE HostPlays
  BY <1>1, <1>9 DEF HostPlays, consumerVars, Sounds
<1>10. CASE \E p \in Pitches : HostReleases(p) \/ HostLeaseEnds(p)
  BY <1>1, <1>10 DEF HostReleases, HostLeaseEnds, consumerVars, Sounds
<1> QED BY <1>2, <1>3, <1>4, <1>5, <1>6, <1>7, <1>8, <1>9, <1>10 DEF JamNext, Calls, Queue, Host

(* Where no disarm is queued, only one that is called can queue one.       *)
LEMMA NoDisarmComes ==
    ASSUME JamTypeOK, StepOfHead, [JamNext]_jamVars, ~Disarm, ~DisarmQueued
    PROVE  ~DisarmQueued'
<1>1. CASE UNCHANGED queue
  BY <1>1 DEF DisarmQueued
<1>2. CASE \E s \in Sessions : Arm(s)
  <2>1. PICK s \in Sessions : Arm(s)
    BY <1>2
  <2> DEFINE t == [kind |-> "arm", at |-> generation, input |-> s]
  <2>2. t \in Tasks /\ t.kind # "disarm" /\ queue' = Append(queue, t)
    BY <2>1 DEF Tasks, JamTypeOK, Arm, Enqueue
  <2> HIDE DEF t
  <2> QED BY <2>2, AppendKeeps DEF JamTypeOK, DisarmQueued
<1>3. CASE \E input \in Frames \cup {Invalid} : Accept(input)
  <2>1. PICK input \in Frames \cup {Invalid} : Accept(input)
    BY <1>3
  <2> DEFINE t == [kind |-> "accept", at |-> generation, input |-> input]
  <2>2. t \in Tasks /\ t.kind # "disarm" /\ queue' = Append(queue, t)
    BY <2>1 DEF Tasks, JamTypeOK, Accept, Enqueue
  <2> HIDE DEF t
  <2> QED BY <2>2, AppendKeeps DEF JamTypeOK, DisarmQueued
<1>4. CASE queue # <<>> /\ queue' = Tail(queue)
  <2>1. \A i \in 1 .. Len(queue') : i + 1 \in 1 .. Len(queue) /\ queue'[i] = queue[i + 1]
    BY <1>4, TailKeeps DEF JamTypeOK
  <2> QED BY <2>1 DEF DisarmQueued
<1>5. CASE Queue \/ Host \/ UNCHANGED jamVars
  <2>1. UNCHANGED queue \/ (queue # <<>> /\ queue' = Tail(queue))
    BY <1>5 DEF Queue, Host, ArmBegins, ArmRefused, ArmStores, AcceptRefused, AcceptFaults,
           AcceptUnsupported, AcceptDispatches, NoteOnReturns, NoteOffReturns, StopReturns,
           DispatchFails, FailSafeEnds, FailSafe, DisarmBegins, DisarmReturns, DisarmFails,
           HostPlays, HostReleases, HostLeaseEnds, Runs, Begins, Await, Settle, StepOfHead, jamVars
  <2> QED BY <1>1, <1>4, <2>1
<1> QED BY <1>2, <1>3, <1>5 DEF JamNext, Calls

(* The generations say that no disarm was called since arm was.            *)
LEMMA ArmedStep ==
    ASSUME JamTypeOK, StepOfHead, OlderBeforeDisarm, ArmedAfterPanic, [JamNext]_jamVars
    PROVE  ArmedAfterPanic'
<1>1. CASE Disarm
  BY <1>1 DEF Disarm, ArmedAfterPanic
<1>2. CASE ArmStores /\ ~Disarm
  <2>1. queue # <<>> /\ queue[1].kind = "arm" /\ queue[1].at = generation /\ generation \in Nat
    BY <1>2, TailKeeps DEF ArmStores, Runs, Unrevoked, Task, JamTypeOK
  <2>2. ~DisarmQueued
    BY <2>1 DEF OlderBeforeDisarm, DisarmQueued, JamTypeOK
  <2> QED BY <1>2, <2>2, NoDisarmComes DEF ArmedAfterPanic
<1>3. CASE ~Disarm /\ ~ArmStores
  <2>1. session' \in {session, NoSession}
    BY <1>3 DEF JamNext, Calls, Queue, Host, Arm, Accept, ArmBegins, ArmRefused, AcceptRefused,
           AcceptFaults, AcceptUnsupported, AcceptDispatches, NoteOnReturns, NoteOffReturns,
           StopReturns, DispatchFails, FailSafeEnds, FailSafe, DisarmBegins, DisarmReturns,
           DisarmFails, HostPlays, HostReleases, HostLeaseEnds, consumerVars, jamVars
  <2> QED BY <1>3, <2>1, NoDisarmComes DEF ArmedAfterPanic
<1> QED BY <1>1, <1>2, <1>3
(* Whoever gives the session up leaves a panic or a fault behind, and only *)
(* a panic that succeeded takes the last one off the queue.                *)
LEMMA SilentStep ==
    ASSUME JamTypeOK, StepOfHead, Revoked, SilentWhenOff, [JamNext]_jamVars
    PROVE  SilentWhenOff'
<1>1. DisarmQueued => DisarmQueued' \/ (Runs("disarm") /\ step' = "ready")
  BY DisarmStays
<1>2. CASE Disarm
  <2>1. DisarmQueued'
    <3>1. Append(queue, [kind |-> "disarm", at |-> generation, input |-> None])[Len(queue) + 1].kind
             = "disarm"
      BY AppendKeeps DEF JamTypeOK, Tasks
    <3>2. Len(queue') = Len(queue) + 1 /\ Len(queue) \in Nat
      BY <1>2, AppendKeeps DEF Disarm, Enqueue, JamTypeOK, Tasks
    <3> QED BY <1>2, <3>1, <3>2 DEF Disarm, Enqueue, DisarmQueued
  <2> QED BY <2>1 DEF SilentWhenOff
<1>3. CASE AcceptFaults \/ DispatchFails \/ DisarmFails
  BY <1>3 DEF AcceptFaults, DispatchFails, DisarmFails, FailSafe, Latch, SilentWhenOff
<1>4. CASE DisarmReturns \/ StopReturns
  BY <1>4 DEF DisarmReturns, StopReturns, SilentWhenOff
<1>5. CASE ArmStores
  <2>1. session' # NoSession
    BY <1>5, TailKeeps, JamAssumption DEF ArmStores, Runs, Task, Tasks, JamTypeOK
  <2> QED BY <2>1 DEF SilentWhenOff
<1>6. CASE HostPlays
  <2>1. UNCHANGED <<session, faulted, queue, step>> /\ step = "noteOn"
    BY <1>6 DEF HostPlays, consumerVars
  <2>2. session = NoSession => DisarmQueued'
    BY <2>1 DEF Revoked, DisarmQueued
  <2> QED BY <2>1, <2>2 DEF SilentWhenOff
<1>7. CASE \E p \in Pitches : HostReleases(p) \/ HostLeaseEnds(p)
  BY <1>7 DEF HostReleases, HostLeaseEnds, consumerVars, SilentWhenOff, DisarmQueued
<1>8. ASSUME UNCHANGED <<session, faulted, generation, sounding>>, ~Runs("disarm") \/ step' # "ready"
      PROVE  SilentWhenOff'
  BY <1>1, <1>8 DEF SilentWhenOff
<1>9. CASE \/ (\E s \in Sessions : Arm(s)) \/ (\E input \in Frames \cup {Invalid} : Accept(input))
          \/ UNCHANGED jamVars
  <2>1. UNCHANGED <<session, faulted, generation, sounding, step>>
    BY <1>9 DEF Arm, Accept, consumerVars, jamVars
  <2>2. UNCHANGED queue \/ (\E t \in Tasks : queue' = Append(queue, t))
    <3>1. /\ \A s \in Sessions : [kind |-> "arm", at |-> generation, input |-> s] \in Tasks
          /\ \A input \in Frames \cup {Invalid} :
                [kind |-> "accept", at |-> generation, input |-> input] \in Tasks
      BY DEF Tasks, JamTypeOK
    <3> QED BY <1>9, <3>1 DEF Arm, Accept, Enqueue, jamVars
  <2>3. DisarmQueued => DisarmQueued'
    BY <2>2, AppendKeeps DEF DisarmQueued, JamTypeOK
  <2> QED BY <2>1, <2>3 DEF SilentWhenOff
<1>10. CASE ArmBegins \/ ArmRefused
  <2>1. UNCHANGED <<session, faulted, generation, sounding>> /\ ~Runs("disarm")
    BY <1>10 DEF ArmBegins, ArmRefused, Runs, consumerVars
  <2> QED BY <1>8, <2>1
<1>11. CASE AcceptRefused \/ AcceptUnsupported \/ AcceptDispatches
  <2>1. UNCHANGED <<session, faulted, generation, sounding>> /\ ~Runs("disarm")
    BY <1>11 DEF AcceptRefused, AcceptUnsupported, AcceptDispatches, Begins, Runs, consumerVars
  <2> QED BY <1>8, <2>1
<1>12. CASE NoteOnReturns \/ NoteOffReturns \/ FailSafeEnds
  <2>1. UNCHANGED <<session, faulted, generation, sounding>> /\ ~Runs("disarm")
    BY <1>12 DEF NoteOnReturns, NoteOffReturns, FailSafeEnds, Runs, StepOfHead
  <2> QED BY <1>8, <2>1
<1>13. CASE DisarmBegins
  BY <1>8, <1>13 DEF DisarmBegins, Await, consumerVars
<1> QED BY <1>2, <1>3, <1>4, <1>5, <1>6, <1>7, <1>9, <1>10, <1>11, <1>12, <1>13
        DEF JamNext, Calls, Queue, Host

-----------------------------------------------------------------------------
LEMMA JamInitInv == JamInit => JamInv
<1> SUFFICES ASSUME JamInit PROVE JamInv
  OBVIOUS
<1>1. Cardinality({}) <= MaxNotes
  BY FS_EmptySet, JamAssumption
<1>2. faulted \in BOOLEAN
  BY Zenon DEF JamInit
<1>3. JamTypeOK
  BY <1>1, <1>2 DEF JamInit, JamTypeOK
<1>4. StepOfHead /\ OlderBeforeDisarm /\ Revoked /\ Sounds /\ ArmedAfterPanic /\ SilentWhenOff
  BY DEF JamInit, StepOfHead, OlderBeforeDisarm, Revoked, Sounds, ArmedAfterPanic, SilentWhenOff
<1> QED BY <1>3, <1>4 DEF JamInv

LEMMA JamStepInv == JamInv /\ [JamNext]_jamVars => JamInv'
BY TypeStep, HeadStep, OlderStep, RevokedStep, SoundsStep, ArmedStep, SilentStep DEF JamInv

(* The inductive invariant holds in every reachable state.                 *)
THEOREM JamInvariance == JamSpec => []JamInv
BY JamInitInv, JamStepInv, PTL DEF JamSpec

(* Every variable of the consumer keeps its type, and no more than         *)
(* MaxNotes notes are held.                                                *)
THEOREM JamTyped == JamSpec => []JamTypeOK
<1>1. JamInv => JamTypeOK
  BY DEF JamInv
<1> QED BY <1>1, JamInvariance, PTL

(* A session that was given up leaves silence, a queued panic or a latched *)
(* fault, whatever calls and failures came in between; and between the     *)
(* dispatches of an armed session whatever sounds is held.                 *)
THEOREM SoundKnown == JamSpec => []SoundAccounted
<1>1. JamInv => SilentWhenOff
  BY DEF JamInv
<1>2. JamInv => HeldSounds
  BY DEF JamInv, Sounds, HeldSounds
<1> QED BY <1>1, <1>2, JamInvariance, PTL DEF SoundAccounted

(* No session is armed before the panics of all earlier disarms have run.  *)
THEOREM PanicsFirst == JamSpec => []ArmedAfterPanic
<1>1. JamInv => ArmedAfterPanic
  BY DEF JamInv
<1> QED BY <1>1, JamInvariance, PTL
=============================================================================

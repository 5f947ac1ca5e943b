-------------------------- MODULE RemoteJamConsumer --------------------------
(***************************************************************************)
(* RemoteJamBitwigConsumer of packages/adapters/bitwig: it plays the notes *)
(* of a remote musician on Bitwig while an operator has armed a session.   *)
(*                                                                         *)
(* arm, accept and disarm put a task each behind the promise of the task   *)
(* before it, so the tasks that have not settled form a queue whose head   *)
(* runs.  step is the await of the head, "ready" while it has not begun:   *)
(* other calls come in between, and disarm takes effect when it is called, *)
(* long before its task runs.  A generation, captured by each call, tells  *)
(* the tasks that a revocation has overtaken.                              *)
(*                                                                         *)
(* isWriteAuthorized and isAuthenticatedPeer belong to the operator and    *)
(* the transport and may change at any time, so every look at them may go  *)
(* either way.                                                             *)
(***************************************************************************)
EXTENDS Naturals, FiniteSets, Sequences

CONSTANTS Sessions, NoSession,
          Pitches,
          Frames,          \* the valid frames that may arrive
          Invalid, None,   \* input that is no frame; the argument of disarm
          MaxNotes,        \* notes held at once
          MaxQueue,        \* bound on the calls in progress
          MaxGeneration    \* bound on the revocations, past which none is asked for

ASSUME JamAssumption ==
    /\ NoSession \notin Sessions
    /\ IsFiniteSet(Pitches)
    /\ Frames \subseteq [session : Sessions, sequence : Nat \ {0},
                         kind : {"on", "off", "stop", "other"}, pitch : Pitches]
    /\ Invalid \notin Frames
    /\ MaxNotes \in Nat \ {0} /\ MaxQueue \in Nat /\ MaxGeneration \in Nat

VARIABLES
    session, sequence, notes, faulted, generation,
    queue,       \* the tasks that have not settled
    step,        \* what the first of them awaits
    sounding     \* the injected pitches that the host tracks

consumerVars == <<session, sequence, notes, faulted, generation>>
jamVars == <<consumerVars, queue, step, sounding>>

Tasks == [kind : {"arm"}, at : Nat, input : Sessions]
           \cup [kind : {"accept"}, at : Nat, input : Frames \cup {Invalid}]
           \cup [kind : {"disarm"}, at : Nat, input : {None}]
PortCalls == {"status", "noteOn", "noteOff", "panic", "failSafe", "disarm"}

(* The host may still track pitches of an earlier process.                 *)
JamInit ==
    /\ session = NoSession /\ sequence = 0 /\ notes = {}
    /\ faulted = FALSE /\ generation = 0
    /\ queue = <<>> /\ step = "ready"
    /\ sounding \in SUBSET Pitches

Task == Head(queue)
Runs(kind) == queue # <<>> /\ Task.kind = kind

Enqueue(kind, input) ==
    /\ Len(queue) < MaxQueue
    /\ queue' = Append(queue, [kind |-> kind, at |-> generation, input |-> input])

Await(call) == step' = call /\ UNCHANGED queue

(* The task settles, and the next one may begin.                           *)
Settle == step' = "ready" /\ queue' = Tail(queue)

-----------------------------------------------------------------------------
(* arm.                                                                    *)

(* Mutant: a disarm that comes while arm waits does not revoke it.         *)
UnrevokedAtCall == Task.at <= generation

Unrevoked == Task.at = generation

Arm(s) ==
    /\ session = NoSession /\ ~faulted
    /\ Enqueue("arm", s)
    /\ UNCHANGED <<consumerVars, step, sounding>>

ArmBegins ==
    /\ Runs("arm") /\ step = "ready"
    /\ Unrevoked
    /\ Await("status")
    /\ UNCHANGED <<consumerVars, sounding>>

(* Mutant: a rejected task is never followed by the next one.              *)
RejectionBlocks == Runs("arm") /\ UNCHANGED jamVars

(* Revoked, not authorized, no usable MIDI profile, or a second session.   *)
ArmRefused ==
    /\ Runs("arm")
    /\ Settle
    /\ UNCHANGED <<consumerVars, sounding>>

ArmStores ==
    /\ Runs("arm") /\ step = "status"
    /\ sounding = {}
    /\ Unrevoked
    /\ session = NoSession /\ ~faulted
    /\ session' = Task.input
    /\ sequence' = 0 /\ notes' = {}
    /\ Settle
    /\ UNCHANGED <<faulted, generation, sounding>>

-----------------------------------------------------------------------------
(* accept.                                                                 *)

Accept(input) ==
    /\ Enqueue("accept", input)
    /\ UNCHANGED <<consumerVars, step, sounding>>

(* Mutant: what went wrong is reported, and that is all.                   *)
ReportOnly == Settle /\ UNCHANGED <<faulted, session, generation>>

(* #failSafe, up to its panic.                                             *)
FailSafe ==
    /\ faulted' = TRUE
    /\ session' = NoSession
    /\ generation' = generation + 1
    /\ Await("failSafe")

Begins(kind) == Runs(kind) /\ step = "ready"

(* A frame for an armed session that nobody has revoked since the call.    *)
Live ==
    /\ Task.input # Invalid
    /\ Unrevoked
    /\ session # NoSession /\ ~faulted

Ours == Live /\ Task.input.session = session

(* Refused without a trace: no session, or a foreign or an old frame.      *)
AcceptRefused ==
    /\ Begins("accept")
    /\ IF Task.input = Invalid THEN session = NoSession
       ELSE ~Ours \/ Task.input.sequence <= sequence
    /\ Settle
    /\ UNCHANGED <<consumerVars, sounding>>

(* Not a frame, authorization revoked, or a gap in the sequence.           *)
AcceptFaults ==
    /\ Begins("accept")
    /\ (Task.input = Invalid /\ session # NoSession) \/ Live
    /\ FailSafe
    /\ UNCHANGED <<sequence, notes, sounding>>

InOrder == Ours /\ Task.input.sequence = sequence + 1

(* Mutant: one note more than the limit.                                   *)
RoomBeyondLimit == Cardinality(notes) <= MaxNotes

Room == Cardinality(notes) < MaxNotes

Starts == Task.input.kind = "on" /\ Task.input.pitch \notin notes /\ Room
Releases == Task.input.kind = "off" /\ Task.input.pitch \in notes

AcceptUnsupported ==
    /\ Begins("accept") /\ InOrder
    /\ Task.input.kind # "stop" /\ ~Starts /\ ~Releases
    /\ sequence' = sequence + 1
    /\ Settle
    /\ UNCHANGED <<session, notes, faulted, generation, sounding>>

AcceptDispatches ==
    /\ Begins("accept") /\ InOrder
    /\ \/ Starts /\ Await("noteOn")
       \/ Releases /\ Await("noteOff")
       \/ Task.input.kind = "stop" /\ Await("panic")
    /\ sequence' = sequence + 1
    /\ UNCHANGED <<session, notes, faulted, generation, sounding>>

NoteOnReturns ==
    /\ step = "noteOn"
    /\ notes' = notes \cup {Task.input.pitch}
    /\ Settle
    /\ UNCHANGED <<session, sequence, faulted, generation, sounding>>

NoteOffReturns ==
    /\ step = "noteOff"
    /\ Task.input.pitch \notin sounding
    /\ notes' = notes \ {Task.input.pitch}
    /\ Settle
    /\ UNCHANGED <<session, sequence, faulted, generation, sounding>>

StopReturns ==
    /\ step = "panic"
    /\ sounding = {}
    /\ notes' = {}
    /\ Settle
    /\ UNCHANGED <<session, sequence, faulted, generation, sounding>>

(* Whether the host has played or released the note nobody knows.          *)
DispatchFails ==
    /\ step \in {"noteOn", "noteOff", "panic"}
    /\ FailSafe
    /\ UNCHANGED <<sequence, notes, sounding>>

(* The panic of #failSafe returns, or fails and the fault stays latched.   *)
FailSafeEnds ==
    /\ step = "failSafe"
    /\ notes' = {}
    /\ Settle
    /\ UNCHANGED <<session, sequence, faulted, generation, sounding>>

-----------------------------------------------------------------------------
(* disarm.                                                                 *)

(* The revocation is immediate, the panic waits for its turn.              *)
Disarm ==
    /\ generation < MaxGeneration
    /\ Enqueue("disarm", None)
    /\ generation' = generation + 1
    /\ session' = NoSession
    /\ faulted' = FALSE
    /\ UNCHANGED <<sequence, notes, step, sounding>>

DisarmBegins ==
    /\ Begins("disarm")
    /\ Await("disarm")
    /\ UNCHANGED <<consumerVars, sounding>>

DisarmReturns ==
    /\ step = "disarm"
    /\ sounding = {}
    /\ notes' = {} /\ sequence' = 0
    /\ Settle
    /\ UNCHANGED <<session, faulted, generation, sounding>>

Latch == faulted' = TRUE

DisarmFails ==
    /\ step = "disarm"
    /\ Latch
    /\ notes' = {} /\ sequence' = 0
    /\ Settle
    /\ UNCHANGED <<session, generation, sounding>>

-----------------------------------------------------------------------------
(* The MIDI profile in Bitwig.  It executes the calls in the order they    *)
(* were sent, and a call may fail after it had its effect.                 *)

HostPlays ==
    /\ step = "noteOn"
    /\ sounding' = sounding \cup {Task.input.pitch}
    /\ UNCHANGED <<consumerVars, queue, step>>

(* One pitch at a time; an all-notes-off may fail in the middle.           *)
HostReleases(p) ==
    /\ \/ step = "noteOff" /\ p = Task.input.pitch
       \/ step \in {"panic", "failSafe", "disarm"}
    /\ sounding' = sounding \ {p}
    /\ UNCHANGED <<consumerVars, queue, step>>

(* The lease of ten seconds; the consumer is not told.                     *)
HostLeaseEnds(p) ==
    /\ p \in sounding
    /\ sounding' = sounding \ {p}
    /\ UNCHANGED <<consumerVars, queue, step>>

-----------------------------------------------------------------------------
Calls ==
    \/ \E s \in Sessions : Arm(s)
    \/ \E input \in Frames \cup {Invalid} : Accept(input)
    \/ Disarm

Queue ==
    \/ ArmBegins \/ ArmRefused \/ ArmStores
    \/ AcceptRefused \/ AcceptFaults \/ AcceptUnsupported \/ AcceptDispatches
    \/ NoteOnReturns \/ NoteOffReturns \/ StopReturns \/ DispatchFails \/ FailSafeEnds
    \/ DisarmBegins \/ DisarmReturns \/ DisarmFails

Host == HostPlays \/ \E p \in Pitches : HostReleases(p) \/ HostLeaseEnds(p)

JamNext == Calls \/ Queue \/ Host

JamSpec == JamInit /\ [][JamNext]_jamVars

(* Port calls settle and each task resumes; nobody has to call, and the    *)
(* host owes no effect.                                                    *)
JamFairSpec == JamSpec /\ WF_jamVars(Queue)

-----------------------------------------------------------------------------
(* Properties.                                                             *)

(* Every variable keeps its type, and no more than MaxNotes are held.      *)
JamTypeOK ==
    /\ session \in Sessions \cup {NoSession}
    /\ sequence \in Nat
    /\ notes \subseteq Pitches /\ Cardinality(notes) <= MaxNotes
    /\ faulted \in BOOLEAN
    /\ generation \in Nat
    /\ queue \in Seq(Tasks)
    /\ step \in {"ready"} \cup PortCalls
    /\ sounding \subseteq Pitches

DisarmQueued == \E i \in 1 .. Len(queue) : queue[i].kind = "disarm"

(* Once the session was given up, the host is silent, or its panic is      *)
(* still to come, or the fault is latched and keeps every session out: no  *)
(* order of calls and no failure leaves a note behind without a trace.     *)
SilentWhenOff ==
    session = NoSession /\ ~faulted /\ generation > 0 => sounding = {} \/ DisarmQueued

(* While a session is armed and no note is being dispatched, the host      *)
(* plays nothing that the consumer does not hold, so that a later note off *)
(* or stop can release it.                                                 *)
HeldSounds == session # NoSession /\ step = "ready" => sounding \subseteq notes

(* Both: with a session and without one, somebody is going to end whatever *)
(* the host plays, or the fault is latched.                                *)
SoundAccounted == SilentWhenOff /\ HeldSounds

(* A session is only ever armed after the panics of all disarms that were  *)
(* called before: none of them silences it, and none is overtaken by it.   *)
ArmedAfterPanic == session # NoSession => ~DisarmQueued

(* Every disarm ends in silence or in a latched fault.                     *)
DisarmSilences == DisarmQueued ~> sounding = {} \/ faulted
=============================================================================

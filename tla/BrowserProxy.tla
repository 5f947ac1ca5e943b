---------------------------- MODULE BrowserProxy ----------------------------
(***************************************************************************)
(* The WebSocket proxy of packages/gateway-http through which the gateway  *)
(* calls the browser that owns the song.  It keeps one session, a map of   *)
(* the RPCs that await an answer, and no copy of the song.                 *)
(*                                                                         *)
(* Each end of a socket has a state of its own: the browser may be gone    *)
(* while the server still sends, and the server may have given a session   *)
(* up while the browser still works on its frames.  down and up are sets:  *)
(* the browser's handler is asynchronous, so answers overtake each other.  *)
(* The connecting flag of the code is never seen set: handleUpgrade calls  *)
(* its callback before it returns.                                         *)
(***************************************************************************)
EXTENDS Naturals, FiniteSets

CONSTANTS Sockets,       \* connection attempts, each a WebSocket of its own
          NoSocket,
          Rpcs,          \* calls, each with its unique id
          Mutating,      \* those of executeCommandBatch; the others inspect
          Results,       \* what a browser may answer
          NoResult,
          MaxPending     \* maxPendingRequests

ASSUME ProxyAssumption ==
    /\ NoSocket \notin Sockets
    /\ Mutating \subseteq Rpcs
    /\ NoResult \notin Results
    /\ MaxPending \in Nat \ {0}

VARIABLES
    attached,    \* the proxy listens for upgrades
    active,      \* the current session
    srv, brw,    \* the two ends of each socket
    down, up,    \* frames on their way, or being worked on by the browser
    pending,     \* the map of RPCs that await an answer
    promise,     \* what each call came to
    result,      \* the value it resolved to
    sentOn       \* history: the session a pending call was sent on

sessionVars == <<attached, active, srv, brw>>
wireVars == <<down, up>>
rpcVars == <<pending, promise, result, sentOn>>
vars == <<sessionVars, wireVars, rpcVars>>

ServerStates == {"unused", "authorizing", "open", "closing", "closed"}
BrowserStates == {"unused", "live", "gone"}
Answers == [rpc : Rpcs, kind : {"result", "error", "invalid", "garbage"},
            value : Results \cup {NoResult}]
(* unknown is outcome_unknown; unavailable stands for the errors that say  *)
(* that nothing was changed: not_connected, busy, timeout, transport_error.*)
Settled == {"resolved", "remote_error", "invalid_response", "unknown", "unavailable"}

Init ==
    /\ attached = TRUE
    /\ active = NoSocket
    /\ srv = [s \in Sockets |-> "unused"]
    /\ brw = [s \in Sockets |-> "unused"]
    /\ down = [s \in Sockets |-> {}]
    /\ up = [s \in Sockets |-> {}]
    /\ pending = {}
    /\ promise = [r \in Rpcs |-> "new"]
    /\ result = [r \in Rpcs |-> NoResult]
    /\ sentOn = [r \in Rpcs |-> NoSocket]

-----------------------------------------------------------------------------
(* Sessions.                                                               *)

BrowserConnects(s) ==
    /\ srv[s] = "unused"
    /\ srv' = [srv EXCEPT ![s] = "authorizing"]
    /\ brw' = [brw EXCEPT ![s] = "live"]
    /\ UNCHANGED <<attached, active, wireVars, rpcVars>>

(* The browser closes its end; frames it has not looked at are lost.       *)
BrowserGone(s) ==
    /\ brw[s] = "live"
    /\ brw' = [brw EXCEPT ![s] = "gone"]
    /\ down' = [down EXCEPT ![s] = {}]
    /\ UNCHANGED <<attached, active, srv, up, rpcVars>>

SlotFree == active = NoSocket

(* onUpgrade, after the pairing authority has answered.                    *)
UpgradeAccepted(s) ==
    /\ srv[s] = "authorizing"
    /\ attached
    /\ SlotFree
    /\ active' = s
    /\ srv' = [srv EXCEPT ![s] = "open"]
    /\ UNCHANGED <<attached, brw, wireVars, rpcVars>>

(* Not authorized, a session exists, or the server shuts down.             *)
UpgradeRejected(s) ==
    /\ srv[s] = "authorizing"
    /\ srv' = [srv EXCEPT ![s] = "closed"]
    /\ UNCHANGED <<attached, active, brw, wireVars, rpcVars>>

(* What an unanswered call comes to.                                       *)
Rejection(r) == IF r \in Mutating THEN "unknown" ELSE "unavailable"

(* The history of the entries that are left.                               *)
EntriesOnly == sentOn' = [r \in Rpcs |-> IF r \in pending' THEN sentOn[r] ELSE NoSocket]

(* Mutant: the pending calls are forgotten without being rejected.         *)
ForgetCalls(s, calls) ==
    /\ active' = IF s = active THEN NoSocket ELSE active
    /\ pending' = IF s = active THEN {} ELSE pending
    /\ promise' = calls

(* Mutant: any session that ends takes the current one along.              *)
DisconnectAny(s, calls) ==
    /\ active' = NoSocket
    /\ pending' = {}
    /\ promise' = [r \in Rpcs |-> IF calls[r] = "pending" THEN Rejection(r) ELSE calls[r]]

(* disconnect, where calls is what the promises are before it runs.        *)
Disconnect(s, calls) ==
    /\ active' = IF s = active THEN NoSocket ELSE active
    /\ pending' = IF s = active THEN {} ELSE pending
    /\ promise' = [r \in Rpcs |->
                      IF s = active /\ calls[r] = "pending" THEN Rejection(r) ELSE calls[r]]

(* The close frame of the browser comes after all its answers.             *)
SocketClosing(s) ==
    /\ srv[s] = "open"
    /\ brw[s] = "gone"
    /\ up[s] = {}
    /\ srv' = [srv EXCEPT ![s] = "closing"]
    /\ UNCHANGED <<attached, active, brw, wireVars, rpcVars>>

(* The error event, which the close event follows.                         *)
SocketFails(s) ==
    /\ srv[s] \in {"open", "closing"}
    /\ Disconnect(s, promise)
    /\ srv' = [srv EXCEPT ![s] = "closing"]
    /\ up' = [up EXCEPT ![s] = {}]
    /\ EntriesOnly
    /\ UNCHANGED <<attached, brw, down, result>>

SocketClosed(s) ==
    /\ srv[s] = "closing"
    /\ Disconnect(s, promise)
    /\ srv' = [srv EXCEPT ![s] = "closed"]
    /\ up' = [up EXCEPT ![s] = {}]
    /\ EntriesOnly
    /\ UNCHANGED <<attached, brw, down, result>>

(* close: an upgrade that is being authorized finds the server closed.     *)
Shutdown ==
    /\ attached
    /\ attached' = FALSE
    /\ srv' = [s \in Sockets |-> IF s = active THEN "closing" ELSE srv[s]]
    /\ Disconnect(active, promise)
    /\ EntriesOnly
    /\ UNCHANGED <<brw, wireVars, result>>

-----------------------------------------------------------------------------
(* Calls.                                                                  *)

(* Mutant: the bound on pending calls is not enforced.                     *)
CallableUnbounded == active # NoSocket /\ srv[active] = "open"

Callable ==
    /\ active # NoSocket
    /\ srv[active] = "open"
    /\ Cardinality(pending) < MaxPending

CallSent(r) ==
    /\ promise[r] = "new"
    /\ Callable
    /\ promise' = [promise EXCEPT ![r] = "pending"]
    /\ pending' = pending \cup {r}
    /\ sentOn' = [sentOn EXCEPT ![r] = active]
    /\ down' = IF brw[active] = "live" THEN [down EXCEPT ![active] = @ \cup {r}] ELSE down
    /\ UNCHANGED <<sessionVars, up, result>>

CallRefused(r) ==
    /\ promise[r] = "new"
    /\ ~Callable
    /\ promise' = [promise EXCEPT ![r] = "unavailable"]
    /\ UNCHANGED <<sessionVars, wireVars, pending, result, sentOn>>

Call(r) == CallSent(r) \/ CallRefused(r)

RemoveEntry(r) == pending' = pending \ {r}

(* The timer of the call, or the error callback of its send.               *)
CallFails(r) ==
    /\ r \in pending
    /\ RemoveEntry(r)
    /\ promise' = [promise EXCEPT ![r] = Rejection(r)]
    /\ EntriesOnly
    /\ UNCHANGED <<sessionVars, wireVars, result>>

Awaited(s, a) == s = active /\ a.kind # "garbage" /\ a.rpc \in pending

(* receiveResponse, for an answer that the map still awaits.               *)
AnswerAccepted(s) ==
    \E a \in up[s] :
        /\ srv[s] \in {"open", "closing"}
        /\ Awaited(s, a)
        /\ a.kind \in {"result", "error"}
        /\ RemoveEntry(a.rpc)
        /\ promise' = [promise EXCEPT ![a.rpc] =
                          IF a.kind = "result" THEN "resolved" ELSE "remote_error"]
        /\ result' = [result EXCEPT ![a.rpc] = a.value]
        /\ up' = [up EXCEPT ![s] = @ \ {a}]
        /\ EntriesOnly
        /\ UNCHANGED <<sessionVars, down>>

(* protocolFailure: an answer to nothing, to a call that timed out, from a *)
(* session that was given up, or with a result that does not validate.     *)
ProtocolFailure(s) ==
    \E a \in up[s] :
        /\ srv[s] \in {"open", "closing"}
        /\ Awaited(s, a) => a.kind = "invalid"
        /\ Disconnect(s, IF Awaited(s, a)
                         THEN [promise EXCEPT ![a.rpc] = "invalid_response"] ELSE promise)
        /\ srv' = [srv EXCEPT ![s] = "closing"]
        /\ up' = [up EXCEPT ![s] = @ \ {a}]
        /\ EntriesOnly
    /\ UNCHANGED <<attached, brw, down, result>>

(* Some browser answers one of its calls, in some way.                     *)
BrowserAnswers(s) ==
    \E r \in down[s], a \in Answers :
        /\ a.rpc = r
        /\ a.value = NoResult <=> a.kind # "result"
        /\ down' = [down EXCEPT ![s] = @ \ {r}]
        /\ up' = [up EXCEPT ![s] = @ \cup {a}]
        /\ UNCHANGED <<sessionVars, rpcVars>>

-----------------------------------------------------------------------------
Serve(s) ==
    \/ UpgradeAccepted(s) \/ UpgradeRejected(s)
    \/ SocketClosing(s) \/ SocketFails(s) \/ SocketClosed(s)
    \/ AnswerAccepted(s) \/ ProtocolFailure(s)

Next ==
    \/ \E s \in Sockets : BrowserConnects(s) \/ BrowserGone(s) \/ BrowserAnswers(s)
    \/ \E s \in Sockets : Serve(s)
    \/ \E r \in Rpcs : Call(r) \/ CallFails(r)
    \/ Shutdown

Spec == Init /\ [][Next]_vars

(* Timers fire; the browser owes nothing. *)
FairSpec == Spec /\ \A r \in Rpcs : WF_vars(CallFails(r))

-----------------------------------------------------------------------------
(* Properties.                                                             *)

(* Every variable keeps its type, and the map its bound                    *)
(* maxPendingRequests.                                                     *)
TypeOK ==
    /\ attached \in BOOLEAN
    /\ active \in Sockets \cup {NoSocket}
    /\ srv \in [Sockets -> ServerStates]
    /\ brw \in [Sockets -> BrowserStates]
    /\ \A s \in Sockets : down[s] \subseteq Rpcs /\ up[s] \subseteq Answers
    /\ pending \subseteq Rpcs /\ Cardinality(pending) <= MaxPending
    /\ promise \in [Rpcs -> {"new", "pending"} \cup Settled]
    /\ result \in [Rpcs -> Results \cup {NoResult}]
    /\ sentOn \in [Rpcs -> Sockets \cup {NoSocket}]

(* Whoever holds an open socket is the session: concurrent upgrades, late  *)
(* close events and protocol failures never leave a second browser that    *)
(* believes to be connected, nor drop the new one for an old one's sake.   *)
OpenIsActive == \A s \in Sockets : srv[s] = "open" => active = s

(* The map holds exactly the calls without an outcome: none is forgotten   *)
(* when a session ends, and none takes up a place after it was settled.    *)
PendingUnsettled == pending = {r \in Rpcs : promise[r] = "pending"}

(* A call waits only for the session it was sent on, so the answer of one  *)
(* browser never settles a call that was meant for another.                *)
PendingOnActive == \A r \in pending : sentOn[r] = active

(* All of it: one session, and what the map holds is exactly what that     *)
(* session still owes.                                                     *)
SessionExact == OpenIsActive /\ PendingUnsettled /\ PendingOnActive

(* Every call comes to an end although the browser may never answer.       *)
CallsSettle == \A r \in Rpcs : promise[r] = "pending" ~> promise[r] \in Settled
=============================================================================

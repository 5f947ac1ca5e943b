-------------------------- MODULE PairingAuthority --------------------------
(***************************************************************************)
(* PairingAuthority of packages/gateway-core: bearer tokens with an expiry *)
(* and a request quota, in a bounded process-lifetime registry.            *)
(*                                                                         *)
(* One JavaScript thread: an action is the code between two awaits.  The   *)
(* operations on one token run one at a time: #recordOperations maps the   *)
(* token to the promise of its latest operation and every new operation    *)
(* awaits the one it replaces, so the pending operations of a token form a *)
(* queue whose head runs.  Hashing a token precedes all use of state, so a *)
(* call begins here when its hash is there.                                *)
(***************************************************************************)
EXTENDS Integers, FiniteSets, Sequences

CONSTANTS Clients,      \* concurrent callers
          Tokens,       \* token hashes
          NoToken,
          PairingTTL, MaxRequests,
          Capacity,     \* of the registry, and of the operations in progress
          MaxTime       \* bound on the clock

ASSUME PairingAssumption ==
    /\ NoToken \notin Tokens
    /\ PairingTTL \in Nat \ {0}
    /\ MaxRequests \in Nat \ {0}
    /\ Capacity \in Nat \ {0}
    /\ MaxTime \in Nat

VARIABLES
    now,
    records,        \* tokens whose record the registry holds
    issued,         \* tokens ever generated
    expiresAt, usedRequests, revoked,   \* the records, held or detached
    pending,        \* #pendingTokenHashes
    queue,          \* per token, the operations that hold or await its lock
    pc, call, token, at,   \* the calls: await, request, token, time of the revocation
    granted         \* history: authorizations returned per token

recordVars == <<records, issued, expiresAt, usedRequests, revoked>>
callVars == <<pc, call, token, at>>
vars == <<now, recordVars, pending, queue, callVars, granted>>

(* What a queued operation asks for; authorize is asked for a scope that   *)
(* the token has or that it lacks.                                         *)
Requests == {"none", "inScope", "outOfScope", "revoke"}
ClaimPhases == {"allowedAudit", "rollbackAudit"}
LockedPhases == {"deniedAudit", "revokeAudit"} \cup ClaimPhases
Phases == {"idle", "issueAudit", "waiting"} \cup LockedPhases

Init ==
    /\ now = 0
    /\ records = {} /\ issued = {}
    /\ expiresAt = [t \in Tokens |-> 0]
    /\ usedRequests = [t \in Tokens |-> 0]
    /\ revoked = {}
    /\ pending = {}
    /\ queue = [t \in Tokens |-> <<>>]
    /\ pc = [c \in Clients |-> "idle"]
    /\ call = [c \in Clients |-> "none"]
    /\ token = [c \in Clients |-> NoToken]
    /\ at = [c \in Clients |-> 0]
    /\ granted = [t \in Tokens |-> 0]

Goto(c, phase) == pc' = [pc EXCEPT ![c] = phase]

Return(c) ==
    /\ Goto(c, "idle")
    /\ call' = [call EXCEPT ![c] = "none"]
    /\ token' = [token EXCEPT ![c] = NoToken]
    /\ at' = [at EXCEPT ![c] = 0]

(* Every read of the registry but peek cleans it up first. *)
KeptRecords == {t \in records : expiresAt[t] > now}

Tick ==
    /\ now < MaxTime
    /\ now' = now + 1
    /\ UNCHANGED <<recordVars, pending, queue, callVars, granted>>

RetentionStatus ==
    /\ records' = KeptRecords
    /\ UNCHANGED <<now, issued, expiresAt, usedRequests, revoked, pending, queue,
                   callVars, granted>>

-----------------------------------------------------------------------------
(* issue.                                                                  *)

(* Mutant: tokens being issued are not counted. *)
SlotUnreserved == Cardinality(KeptRecords) < Capacity

SlotFree == Cardinality(KeptRecords) + Cardinality(pending) < Capacity

IssueBegin(c, t) ==
    /\ pc[c] = "idle"
    /\ t \notin issued
    /\ SlotFree
    /\ records' = KeptRecords
    /\ issued' = issued \cup {t}
    /\ expiresAt' = [expiresAt EXCEPT ![t] = now + PairingTTL]
    /\ pending' = pending \cup {t}
    /\ token' = [token EXCEPT ![c] = t]
    /\ Goto(c, "issueAudit")
    /\ UNCHANGED <<now, usedRequests, revoked, queue, call, at, granted>>

IssueRefused(c) ==
    /\ pc[c] = "idle"
    /\ ~SlotFree
    /\ records' = KeptRecords
    /\ UNCHANGED <<now, issued, expiresAt, usedRequests, revoked, pending, queue,
                   callVars, granted>>

IssueFails(c) ==
    /\ pc[c] = "issueAudit"
    /\ pending' = pending \ {token[c]}
    /\ Return(c)
    /\ UNCHANGED <<now, recordVars, queue, granted>>

(* set() checks the capacity again, without the reservations. *)
IssueStores(c) ==
    /\ pc[c] = "issueAudit"
    /\ records' = IF Cardinality(KeptRecords) < Capacity
                  THEN KeptRecords \cup {token[c]}
                  ELSE KeptRecords
    /\ pending' = pending \ {token[c]}
    /\ Return(c)
    /\ UNCHANGED <<now, issued, expiresAt, usedRequests, revoked, queue, granted>>

-----------------------------------------------------------------------------
(* #withRecordLock, authorize and revoke.                                  *)

JoinQueue(c, t) == queue' = [queue EXCEPT ![t] = Append(@, c)]

ActiveOperations == Cardinality({c \in Clients : pc[c] \in {"waiting"} \cup LockedPhases})

OperationBegin(c, t, request) ==
    /\ pc[c] = "idle"
    /\ ActiveOperations < Capacity
    /\ JoinQueue(c, t)
    /\ call' = [call EXCEPT ![c] = request]
    /\ token' = [token EXCEPT ![c] = t]
    /\ Goto(c, "waiting")
    /\ UNCHANGED <<now, recordVars, pending, at, granted>>

HasLock(c) == pc[c] = "waiting" /\ Head(queue[token[c]]) = c

(* Mutant: an expired call returns without settling its promise. *)
LeaveSilently(c) ==
    /\ queue' = IF pc[c] = "rollbackAudit" THEN queue
                ELSE [queue EXCEPT ![token[c]] = Tail(@)]
    /\ Return(c)

(* The finally clause: the next operation on the token may run. *)
Leave(c) ==
    /\ queue' = [queue EXCEPT ![token[c]] = Tail(@)]
    /\ Return(c)

Usable(t) ==
    /\ t \in KeptRecords
    /\ t \notin revoked
    /\ usedRequests[t] < MaxRequests

AuthorizeDenied(c) ==
    /\ HasLock(c)
    /\ call[c] # "revoke"
    /\ call[c] = "outOfScope" \/ ~Usable(token[c])
    /\ records' = KeptRecords
    /\ Goto(c, "deniedAudit")
    /\ UNCHANGED <<now, issued, expiresAt, usedRequests, revoked, pending, queue,
                   call, token, at, granted>>

DeniedEnds(c) ==
    /\ pc[c] = "deniedAudit"
    /\ Leave(c)
    /\ UNCHANGED <<now, recordVars, pending, granted>>

(* The quota is claimed before the audit and given back if that fails. *)
AuthorizeClaims(c) ==
    /\ HasLock(c)
    /\ call[c] = "inScope"
    /\ Usable(token[c])
    /\ records' = KeptRecords
    /\ usedRequests' = [usedRequests EXCEPT ![token[c]] = @ + 1]
    /\ Goto(c, "allowedAudit")
    /\ UNCHANGED <<now, issued, expiresAt, revoked, pending, queue, call, token,
                   at, granted>>

AuthorizeReturns(c) ==
    /\ pc[c] = "allowedAudit"
    /\ expiresAt[token[c]] > now
    /\ granted' = [granted EXCEPT ![token[c]] = @ + 1]
    /\ Leave(c)
    /\ UNCHANGED <<now, recordVars, pending>>

AuthorizeExpired(c) ==
    /\ pc[c] = "allowedAudit"
    /\ expiresAt[token[c]] <= now
    /\ Goto(c, "rollbackAudit")
    /\ UNCHANGED <<now, recordVars, pending, queue, call, token, at, granted>>

(* Mutant: only a failed audit gives the request back. *)
RefundFailedAudit(c) ==
    usedRequests' = [usedRequests EXCEPT ![token[c]] =
                        IF pc[c] = "allowedAudit" THEN @ - 1 ELSE @]

Refund(c) == usedRequests' = [usedRequests EXCEPT ![token[c]] = @ - 1]

(* An audit failed, or the rollback after an expiry is audited. *)
AuthorizeRollsBack(c) ==
    /\ pc[c] \in ClaimPhases
    /\ Refund(c)
    /\ Leave(c)
    /\ UNCHANGED <<now, records, issued, expiresAt, revoked, pending, granted>>

RevokeUnknown(c) ==
    /\ HasLock(c)
    /\ call[c] = "revoke"
    /\ token[c] \notin KeptRecords
    /\ records' = KeptRecords
    /\ Leave(c)
    /\ UNCHANGED <<now, issued, expiresAt, usedRequests, revoked, pending, granted>>

RevokeBegin(c) ==
    /\ HasLock(c)
    /\ call[c] = "revoke"
    /\ token[c] \in KeptRecords
    /\ records' = KeptRecords
    /\ at' = [at EXCEPT ![c] = now]
    /\ Goto(c, "revokeAudit")
    /\ UNCHANGED <<now, issued, expiresAt, usedRequests, revoked, pending, queue,
                   call, token, granted>>

RevokeFails(c) ==
    /\ pc[c] = "revokeAudit"
    /\ Leave(c)
    /\ UNCHANGED <<now, recordVars, pending, granted>>

RevokeStores(c) ==
    /\ pc[c] = "revokeAudit"
    /\ revoked' = revoked \cup {token[c]}
    /\ expiresAt' = [expiresAt EXCEPT ![token[c]] = at[c]]
    /\ Leave(c)
    /\ UNCHANGED <<now, records, issued, usedRequests, pending,
                   granted>>

-----------------------------------------------------------------------------
Continue(c) ==
    \/ IssueFails(c) \/ IssueStores(c)
    \/ AuthorizeDenied(c) \/ DeniedEnds(c)
    \/ AuthorizeClaims(c) \/ AuthorizeReturns(c) \/ AuthorizeExpired(c)
    \/ AuthorizeRollsBack(c)
    \/ RevokeUnknown(c) \/ RevokeBegin(c) \/ RevokeFails(c) \/ RevokeStores(c)

Begin(c) ==
    \/ \E t \in Tokens : IssueBegin(c, t)
    \/ IssueRefused(c)
    \/ \E t \in Tokens, request \in Requests \ {"none"} : OperationBegin(c, t, request)

Next ==
    \/ Tick
    \/ RetentionStatus
    \/ \E c \in Clients : Begin(c) \/ Continue(c)

Spec == Init /\ [][Next]_vars

(* Audit sinks settle, and a settled promise wakes the call behind it. *)
FairSpec == Spec /\ \A c \in Clients : WF_vars(Continue(c))

-----------------------------------------------------------------------------
(* Properties.                                                             *)

(* Every variable keeps its type; in particular no record, held or         *)
(* detached, ever counts more requests than its quota, and the registry    *)
(* and the tokens being issued never exceed the capacity, so that a token  *)
(* that was audited as issued is always stored.                            *)
TypeOK ==
    /\ Cardinality(KeptRecords) + Cardinality(pending) <= Capacity
    /\ now \in 0 .. MaxTime
    /\ records \subseteq issued /\ issued \subseteq Tokens
    /\ expiresAt \in [Tokens -> Nat]
    /\ usedRequests \in [Tokens -> 0 .. MaxRequests]
    /\ revoked \subseteq issued
    /\ pending \subseteq issued
    /\ queue \in [Tokens -> Seq(Clients)]
    /\ pc \in [Clients -> Phases]
    /\ call \in [Clients -> Requests]
    /\ token \in [Clients -> Tokens \cup {NoToken}]
    /\ at \in [Clients -> Nat]
    /\ granted \in [Tokens -> Nat]

(* The quota counts every authorization that was returned and the one that *)
(* is being audited, and nothing else: concurrent requests cannot exceed   *)
(* the quota and a failed or expired one does not use it up. For that the  *)
(* operations on a token run one at a time, from the read of its record to *)
(* the last write, audits included.                                        *)
QuotaAccounted ==
    /\ \A t \in Tokens :
          usedRequests[t] = granted[t]
              + Cardinality({c \in Clients : pc[c] \in ClaimPhases /\ token[c] = t})
    /\ \A c, d \in Clients :
          pc[c] \in LockedPhases /\ pc[d] \in LockedPhases /\ token[c] = token[d] => c = d

(* Operations queued on a token all return, in whatever order they fail.   *)
OperationsReturn == \A c \in Clients : pc[c] # "idle" ~> pc[c] = "idle"
=============================================================================

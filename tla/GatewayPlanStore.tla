-------------------------- MODULE GatewayPlanStore --------------------------
(***************************************************************************)
(* GatewayPlanStore of packages/gateway-core, together with the execute    *)
(* route of packages/gateway-http that is its caller.                      *)
(*                                                                         *)
(* The store runs on one JavaScript thread: a call runs without            *)
(* interruption from one await to the next, and any other call may run     *)
(* while it waits.  So a call is a Client whose pc names the await it is   *)
(* suspended at, and each action is the code between two awaits.  What a   *)
(* call does before its first await inside the store (authorize) touches   *)
(* none of the store's state: a call that authorize rejects is no step.    *)
(*                                                                         *)
(* A member of Plans is one StoredPlan object: an ExecutablePlan with its  *)
(* digest.  IdOf gives its planId, and several objects may carry the same  *)
(* planId one after another (the digest covers createdAt, so they differ). *)
(* A call keeps its reference to the object even after cleanup has removed *)
(* it from the map, so the fields of an object outlive its stay in store.  *)
(* A member of Confs is one confirmation token with its record.            *)
(***************************************************************************)
EXTENDS Integers, FiniteSets

CONSTANTS Clients,       \* concurrent callers of the store
          Plans,         \* StoredPlan objects
          PlanIds,       \* the keys of the plans map
          IdOf,          \* the planId of each object
          Confs,         \* confirmation tokens
          NoPlan, NoConf,
          PlanTTLs,      \* ttlMs of createPlan, in clock units
          ConfTTL,       \* ttlMs of confirm
          ReportTTL,     \* retention of a completed report
          PlanCapacity, ConfCapacity,
          MaxTime        \* bound on the clock

ASSUME StoreAssumption ==
    /\ IdOf \in [Plans -> PlanIds]
    /\ NoPlan \notin Plans
    /\ NoConf \notin Confs
    /\ PlanTTLs \subseteq Nat \ {0}
    /\ ConfTTL \in Nat \ {0}
    /\ ReportTTL \in Nat \ {0}
    /\ PlanCapacity \in Nat \ {0}
    /\ ConfCapacity \in Nat \ {0}
    /\ MaxTime \in Nat

VARIABLES
    now,             \* the injected clock
    store,           \* #plans: the objects the map holds
    born,            \* objects that createPlan has ever built
    expires,         \* plan.expiresAt
    state,           \* executionState
    report,          \* report.status, "none" while there is no report
    doneAt,          \* report.completedAt
    confOf,          \* confirmationHash
    confs,           \* #confirmations: the tokens the map holds
    confPlan,        \* planId and planDigest of a confirmation: its object
    confUntil,       \* expiresAt of a confirmation
    used,            \* confirmations whose used flag is set
    pendingPlan, pendingConf, pendingExec, pendingReport,  \* the four pin sets
    pc, target, token, until,   \* the calls: await, object, token, grant or completion time
    grants           \* history: how often execution of an object was granted

clockVars == <<now>>
planVars == <<store, born, expires, state, report, doneAt, confOf>>
confVars == <<confs, confPlan, confUntil, used>>
pinVars == <<pendingPlan, pendingConf, pendingExec, pendingReport>>
callVars == <<pc, target, token, until>>
vars == <<now, planVars, confVars, pinVars, callVars, grants>>

CreatePhases == {"createPolicy", "createAudit"}
ConfirmPhases == {"confirmHash", "confirmAudit"}
PolicyPhases == {"consumePolicy", "directPolicy"}
ClaimPhases == {"consumeAudit", "consumeRollback", "directAudit"}
ExecPhases == PolicyPhases \cup ClaimPhases
ReportPhases == {"recordAudit", "uncertainAudit"}
GrantedPhases == {"dispatched", "unrecorded"} \cup ReportPhases
Phases == {"idle", "consumeHash"} \cup CreatePhases \cup ConfirmPhases
            \cup ExecPhases \cup GrantedPhases

PlanStates == {"pending", "consumed", "completed", "uncertain"}
Resolved == {"succeeded", "failed"}
Reports == Resolved \cup {"partial"}

-----------------------------------------------------------------------------
(* Lazy retention: which entries a cleanup at this instant removes.        *)

Pinned(p) ==
    IdOf[p] \in pendingPlan \cup pendingConf \cup pendingExec \cup pendingReport

(* Mutant: any recorded report counts as a resolved outcome. *)
EvictableWhenReported(p) ==
    /\ ~Pinned(p)
    /\ \/ state[p] = "pending" /\ expires[p] <= now
       \/ state[p] = "completed" /\ doneAt[p] + ReportTTL <= now

Evictable(p) ==
    /\ ~Pinned(p)
    /\ \/ state[p] = "pending" /\ expires[p] <= now
       \/ /\ state[p] = "completed"
          /\ report[p] \in Resolved
          /\ doneAt[p] + ReportTTL <= now

KeptPlans == {p \in store : ~Evictable(p)}

KeptConfs(S) == {k \in S : confUntil[k] > now}

(* #requireLivePlan, on an object that the map holds. *)
LivePlan(p) == p \in store /\ expires[p] > now

-----------------------------------------------------------------------------
Init ==
    /\ now = 0
    /\ store = {} /\ born = {}
    /\ expires = [p \in Plans |-> 0]
    /\ state = [p \in Plans |-> "pending"]
    /\ report = [p \in Plans |-> "none"]
    /\ doneAt = [p \in Plans |-> 0]
    /\ confOf = [p \in Plans |-> NoConf]
    /\ confs = {}
    /\ confPlan = [k \in Confs |-> NoPlan]
    /\ confUntil = [k \in Confs |-> 0]
    /\ used = {}
    /\ pendingPlan = {} /\ pendingConf = {}
    /\ pendingExec = {} /\ pendingReport = {}
    /\ pc = [c \in Clients |-> "idle"]
    /\ target = [c \in Clients |-> NoPlan]
    /\ token = [c \in Clients |-> NoConf]
    /\ until = [c \in Clients |-> 0]
    /\ grants = [p \in Plans |-> 0]

Goto(c, phase) == pc' = [pc EXCEPT ![c] = phase]

Return(c) ==
    /\ Goto(c, "idle")
    /\ target' = [target EXCEPT ![c] = NoPlan]
    /\ token' = [token EXCEPT ![c] = NoConf]
    /\ until' = [until EXCEPT ![c] = 0]

Tick ==
    /\ now < MaxTime
    /\ now' = now + 1
    /\ UNCHANGED <<planVars, confVars, pinVars, callVars, grants>>

(* retentionStatus reads both sizes, and a size getter cleans its map up. *)
RetentionStatus ==
    /\ store' = KeptPlans
    /\ confs' = KeptConfs(confs)
    /\ UNCHANGED <<now, born, expires, state, report, doneAt, confOf, confPlan,
                   confUntil, used, pinVars, callVars, grants>>

-----------------------------------------------------------------------------
(* createPlan.                                                             *)

FreeId(p) ==
    /\ \A q \in store : IdOf[q] # IdOf[p]
    /\ IdOf[p] \notin pendingPlan

(* Mutant: plans being created are not counted. *)
PlanSlotUnreserved == Cardinality(KeptPlans) < PlanCapacity

PlanSlotFree == Cardinality(KeptPlans) + Cardinality(pendingPlan) < PlanCapacity

CreateBegin(c, p) ==
    /\ pc[c] = "idle"
    /\ p \notin born
    /\ FreeId(p)
    /\ PlanSlotFree
    /\ store' = KeptPlans
    /\ born' = born \cup {p}
    /\ \E ttl \in PlanTTLs : expires' = [expires EXCEPT ![p] = now + ttl]
    /\ pendingPlan' = pendingPlan \cup {IdOf[p]}
    /\ target' = [target EXCEPT ![c] = p]
    /\ Goto(c, "createPolicy")
    /\ UNCHANGED <<now, state, report, doneAt, confOf, confVars, pendingConf,
                   pendingExec, pendingReport, token, until, grants>>

(* The capacity check fails, after it has cleaned the map up. *)
CreateRefused(c, p) ==
    /\ pc[c] = "idle"
    /\ p \notin born
    /\ FreeId(p)
    /\ ~PlanSlotFree
    /\ store' = KeptPlans
    /\ UNCHANGED <<now, born, expires, state, report, doneAt, confOf, confVars,
                   pinVars, callVars, grants>>

CreateAllowed(c) ==
    /\ pc[c] = "createPolicy"
    /\ Goto(c, "createAudit")
    /\ UNCHANGED <<now, planVars, confVars, pinVars, target, token, until, grants>>

(* The policy or the audit sink refuses; the finally clause releases the id. *)
CreateFails(c) ==
    /\ pc[c] \in CreatePhases
    /\ pendingPlan' = pendingPlan \ {IdOf[target[c]]}
    /\ Return(c)
    /\ UNCHANGED <<now, planVars, confVars, pendingConf, pendingExec,
                   pendingReport, grants>>

(* set() repeats the capacity check, this time without the reservations. *)
CreateStores(c) ==
    /\ pc[c] = "createAudit"
    /\ store' = IF Cardinality(KeptPlans) < PlanCapacity
                THEN KeptPlans \cup {target[c]}
                ELSE KeptPlans
    /\ pendingPlan' = pendingPlan \ {IdOf[target[c]]}
    /\ Return(c)
    /\ UNCHANGED <<now, born, expires, state, report, doneAt, confOf, confVars,
                   pendingConf, pendingExec, pendingReport, grants>>

-----------------------------------------------------------------------------
(* confirm.                                                                *)

(* The plan has no confirmation, or one that is gone or ran out unused. *)
Replaceable(p) ==
    confOf[p] \in confs =>
        confOf[p] \notin used /\ confUntil[confOf[p]] <= now

Confirmable(p) ==
    /\ LivePlan(p)
    /\ state[p] = "pending"
    /\ IdOf[p] \notin pendingExec
    /\ Replaceable(p)

ConfsAfterCheck(p) == KeptConfs(confs \ {confOf[p]})

ConfSlotFree(p) ==
    /\ IdOf[p] \notin pendingConf
    /\ Cardinality(ConfsAfterCheck(p)) + Cardinality(pendingConf) < ConfCapacity

ConfirmBegin(c, p, k) ==
    /\ pc[c] = "idle"
    /\ confPlan[k] = NoPlan
    /\ Confirmable(p)
    /\ ConfSlotFree(p)
    /\ confOf' = [confOf EXCEPT ![p] = NoConf]
    /\ confs' = ConfsAfterCheck(p)
    /\ confPlan' = [confPlan EXCEPT ![k] = p]
    /\ confUntil' = [confUntil EXCEPT ![k] =
                        IF now + ConfTTL < expires[p] THEN now + ConfTTL ELSE expires[p]]
    /\ pendingConf' = pendingConf \cup {IdOf[p]}
    /\ target' = [target EXCEPT ![c] = p]
    /\ token' = [token EXCEPT ![c] = k]
    /\ Goto(c, "confirmHash")
    /\ UNCHANGED <<now, store, born, expires, state, report, doneAt, used,
                   pendingPlan, pendingExec, pendingReport, until, grants>>

(* A confirmation is being created already, or the registry is full: the   *)
(* stale confirmation has been dropped nevertheless.                       *)
ConfirmRefused(c, p) ==
    /\ pc[c] = "idle"
    /\ Confirmable(p)
    /\ ~ConfSlotFree(p)
    /\ confOf' = [confOf EXCEPT ![p] = NoConf]
    /\ confs' = IF IdOf[p] \in pendingConf THEN confs \ {confOf[p]} ELSE ConfsAfterCheck(p)
    /\ UNCHANGED <<now, store, born, expires, state, report, doneAt, confPlan,
                   confUntil, used, pinVars, callVars, grants>>

ConfirmHashed(c) ==
    /\ pc[c] = "confirmHash"
    /\ confs' = KeptConfs(confs)
    /\ Goto(c, "confirmAudit")
    /\ UNCHANGED <<now, planVars, confPlan, confUntil, used, pinVars, target,
                   token, until, grants>>

ConfirmFails(c) ==
    /\ pc[c] = "confirmAudit"
    /\ pendingConf' = pendingConf \ {IdOf[target[c]]}
    /\ Return(c)
    /\ UNCHANGED <<now, planVars, confVars, pendingPlan, pendingExec,
                   pendingReport, grants>>

ConfirmStores(c) ==
    LET p == target[c]
        k == token[c]
        fits == Cardinality(KeptConfs(confs)) < ConfCapacity
    IN  /\ pc[c] = "confirmAudit"
        /\ confOf' = [confOf EXCEPT ![p] = IF fits THEN k ELSE NoConf]
        /\ confs' = IF fits THEN KeptConfs(confs) \cup {k} ELSE KeptConfs(confs)
        /\ pendingConf' = pendingConf \ {IdOf[p]}
        /\ Return(c)
        /\ UNCHANGED <<now, store, born, expires, state, report, doneAt, confPlan,
                       confUntil, used, pendingPlan, pendingExec, pendingReport, grants>>

-----------------------------------------------------------------------------
(* consumeExecution.  The object is looked up before the token is hashed,  *)
(* and nothing pins it while the hash is computed.                         *)

ConsumeBegin(c, p, k) ==
    /\ pc[c] = "idle"
    /\ LivePlan(p)
    /\ target' = [target EXCEPT ![c] = p]
    /\ token' = [token EXCEPT ![c] = k]
    /\ Goto(c, "consumeHash")
    /\ UNCHANGED <<now, planVars, confVars, pinVars, until, grants>>

(* Mutant: a claim in progress does not keep a second one out. *)
ConsumableTwice(p, k) ==
    /\ k \in confs
    /\ confPlan[k] = p
    /\ k \notin used
    /\ state[p] = "pending"
    /\ confUntil[k] > now

Consumable(p, k) ==
    /\ k \in confs
    /\ confPlan[k] = p
    /\ k \notin used
    /\ state[p] = "pending"
    /\ IdOf[p] \notin pendingExec
    /\ confUntil[k] > now

ConsumeChecked(c) ==
    /\ pc[c] = "consumeHash"
    /\ Consumable(target[c], token[c])
    /\ pendingExec' = pendingExec \cup {IdOf[target[c]]}
    /\ Goto(c, "consumePolicy")
    /\ UNCHANGED <<now, planVars, confVars, pendingPlan, pendingConf,
                   pendingReport, target, token, until, grants>>

ConsumeRefused(c) ==
    /\ pc[c] = "consumeHash"
    /\ ~Consumable(target[c], token[c])
    /\ Return(c)
    /\ UNCHANGED <<now, planVars, confVars, pinVars, grants>>

(* Mutant: the finally clause is missing. *)
KeepExecution(c) == c \in Clients /\ UNCHANGED pendingExec

(* The finally clause of both execution paths. *)
ReleaseExecution(c) == pendingExec' = pendingExec \ {IdOf[target[c]]}

(* Policy denial, or either window closed while the policy was awaited. *)
PolicyFails(c) ==
    /\ pc[c] \in PolicyPhases
    /\ ReleaseExecution(c)
    /\ Return(c)
    /\ UNCHANGED <<now, planVars, confVars, pendingPlan, pendingConf,
                   pendingReport, grants>>

ConsumeClaim(c) ==
    LET p == target[c]
        k == token[c]
    IN  /\ pc[c] = "consumePolicy"
        /\ expires[p] > now
        /\ confUntil[k] > now
        /\ used' = used \cup {k}
        /\ state' = [state EXCEPT ![p] = "consumed"]
        /\ Goto(c, "consumeAudit")
        /\ UNCHANGED <<now, store, born, expires, report, doneAt, confOf, confs,
                       confPlan, confUntil, pinVars, target, token, until, grants>>

(* The caller gets the plan: from here on it may mutate the DAW. *)
ConsumeGrant(c) ==
    LET p == target[c]
    IN  /\ pc[c] = "consumeAudit"
        /\ expires[p] > now
        /\ confUntil[token[c]] > now
        /\ grants' = [grants EXCEPT ![p] = @ + 1]
        /\ ReleaseExecution(c)
        /\ until' = [until EXCEPT ![c] = now]
        /\ Goto(c, "dispatched")
        /\ UNCHANGED <<now, planVars, confVars, pendingPlan, pendingConf,
                       pendingReport, target, token>>

(* A window closed while the claim was audited: audit the rollback first. *)
ConsumeExpired(c) ==
    /\ pc[c] = "consumeAudit"
    /\ expires[target[c]] <= now \/ confUntil[token[c]] <= now
    /\ Goto(c, "consumeRollback")
    /\ UNCHANGED <<now, planVars, confVars, pinVars, target, token, until, grants>>

(* Mutant: the confirmation stays used. *)
UnclaimPlan(c) ==
    /\ UNCHANGED used
    /\ state' = [state EXCEPT ![target[c]] = "pending"]

(* Mutant: the plan whose claim is undone takes the status of a report.    *)
UnclaimAsFailed(c) ==
    /\ used' = used \ {token[c]}
    /\ state' = [state EXCEPT ![target[c]] = "failed"]

Unclaim(c) ==
    /\ used' = used \ {token[c]}
    /\ state' = [state EXCEPT ![target[c]] = "pending"]

(* The catch clause, after a failed audit or the audit of the rollback. *)
ConsumeRollsBack(c) ==
    /\ pc[c] \in {"consumeAudit", "consumeRollback"}
    /\ Unclaim(c)
    /\ ReleaseExecution(c)
    /\ Return(c)
    /\ UNCHANGED <<now, store, born, expires, report, doneAt, confOf, confs,
                   confPlan, confUntil, pendingPlan, pendingConf, pendingReport, grants>>

-----------------------------------------------------------------------------
(* consumeDirectExecution: the opted-in path that needs no confirmation.   *)

DirectBegin(c, p) ==
    /\ pc[c] = "idle"
    /\ LivePlan(p)
    /\ state[p] = "pending"
    /\ confOf[p] = NoConf
    /\ IdOf[p] \notin pendingExec
    /\ pendingExec' = pendingExec \cup {IdOf[p]}
    /\ target' = [target EXCEPT ![c] = p]
    /\ Goto(c, "directPolicy")
    /\ UNCHANGED <<now, planVars, confVars, pendingPlan, pendingConf,
                   pendingReport, token, until, grants>>

DirectClaim(c) ==
    LET p == target[c]
    IN  /\ pc[c] = "directPolicy"
        /\ state[p] = "pending"
        /\ confOf[p] = NoConf
        /\ expires[p] > now
        /\ state' = [state EXCEPT ![p] = "consumed"]
        /\ Goto(c, "directAudit")
        /\ UNCHANGED <<now, store, born, expires, report, doneAt, confOf, confVars,
                       pinVars, target, token, until, grants>>

DirectGrant(c) ==
    LET p == target[c]
    IN  /\ pc[c] = "directAudit"
        /\ expires[p] > now
        /\ grants' = [grants EXCEPT ![p] = @ + 1]
        /\ ReleaseExecution(c)
        /\ until' = [until EXCEPT ![c] = now]
        /\ Goto(c, "dispatched")
        /\ UNCHANGED <<now, planVars, confVars, pendingPlan, pendingConf,
                       pendingReport, target, token>>

(* The audit failed, or the plan expired meanwhile. *)
DirectRollsBack(c) ==
    /\ pc[c] = "directAudit"
    /\ state' = [state EXCEPT ![target[c]] = "pending"]
    /\ ReleaseExecution(c)
    /\ Return(c)
    /\ UNCHANGED <<now, store, born, expires, report, doneAt, confOf, confVars,
                   pendingPlan, pendingConf, pendingReport,
                   grants>>

-----------------------------------------------------------------------------
(* The execute route after the grant: one adapter call, then the outcome.  *)

(* The map entry that recordExecution and recordExecutionUncertainty find. *)
Recordable(p) ==
    /\ p \in store
    /\ state[p] = "consumed"
    /\ IdOf[p] \notin pendingReport

(* The adapter answered in time with a report that validates; the report   *)
(* carries the adapter's own completedAt, some time since the grant.       *)
RecordBegin(c) ==
    /\ pc[c] = "dispatched"
    /\ Recordable(target[c])
    /\ pendingReport' = pendingReport \cup {IdOf[target[c]]}
    /\ \E t \in until[c] .. now : until' = [until EXCEPT ![c] = t]
    /\ Goto(c, "recordAudit")
    /\ UNCHANGED <<now, planVars, confVars, pendingPlan, pendingConf,
                   pendingExec, target, token, grants>>

RecordStores(c, status) ==
    LET p == target[c]
    IN  /\ pc[c] = "recordAudit"
        /\ report' = [report EXCEPT ![p] = status]
        /\ doneAt' = [doneAt EXCEPT ![p] = until[c]]
        /\ state' = [state EXCEPT ![p] = "completed"]
        /\ pendingReport' = pendingReport \ {IdOf[p]}
        /\ Return(c)
        /\ UNCHANGED <<now, store, born, expires, confOf, confVars, pendingPlan,
                       pendingConf, pendingExec, grants>>

(* The audit sink refused the record; the route falls back on uncertainty. *)
RecordFails(c) ==
    /\ pc[c] = "recordAudit"
    /\ pendingReport' = pendingReport \ {IdOf[target[c]]}
    /\ Goto(c, "unrecorded")
    /\ UNCHANGED <<now, planVars, confVars, pendingPlan, pendingConf,
                   pendingExec, target, token, until, grants>>

(* Mutant: only adapter failures are preserved, not failures to record. *)
AdapterFailed(c) == pc[c] = "dispatched"

(* The adapter threw, timed out or reported nonsense, or the record failed. *)
OutcomeUnknown(c) == pc[c] \in {"dispatched", "unrecorded"}

UncertainBegin(c) ==
    /\ OutcomeUnknown(c)
    /\ Recordable(target[c])
    /\ state' = [state EXCEPT ![target[c]] = "uncertain"]
    /\ pendingReport' = pendingReport \cup {IdOf[target[c]]}
    /\ Goto(c, "uncertainAudit")
    /\ UNCHANGED <<now, store, born, expires, report, doneAt, confOf, confVars,
                   pendingPlan, pendingConf, pendingExec, target, token, until,
                   grants>>

(* Whether or not the audit succeeds: preserveExecutionUncertainty. *)
UncertainEnds(c) ==
    /\ pc[c] = "uncertainAudit"
    /\ pendingReport' = pendingReport \ {IdOf[target[c]]}
    /\ Return(c)
    /\ UNCHANGED <<now, planVars, confVars, pendingPlan, pendingConf,
                   pendingExec, grants>>

-----------------------------------------------------------------------------
Begin(c) ==
    \/ \E p \in Plans : CreateBegin(c, p) \/ CreateRefused(c, p)
    \/ \E p \in Plans, k \in Confs : ConfirmBegin(c, p, k) \/ ConsumeBegin(c, p, k)
    \/ \E p \in Plans : ConfirmRefused(c, p) \/ DirectBegin(c, p)

Continue(c) ==
    \/ CreateAllowed(c) \/ CreateFails(c) \/ CreateStores(c)
    \/ ConfirmHashed(c) \/ ConfirmFails(c) \/ ConfirmStores(c)
    \/ ConsumeChecked(c) \/ ConsumeRefused(c) \/ PolicyFails(c)
    \/ ConsumeClaim(c) \/ ConsumeGrant(c) \/ ConsumeExpired(c) \/ ConsumeRollsBack(c)
    \/ DirectClaim(c) \/ DirectGrant(c) \/ DirectRollsBack(c)
    \/ RecordBegin(c) \/ (\E status \in Reports : RecordStores(c, status))
    \/ RecordFails(c) \/ UncertainBegin(c) \/ UncertainEnds(c)

Next ==
    \/ Tick
    \/ RetentionStatus
    \/ \E c \in Clients : Begin(c) \/ Continue(c)

Spec == Init /\ [][Next]_vars

(* Promises settle: sha256, policy and audit answer or reject, and the     *)
(* adapter call is raced against adapterExecutionTimeoutMs.  New calls and *)
(* the clock owe nothing.                                                  *)
FairSpec == Spec /\ \A c \in Clients : WF_vars(Continue(c))
-----------------------------------------------------------------------------
(* Properties. *)

(* Every variable keeps its type; time, pins and calls stay in range. *)
TypeOK ==
    /\ now \in 0 .. MaxTime
    /\ store \subseteq born /\ born \subseteq Plans
    /\ expires \in [Plans -> Nat]
    /\ state \in [Plans -> PlanStates]
    /\ report \in [Plans -> Reports \cup {"none"}]
    /\ doneAt \in [Plans -> Nat]
    /\ confOf \in [Plans -> Confs \cup {NoConf}]
    /\ confs \subseteq Confs
    /\ confPlan \in [Confs -> Plans \cup {NoPlan}]
    /\ confUntil \in [Confs -> Nat]
    /\ used \subseteq Confs
    /\ pendingPlan \subseteq PlanIds /\ pendingConf \subseteq PlanIds
    /\ pendingExec \subseteq PlanIds /\ pendingReport \subseteq PlanIds
    /\ pc \in [Clients -> Phases]
    /\ target \in [Clients -> Plans \cup {NoPlan}]
    /\ token \in [Clients -> Confs \cup {NoConf}]
    /\ until \in [Clients -> Nat]
    /\ grants \in [Plans -> Nat]

(* No plan is handed out for execution twice, whatever mix of confirmed    *)
(* and direct calls races for it, and although a failed claim is undone    *)
(* and may be tried again: the DAW sees each plan at most once.            *)
SingleGrant == \A p \in Plans : grants[p] <= 1

(* The four pin sets name exactly the plans of the calls in progress: no   *)
(* error path leaks a pin and no call releases the pin of another one.     *)
PinsMatchCalls ==
    LET IdsIn(phases) == {IdOf[target[c]] : c \in {d \in Clients : pc[d] \in phases}}
    IN  /\ pendingPlan = IdsIn(CreatePhases)
        /\ pendingConf = IdsIn(ConfirmPhases)
        /\ pendingExec = IdsIn(ExecPhases)
        /\ pendingReport = IdsIn(ReportPhases)

Alone(phases) ==
    \A c, d \in Clients :
        pc[c] \in phases /\ pc[d] \in phases /\ IdOf[target[c]] = IdOf[target[d]] => c = d

(* At most one call at a time creates, confirms, claims or reports a given *)
(* planId.                                                                 *)
OneCallPerPlan ==
    Alone(CreatePhases) /\ Alone(ConfirmPhases) /\ Alone(ExecPhases) /\ Alone(ReportPhases)

(* The pins are exact and each of them stands for a single call.           *)
PinsExclusive == PinsMatchCalls /\ OneCallPerPlan

(* Cleanup never takes the plan away from a call that confirms, claims,    *)
(* executes or reports it: the call's reference is the map's entry.        *)
NoDetachedCall ==
    \A c \in Clients :
        pc[c] \in ConfirmPhases \cup ExecPhases \cup GrantedPhases => target[c] \in store

(* ADR-003: an executed plan stays readable until its outcome is resolved, *)
(* however long the adapter, the audit sink or the operator may take.      *)
EvidenceRetained ==
    \A p \in Plans :
        grants[p] > 0 /\ ~(state[p] = "completed" /\ report[p] \in Resolved) => p \in store

(* Cleanup takes neither a plan in use nor evidence that is still needed.  *)
EvidenceSafe == NoDetachedCall /\ EvidenceRetained

(* A call that passed the capacity check finds its slot after its awaits:  *)
(* the reservations of all calls in progress are honoured together.        *)
ReservationHolds ==
    /\ Cardinality(KeptPlans) + Cardinality(pendingPlan) <= PlanCapacity
    /\ Cardinality(KeptConfs(confs)) + Cardinality(pendingConf) <= ConfCapacity

(* A confirmation that could still be redeemed is the one its plan knows:  *)
(* a plan never has two of them, and direct execution sees that one.       *)
ConfirmationKnown ==
    \A k \in confs : confUntil[k] > now /\ k \notin used => confOf[confPlan[k]] = k

(* A used confirmation belongs to a plan that left "pending": an undone    *)
(* claim gives both back, so the operator can retry within the window.     *)
UsedMeansClaimed == \A k \in used : state[confPlan[k]] # "pending"

(* A confirmation is redeemed once, for the plan that knows it.            *)
ConfirmationsSound == ConfirmationKnown /\ UsedMeansClaimed

(* Once granted, a plan never returns to "pending", and a recorded or an   *)
(* uncertain outcome is never replaced by another one.                     *)
OutcomeIsFinal ==
    [][\A p \in Plans :
          /\ grants[p] > 0 => state'[p] # "pending"
          /\ state[p] \in {"completed", "uncertain"} =>
                state'[p] = state[p] /\ report'[p] = report[p]]_vars

(* Every execution that was granted ends as reported or uncertain. *)
GrantResolves ==
    \A p \in Plans : grants[p] > 0 ~> state[p] \in {"completed", "uncertain"}

(* The life of each plan as PlanLifecycle sees it; a claim that has not    *)
(* been granted yet can still be undone, so it is no execution.            *)
life ==
    [p \in Plans |->
        IF p \notin store
        THEN IF p \in born /\ \A c \in Clients : ~(pc[c] \in CreatePhases /\ target[c] = p)
             THEN "forgotten"
             ELSE "new"
        ELSE CASE grants[p] = 0 -> "offered"
               [] grants[p] > 0 /\ state[p] = "uncertain" -> "uncertain"
               [] grants[p] > 0 /\ state[p] = "completed" ->
                     IF report[p] = "partial" THEN "partial" ELSE "resolved"
               [] OTHER -> "executing"]

Lifecycle == INSTANCE PlanLifecycle

(* The store implements the lifecycle: at most one execution per plan, one *)
(* outcome for each, unresolved outcomes never forgotten.                  *)
ImplementsLifecycle == Lifecycle!Spec
=============================================================================

---------------------- MODULE GatewayPlanStore_proofs ----------------------
(***************************************************************************)
(* Proofs about GatewayPlanStore for any number of callers, plans, tokens  *)
(* and any capacities.  The inductive invariant says, call by call, what   *)
(* the awaits in the middle of confirm, consumeExecution and the execute   *)
(* route may rely on although other calls ran meanwhile.                   *)
(***************************************************************************)
EXTENDS GatewayPlanStore, FiniteSetTheorems, TLAPS

(* A call in progress refers to an object that createPlan built, and one   *)
(* that redeems a confirmation also to a token.                            *)
CallsBound ==
    \A c \in Clients :
        /\ pc[c] # "idle" => target[c] \in born
        /\ pc[c] \in ConfirmPhases \cup {"consumeHash", "consumePolicy",
                                         "consumeAudit", "consumeRollback"}
             => token[c] \in Confs

(* The pins of a call are in their set for as long as its awaits last.     *)
PinsHeld ==
    \A c \in Clients :
        /\ pc[c] \in CreatePhases => IdOf[target[c]] \in pendingPlan
        /\ pc[c] \in ConfirmPhases => IdOf[target[c]] \in pendingConf
        /\ pc[c] \in ExecPhases => IdOf[target[c]] \in pendingExec
        /\ pc[c] \in ReportPhases => IdOf[target[c]] \in pendingReport

(* The pinned plan stays pending while its policy is awaited, and a claim  *)
(* that has not been granted yet is the only one.                          *)
ClaimState ==
    \A c \in Clients :
        /\ pc[c] \in PolicyPhases => state[target[c]] = "pending"
        /\ pc[c] \in ClaimPhases => state[target[c]] = "consumed" /\ grants[target[c]] = 0

(* What was granted is no longer pending, and one call owns the outcome.   *)
GrantState ==
    /\ \A p \in Plans : grants[p] > 0 => state[p] # "pending"
    /\ \A c \in Clients :
          /\ pc[c] \in GrantedPhases => grants[target[c]] > 0
          /\ pc[c] \in {"dispatched", "unrecorded", "recordAudit"} => state[target[c]] = "consumed"
    /\ \A c, d \in Clients :
          pc[c] \in GrantedPhases /\ pc[d] \in GrantedPhases /\ target[c] = target[d] => c = d

(* An object that cleanup took while its token was hashed is of no use.    *)
LookupLive ==
    \A c \in Clients :
        pc[c] = "consumeHash" =>
            \/ target[c] \in store
            \/ expires[target[c]] <= now
            \/ state[target[c]] # "pending"

(* A confirmation never outlives its plan, and only tokens that have been  *)
(* made are held or used.                                                  *)
ConfirmationWindow ==
    /\ \A k \in confs \cup used : confPlan[k] \in Plans
    /\ \A k \in Confs :
        confPlan[k] # NoPlan => confPlan[k] \in born /\ confUntil[k] <= expires[confPlan[k]]

(* A confirmation being made replaces none, and one being redeemed belongs *)
(* to the plan, is the plan's own while it lasts, and the only used one.   *)
ClaimToken ==
    /\ \A c \in Clients : pc[c] \in ConfirmPhases =>
           confOf[target[c]] = NoConf /\ confPlan[token[c]] = target[c] /\ token[c] \notin used
    /\ \A c \in Clients : pc[c] \in {"consumePolicy", "consumeAudit", "consumeRollback"} =>
           /\ confPlan[token[c]] = target[c]
           /\ confUntil[token[c]] > now => confOf[target[c]] = token[c]
    /\ \A c \in Clients, k \in used :
           pc[c] \in ClaimPhases /\ confPlan[k] = target[c] =>
               pc[c] # "directAudit" /\ k = token[c]

IInv ==
    /\ TypeOK /\ CallsBound /\ PinsMatchCalls /\ OneCallPerPlan
    /\ ClaimState /\ GrantState /\ SingleGrant
    /\ LookupLive /\ ConfirmationWindow /\ NoDetachedCall /\ EvidenceRetained
    /\ ClaimToken /\ ConfirmationKnown /\ UsedMeansClaimed

-----------------------------------------------------------------------------
(* The steps of a call, by the method it is in; PolicyFails serves both     *)
(* execution paths.                                                        *)
CreateStep(c) ==
    \/ \E p \in Plans : CreateBegin(c, p) \/ CreateRefused(c, p)
    \/ CreateAllowed(c) \/ CreateFails(c) \/ CreateStores(c)

ConfirmStep(c) ==
    \/ \E p \in Plans, k \in Confs : ConfirmBegin(c, p, k)
    \/ \E p \in Plans : ConfirmRefused(c, p)
    \/ ConfirmHashed(c) \/ ConfirmFails(c) \/ ConfirmStores(c)

ConsumeStep(c) ==
    \/ \E p \in Plans, k \in Confs : ConsumeBegin(c, p, k)
    \/ ConsumeChecked(c) \/ ConsumeRefused(c) \/ PolicyFails(c) \/ ConsumeClaim(c)
    \/ ConsumeGrant(c) \/ ConsumeExpired(c) \/ ConsumeRollsBack(c)

DirectStep(c) ==
    \/ \E p \in Plans : DirectBegin(c, p)
    \/ DirectClaim(c) \/ DirectGrant(c) \/ DirectRollsBack(c)

OutcomeStep(c) ==
    \/ RecordBegin(c) \/ (\E status \in Reports : RecordStores(c, status)) \/ RecordFails(c)
    \/ UncertainBegin(c) \/ UncertainEnds(c)

(* Every step is the clock's, the readiness probe's, or one of a call. *)
LEMMA StepCases ==
    ASSUME [Next]_vars
    PROVE  \/ Tick \/ RetentionStatus \/ UNCHANGED vars
           \/ \E c \in Clients : \/ CreateStep(c) \/ ConfirmStep(c) \/ ConsumeStep(c)
                                \/ DirectStep(c) \/ OutcomeStep(c)
BY DEF Next, Begin, Continue, CreateStep, ConfirmStep, ConsumeStep, DirectStep, OutcomeStep

(* What the equality of pins and calls says of one call. *)
LEMMA PinsHold == IInv => PinsHeld
BY DEF IInv, PinsHeld, PinsMatchCalls

(* Types.                                                                  *)
LEMMA TypeStep == IInv /\ [Next]_vars => TypeOK'
<1> SUFFICES ASSUME IInv, [Next]_vars PROVE TypeOK'
  OBVIOUS
<1> USE StoreAssumption DEF IInv, TypeOK, CallsBound, CreatePhases,
   ConfirmPhases, PolicyPhases, ClaimPhases, ExecPhases, ReportPhases,
   GrantedPhases, Phases, PlanStates, Reports, Resolved, Goto, Return,
   planVars, confVars, pinVars, callVars
<1>1. CASE Tick
  BY <1>1 DEF Tick
<1>2. CASE RetentionStatus
  BY <1>2 DEF RetentionStatus, KeptPlans, KeptConfs, Evictable, Pinned
<1>3. ASSUME NEW c \in Clients, CreateStep(c) PROVE TypeOK'
  BY <1>3 DEF CreateStep, CreateBegin, CreateRefused, CreateAllowed,
     CreateFails, CreateStores, FreeId, KeptPlans, Evictable, Pinned
<1>4. ASSUME NEW c \in Clients, ConfirmStep(c) PROVE TypeOK'
  <2>1. ASSUME NEW p \in Plans, NEW k \in Confs, ConfirmBegin(c, p, k) PROVE
     TypeOK'
    BY <2>1 DEF ConfirmBegin, Confirmable, Replaceable, LivePlan,
       ConfSlotFree, ConfsAfterCheck, KeptConfs
  <2>2. CASE \E p \in Plans : ConfirmRefused(c, p)
    BY <2>2 DEF ConfirmRefused, Confirmable, Replaceable, LivePlan,
       ConfsAfterCheck, KeptConfs
  <2>3. CASE ConfirmHashed(c) \/ ConfirmFails(c)
    BY <2>3 DEF ConfirmHashed, ConfirmFails, KeptConfs
  <2>4. CASE ConfirmStores(c)
    BY <2>4 DEF ConfirmStores, KeptConfs
  <2> QED
    BY <1>4, <2>1, <2>2, <2>3, <2>4 DEF ConfirmStep
<1>5. ASSUME NEW c \in Clients, ConsumeStep(c) PROVE TypeOK'
  BY <1>5 DEF ConsumeStep, ConsumeBegin, ConsumeChecked, ConsumeRefused,
     PolicyFails, ConsumeClaim, ConsumeGrant, ConsumeExpired,
     ConsumeRollsBack, LivePlan, Consumable, Unclaim, ReleaseExecution
<1>6. ASSUME NEW c \in Clients, DirectStep(c) PROVE TypeOK'
  BY <1>6 DEF DirectStep, DirectBegin, DirectClaim, DirectGrant,
     DirectRollsBack, LivePlan, ReleaseExecution
<1>7. ASSUME NEW c \in Clients, OutcomeStep(c) PROVE TypeOK'
  BY <1>7 DEF OutcomeStep, RecordBegin, RecordStores, RecordFails,
     UncertainBegin, UncertainEnds, Recordable, OutcomeUnknown
<1>8. CASE UNCHANGED vars
  BY <1>8 DEF vars
<1> QED
  BY <1>1, <1>2, <1>3, <1>4, <1>5, <1>6, <1>7, <1>8, StepCases

(* A call's references come from a step that found its object in the map   *)
(* or built it, and a token from a step that named it.                     *)
LEMMA BoundStep == IInv /\ [Next]_vars => CallsBound'
<1> SUFFICES ASSUME IInv, [Next]_vars PROVE CallsBound'
  OBVIOUS
<1> USE StoreAssumption DEF IInv, TypeOK, CallsBound, CreatePhases,
   ConfirmPhases, PolicyPhases, ClaimPhases, ExecPhases, ReportPhases,
   GrantedPhases, Goto, Return, planVars, confVars, pinVars, callVars
<1>1. CASE Tick
  BY <1>1 DEF Tick
<1>2. CASE RetentionStatus
  BY <1>2 DEF RetentionStatus, KeptPlans, KeptConfs, Evictable, Pinned
<1>3. ASSUME NEW c \in Clients, CreateStep(c) PROVE CallsBound'
  BY <1>3 DEF CreateStep, CreateBegin, CreateRefused, CreateAllowed,
     CreateFails, CreateStores, FreeId, KeptPlans, Evictable, Pinned
<1>4. ASSUME NEW c \in Clients, ConfirmStep(c) PROVE CallsBound'
  <2>1. ASSUME NEW p \in Plans, NEW k \in Confs, ConfirmBegin(c, p, k) PROVE
     CallsBound'
    BY <2>1 DEF ConfirmBegin, Confirmable, Replaceable, LivePlan,
       ConfSlotFree, ConfsAfterCheck, KeptConfs
  <2>2. CASE \E p \in Plans : ConfirmRefused(c, p)
    BY <2>2 DEF ConfirmRefused, Confirmable, Replaceable, LivePlan,
       ConfsAfterCheck, KeptConfs
  <2>3. CASE ConfirmHashed(c) \/ ConfirmFails(c)
    BY <2>3 DEF ConfirmHashed, ConfirmFails, KeptConfs
  <2>4. CASE ConfirmStores(c)
    BY <2>4 DEF ConfirmStores, KeptConfs
  <2> QED
    BY <1>4, <2>1, <2>2, <2>3, <2>4 DEF ConfirmStep
<1>5. ASSUME NEW c \in Clients, ConsumeStep(c) PROVE CallsBound'
  BY <1>5 DEF ConsumeStep, ConsumeBegin, ConsumeChecked, ConsumeRefused,
     PolicyFails, ConsumeClaim, ConsumeGrant, ConsumeExpired,
     ConsumeRollsBack, LivePlan, Consumable, Unclaim, ReleaseExecution
<1>6. ASSUME NEW c \in Clients, DirectStep(c) PROVE CallsBound'
  BY <1>6 DEF DirectStep, DirectBegin, DirectClaim, DirectGrant,
     DirectRollsBack, LivePlan, ReleaseExecution
<1>7. ASSUME NEW c \in Clients, OutcomeStep(c) PROVE CallsBound'
  BY <1>7 DEF OutcomeStep, RecordBegin, RecordStores, RecordFails,
     UncertainBegin, UncertainEnds, Recordable, OutcomeUnknown
<1>8. CASE UNCHANGED vars
  BY <1>8 DEF vars
<1> QED
  BY <1>1, <1>2, <1>3, <1>4, <1>5, <1>6, <1>7, <1>8, StepCases

(* Every action that enters or leaves a pinned phase adds or removes       *)
(* exactly the planId of its own call; the ids of other calls differ.      *)
LEMMA PinsStep == IInv /\ [Next]_vars => PinsMatchCalls'
<1> SUFFICES ASSUME IInv, [Next]_vars PROVE PinsMatchCalls'
  OBVIOUS
<1> USE StoreAssumption DEF IInv, TypeOK, CallsBound, PinsMatchCalls,
   OneCallPerPlan, Alone, CreatePhases, ConfirmPhases, PolicyPhases,
   ClaimPhases, ExecPhases, ReportPhases, GrantedPhases, Goto, Return,
   planVars, confVars, pinVars, callVars
<1>1. CASE Tick
  BY <1>1 DEF Tick
<1>2. CASE RetentionStatus
  BY <1>2 DEF RetentionStatus, KeptPlans, KeptConfs, Evictable, Pinned
<1>3. ASSUME NEW c \in Clients, CreateStep(c) PROVE PinsMatchCalls'
  <2>1. CASE \E p \in Plans : CreateBegin(c, p)
    BY <2>1 DEF CreateBegin, FreeId, KeptPlans, Evictable, Pinned
  <2>2. CASE \E p \in Plans : CreateRefused(c, p)
    BY <2>2 DEF CreateRefused, FreeId, KeptPlans, Evictable, Pinned
  <2>3. CASE CreateAllowed(c)
    BY <2>3 DEF CreateAllowed, FreeId, KeptPlans, Evictable, Pinned
  <2>4. CASE CreateFails(c)
    BY <2>4 DEF CreateFails, FreeId, KeptPlans, Evictable, Pinned
  <2>5. CASE CreateStores(c)
    BY <2>5 DEF CreateStores, FreeId, KeptPlans, Evictable, Pinned
  <2> QED
    BY <1>3, <2>1, <2>2, <2>3, <2>4, <2>5 DEF CreateStep
<1>4. ASSUME NEW c \in Clients, ConfirmStep(c) PROVE PinsMatchCalls'
  <2>1. ASSUME NEW p \in Plans, NEW k \in Confs, ConfirmBegin(c, p, k) PROVE
     PinsMatchCalls'
    BY <2>1 DEF ConfirmBegin, Confirmable, Replaceable, LivePlan,
       ConfSlotFree, ConfsAfterCheck, KeptConfs
  <2>2. CASE \E p \in Plans : ConfirmRefused(c, p)
    BY <2>2 DEF ConfirmRefused, Confirmable, Replaceable, LivePlan,
       ConfsAfterCheck, KeptConfs
  <2>3. CASE ConfirmHashed(c) \/ ConfirmFails(c)
    BY <2>3 DEF ConfirmHashed, ConfirmFails, KeptConfs
  <2>4. CASE ConfirmStores(c)
    BY <2>4 DEF ConfirmStores, KeptConfs
  <2> QED
    BY <1>4, <2>1, <2>2, <2>3, <2>4 DEF ConfirmStep
<1>5. ASSUME NEW c \in Clients, ConsumeStep(c) PROVE PinsMatchCalls'
  <2>1. CASE \E p \in Plans, k \in Confs : ConsumeBegin(c, p, k)
    BY <2>1 DEF ConsumeBegin, LivePlan, Consumable, Unclaim, ReleaseExecution
  <2>2. CASE ConsumeChecked(c)
    BY <2>2 DEF ConsumeChecked, LivePlan, Consumable, Unclaim,
       ReleaseExecution
  <2>3. CASE ConsumeRefused(c)
    BY <2>3 DEF ConsumeRefused, LivePlan, Consumable, Unclaim,
       ReleaseExecution
  <2>4. CASE PolicyFails(c)
    BY <2>4 DEF PolicyFails, LivePlan, Consumable, Unclaim, ReleaseExecution
  <2>5. CASE ConsumeClaim(c)
    BY <2>5 DEF ConsumeClaim, LivePlan, Consumable, Unclaim, ReleaseExecution
  <2>6. CASE ConsumeGrant(c)
    BY <2>6 DEF ConsumeGrant, LivePlan, Consumable, Unclaim, ReleaseExecution
  <2>7. CASE ConsumeExpired(c)
    BY <2>7 DEF ConsumeExpired, LivePlan, Consumable, Unclaim,
       ReleaseExecution
  <2>8. CASE ConsumeRollsBack(c)
    BY <2>8 DEF ConsumeRollsBack, LivePlan, Consumable, Unclaim,
       ReleaseExecution
  <2> QED
    BY <1>5, <2>1, <2>2, <2>3, <2>4, <2>5, <2>6, <2>7, <2>8 DEF ConsumeStep
<1>6. ASSUME NEW c \in Clients, DirectStep(c) PROVE PinsMatchCalls'
  <2>1. CASE \E p \in Plans : DirectBegin(c, p)
    BY <2>1 DEF DirectBegin, LivePlan, ReleaseExecution
  <2>2. CASE DirectClaim(c)
    BY <2>2 DEF DirectClaim, LivePlan, ReleaseExecution
  <2>3. CASE DirectGrant(c)
    BY <2>3 DEF DirectGrant, LivePlan, ReleaseExecution
  <2>4. CASE DirectRollsBack(c)
    BY <2>4 DEF DirectRollsBack, LivePlan, ReleaseExecution
  <2> QED
    BY <1>6, <2>1, <2>2, <2>3, <2>4 DEF DirectStep
<1>7. ASSUME NEW c \in Clients, OutcomeStep(c) PROVE PinsMatchCalls'
  <2>1. CASE RecordBegin(c)
    BY <2>1 DEF RecordBegin, Recordable, OutcomeUnknown
  <2>2. CASE \E status \in Reports : RecordStores(c, status)
    BY <2>2 DEF RecordStores, Recordable, OutcomeUnknown
  <2>3. CASE RecordFails(c)
    BY <2>3 DEF RecordFails, Recordable, OutcomeUnknown
  <2>4. CASE UncertainBegin(c)
    BY <2>4 DEF UncertainBegin, Recordable, OutcomeUnknown
  <2>5. CASE UncertainEnds(c)
    BY <2>5 DEF UncertainEnds, Recordable, OutcomeUnknown
  <2> QED
    BY <1>7, <2>1, <2>2, <2>3, <2>4, <2>5 DEF OutcomeStep
<1>8. CASE UNCHANGED vars
  BY <1>8 DEF vars
<1> QED
  BY <1>1, <1>2, <1>3, <1>4, <1>5, <1>6, <1>7, <1>8, StepCases

(* A call enters a pinned phase only after it has found the pin free.      *)
LEMMA AloneStep == IInv /\ [Next]_vars => OneCallPerPlan'
<1> SUFFICES ASSUME IInv, [Next]_vars PROVE OneCallPerPlan'
  OBVIOUS
<1>h. PinsHeld
  BY PinsHold
<1> USE <1>h, StoreAssumption DEF IInv, TypeOK, CallsBound, PinsHeld,
   OneCallPerPlan, Alone, CreatePhases, ConfirmPhases, PolicyPhases,
   ClaimPhases, ExecPhases, ReportPhases, GrantedPhases, Goto, Return,
   planVars, confVars, pinVars, callVars
<1>1. CASE Tick
  BY <1>1 DEF Tick
<1>2. CASE RetentionStatus
  BY <1>2 DEF RetentionStatus, KeptPlans, KeptConfs, Evictable, Pinned
<1>3. ASSUME NEW c \in Clients, CreateStep(c) PROVE OneCallPerPlan'
  BY <1>3 DEF CreateStep, CreateBegin, CreateRefused, CreateAllowed,
     CreateFails, CreateStores, FreeId, KeptPlans, Evictable, Pinned
<1>4. ASSUME NEW c \in Clients, ConfirmStep(c) PROVE OneCallPerPlan'
  <2>1. ASSUME NEW p \in Plans, NEW k \in Confs, ConfirmBegin(c, p, k) PROVE
     OneCallPerPlan'
    BY <2>1 DEF ConfirmBegin, Confirmable, Replaceable, LivePlan,
       ConfSlotFree, ConfsAfterCheck, KeptConfs
  <2>2. CASE \E p \in Plans : ConfirmRefused(c, p)
    BY <2>2 DEF ConfirmRefused, Confirmable, Replaceable, LivePlan,
       ConfsAfterCheck, KeptConfs
  <2>3. CASE ConfirmHashed(c) \/ ConfirmFails(c)
    BY <2>3 DEF ConfirmHashed, ConfirmFails, KeptConfs
  <2>4. CASE ConfirmStores(c)
    BY <2>4 DEF ConfirmStores, KeptConfs
  <2> QED
    BY <1>4, <2>1, <2>2, <2>3, <2>4 DEF ConfirmStep
<1>5. ASSUME NEW c \in Clients, ConsumeStep(c) PROVE OneCallPerPlan'
  BY <1>5 DEF ConsumeStep, ConsumeBegin, ConsumeChecked, ConsumeRefused,
     PolicyFails, ConsumeClaim, ConsumeGrant, ConsumeExpired,
     ConsumeRollsBack, LivePlan, Consumable, Unclaim, ReleaseExecution
<1>6. ASSUME NEW c \in Clients, DirectStep(c) PROVE OneCallPerPlan'
  BY <1>6 DEF DirectStep, DirectBegin, DirectClaim, DirectGrant,
     DirectRollsBack, LivePlan, ReleaseExecution
<1>7. ASSUME NEW c \in Clients, OutcomeStep(c) PROVE OneCallPerPlan'
  BY <1>7 DEF OutcomeStep, RecordBegin, RecordStores, RecordFails,
     UncertainBegin, UncertainEnds, Recordable, OutcomeUnknown
<1>8. CASE UNCHANGED vars
  BY <1>8 DEF vars
<1> QED
  BY <1>1, <1>2, <1>3, <1>4, <1>5, <1>6, <1>7, <1>8, StepCases

(* Between the check and the claim, and between the claim and the grant,   *)
(* only the call that holds the execution pin writes the plan's state.     *)
LEMMA ClaimStep == IInv /\ [Next]_vars => ClaimState'
<1> SUFFICES ASSUME IInv, [Next]_vars PROVE ClaimState'
  OBVIOUS
<1>h. PinsHeld
  BY PinsHold
<1> USE <1>h, StoreAssumption DEF IInv, TypeOK, CallsBound, PinsHeld,
   OneCallPerPlan, Alone, ClaimState, GrantState, CreatePhases, ConfirmPhases,
   PolicyPhases, ClaimPhases, ExecPhases, ReportPhases, GrantedPhases, Goto,
   Return, planVars, confVars, pinVars, callVars
<1>1. CASE Tick
  BY <1>1 DEF Tick
<1>2. CASE RetentionStatus
  BY <1>2 DEF RetentionStatus, KeptPlans, KeptConfs, Evictable, Pinned
<1>3. ASSUME NEW c \in Clients, CreateStep(c) PROVE ClaimState'
  BY <1>3 DEF CreateStep, CreateBegin, CreateRefused, CreateAllowed,
     CreateFails, CreateStores, FreeId, KeptPlans, Evictable, Pinned
<1>4. ASSUME NEW c \in Clients, ConfirmStep(c) PROVE ClaimState'
  <2>1. ASSUME NEW p \in Plans, NEW k \in Confs, ConfirmBegin(c, p, k) PROVE
     ClaimState'
    BY <2>1 DEF ConfirmBegin, Confirmable, Replaceable, LivePlan,
       ConfSlotFree, ConfsAfterCheck, KeptConfs
  <2>2. CASE \E p \in Plans : ConfirmRefused(c, p)
    BY <2>2 DEF ConfirmRefused, Confirmable, Replaceable, LivePlan,
       ConfsAfterCheck, KeptConfs
  <2>3. CASE ConfirmHashed(c) \/ ConfirmFails(c)
    BY <2>3 DEF ConfirmHashed, ConfirmFails, KeptConfs
  <2>4. CASE ConfirmStores(c)
    BY <2>4 DEF ConfirmStores, KeptConfs
  <2> QED
    BY <1>4, <2>1, <2>2, <2>3, <2>4 DEF ConfirmStep
<1>5. ASSUME NEW c \in Clients, ConsumeStep(c) PROVE ClaimState'
  BY <1>5 DEF ConsumeStep, ConsumeBegin, ConsumeChecked, ConsumeRefused,
     PolicyFails, ConsumeClaim, ConsumeGrant, ConsumeExpired,
     ConsumeRollsBack, LivePlan, Consumable, Unclaim, ReleaseExecution
<1>6. ASSUME NEW c \in Clients, DirectStep(c) PROVE ClaimState'
  BY <1>6 DEF DirectStep, DirectBegin, DirectClaim, DirectGrant,
     DirectRollsBack, LivePlan, ReleaseExecution
<1>7. ASSUME NEW c \in Clients, OutcomeStep(c) PROVE ClaimState'
  BY <1>7 DEF OutcomeStep, RecordBegin, RecordStores, RecordFails,
     UncertainBegin, UncertainEnds, Recordable, OutcomeUnknown
<1>8. CASE UNCHANGED vars
  BY <1>8 DEF vars
<1> QED
  BY <1>1, <1>2, <1>3, <1>4, <1>5, <1>6, <1>7, <1>8, StepCases

(* A grant ends a claim that was the only one and had no grant before it.  *)
LEMMA GrantStep == IInv /\ [Next]_vars => GrantState'
<1> SUFFICES ASSUME IInv, [Next]_vars PROVE GrantState'
  OBVIOUS
<1>h. PinsHeld
  BY PinsHold
<1> USE <1>h, StoreAssumption DEF IInv, TypeOK, CallsBound, PinsHeld,
   OneCallPerPlan, Alone, ClaimState, GrantState, CreatePhases, ConfirmPhases,
   PolicyPhases, ClaimPhases, ExecPhases, ReportPhases, GrantedPhases, Goto,
   Return, planVars, confVars, pinVars, callVars
<1>1. CASE Tick
  BY <1>1 DEF Tick
<1>2. CASE RetentionStatus
  BY <1>2 DEF RetentionStatus, KeptPlans, KeptConfs, Evictable, Pinned
<1>3. ASSUME NEW c \in Clients, CreateStep(c) PROVE GrantState'
  BY <1>3 DEF CreateStep, CreateBegin, CreateRefused, CreateAllowed,
     CreateFails, CreateStores, FreeId, KeptPlans, Evictable, Pinned
<1>4. ASSUME NEW c \in Clients, ConfirmStep(c) PROVE GrantState'
  <2>1. ASSUME NEW p \in Plans, NEW k \in Confs, ConfirmBegin(c, p, k) PROVE
     GrantState'
    BY <2>1 DEF ConfirmBegin, Confirmable, Replaceable, LivePlan,
       ConfSlotFree, ConfsAfterCheck, KeptConfs
  <2>2. CASE \E p \in Plans : ConfirmRefused(c, p)
    BY <2>2 DEF ConfirmRefused, Confirmable, Replaceable, LivePlan,
       ConfsAfterCheck, KeptConfs
  <2>3. CASE ConfirmHashed(c) \/ ConfirmFails(c)
    BY <2>3 DEF ConfirmHashed, ConfirmFails, KeptConfs
  <2>4. CASE ConfirmStores(c)
    BY <2>4 DEF ConfirmStores, KeptConfs
  <2> QED
    BY <1>4, <2>1, <2>2, <2>3, <2>4 DEF ConfirmStep
<1>5. ASSUME NEW c \in Clients, ConsumeStep(c) PROVE GrantState'
  BY <1>5 DEF ConsumeStep, ConsumeBegin, ConsumeChecked, ConsumeRefused,
     PolicyFails, ConsumeClaim, ConsumeGrant, ConsumeExpired,
     ConsumeRollsBack, LivePlan, Consumable, Unclaim, ReleaseExecution
<1>6. ASSUME NEW c \in Clients, DirectStep(c) PROVE GrantState'
  BY <1>6 DEF DirectStep, DirectBegin, DirectClaim, DirectGrant,
     DirectRollsBack, LivePlan, ReleaseExecution
<1>7. ASSUME NEW c \in Clients, OutcomeStep(c) PROVE GrantState'
  BY <1>7 DEF OutcomeStep, RecordBegin, RecordStores, RecordFails,
     UncertainBegin, UncertainEnds, Recordable, OutcomeUnknown
<1>8. CASE UNCHANGED vars
  BY <1>8 DEF vars
<1> QED
  BY <1>1, <1>2, <1>3, <1>4, <1>5, <1>6, <1>7, <1>8, StepCases

(* The claim that a grant completes had no grant before it.                *)
LEMMA SingleStep == IInv /\ [Next]_vars => SingleGrant'
<1> SUFFICES ASSUME IInv, [Next]_vars PROVE SingleGrant'
  OBVIOUS
<1> USE StoreAssumption DEF IInv, TypeOK, CallsBound, ClaimState, SingleGrant,
   CreatePhases, ConfirmPhases, PolicyPhases, ClaimPhases, ExecPhases,
   ReportPhases, GrantedPhases, Goto, Return, planVars, confVars, pinVars,
   callVars
<1>1. CASE Tick
  BY <1>1 DEF Tick
<1>2. CASE RetentionStatus
  BY <1>2 DEF RetentionStatus, KeptPlans, KeptConfs, Evictable, Pinned
<1>3. ASSUME NEW c \in Clients, CreateStep(c) PROVE SingleGrant'
  BY <1>3 DEF CreateStep, CreateBegin, CreateRefused, CreateAllowed,
     CreateFails, CreateStores, FreeId, KeptPlans, Evictable, Pinned
<1>4. ASSUME NEW c \in Clients, ConfirmStep(c) PROVE SingleGrant'
  <2>1. ASSUME NEW p \in Plans, NEW k \in Confs, ConfirmBegin(c, p, k) PROVE
     SingleGrant'
    BY <2>1 DEF ConfirmBegin, Confirmable, Replaceable, LivePlan,
       ConfSlotFree, ConfsAfterCheck, KeptConfs
  <2>2. CASE \E p \in Plans : ConfirmRefused(c, p)
    BY <2>2 DEF ConfirmRefused, Confirmable, Replaceable, LivePlan,
       ConfsAfterCheck, KeptConfs
  <2>3. CASE ConfirmHashed(c) \/ ConfirmFails(c)
    BY <2>3 DEF ConfirmHashed, ConfirmFails, KeptConfs
  <2>4. CASE ConfirmStores(c)
    BY <2>4 DEF ConfirmStores, KeptConfs
  <2> QED
    BY <1>4, <2>1, <2>2, <2>3, <2>4 DEF ConfirmStep
<1>5. ASSUME NEW c \in Clients, ConsumeStep(c) PROVE SingleGrant'
  BY <1>5 DEF ConsumeStep, ConsumeBegin, ConsumeChecked, ConsumeRefused,
     PolicyFails, ConsumeClaim, ConsumeGrant, ConsumeExpired,
     ConsumeRollsBack, LivePlan, Consumable, Unclaim, ReleaseExecution
<1>6. ASSUME NEW c \in Clients, DirectStep(c) PROVE SingleGrant'
  BY <1>6 DEF DirectStep, DirectBegin, DirectClaim, DirectGrant,
     DirectRollsBack, LivePlan, ReleaseExecution
<1>7. ASSUME NEW c \in Clients, OutcomeStep(c) PROVE SingleGrant'
  BY <1>7 DEF OutcomeStep, RecordBegin, RecordStores, RecordFails,
     UncertainBegin, UncertainEnds, Recordable, OutcomeUnknown
<1>8. CASE UNCHANGED vars
  BY <1>8 DEF vars
<1> QED
  BY <1>1, <1>2, <1>3, <1>4, <1>5, <1>6, <1>7, <1>8, StepCases

(* Cleanup takes the unpinned object of a call that hashes its token only  *)
(* when the plan ran out or is completed.                                  *)
LEMMA LookupStep == IInv /\ [Next]_vars => LookupLive'
<1> SUFFICES ASSUME IInv, [Next]_vars PROVE LookupLive'
  OBVIOUS
<1> USE StoreAssumption DEF IInv, TypeOK, CallsBound, LookupLive, ClaimState,
   NoDetachedCall, CreatePhases, ConfirmPhases, PolicyPhases, ClaimPhases,
   ExecPhases, ReportPhases, GrantedPhases, Goto, Return, planVars, confVars,
   pinVars, callVars
<1>1. CASE Tick
  BY <1>1 DEF Tick
<1>2. CASE RetentionStatus
  BY <1>2 DEF RetentionStatus, KeptPlans, KeptConfs, Evictable, Pinned
<1>3. ASSUME NEW c \in Clients, CreateStep(c) PROVE LookupLive'
  BY <1>3 DEF CreateStep, CreateBegin, CreateRefused, CreateAllowed,
     CreateFails, CreateStores, FreeId, KeptPlans, Evictable, Pinned
<1>4. ASSUME NEW c \in Clients, ConfirmStep(c) PROVE LookupLive'
  <2>1. ASSUME NEW p \in Plans, NEW k \in Confs, ConfirmBegin(c, p, k) PROVE
     LookupLive'
    BY <2>1 DEF ConfirmBegin, Confirmable, Replaceable, LivePlan,
       ConfSlotFree, ConfsAfterCheck, KeptConfs
  <2>2. CASE \E p \in Plans : ConfirmRefused(c, p)
    BY <2>2 DEF ConfirmRefused, Confirmable, Replaceable, LivePlan,
       ConfsAfterCheck, KeptConfs
  <2>3. CASE ConfirmHashed(c) \/ ConfirmFails(c)
    BY <2>3 DEF ConfirmHashed, ConfirmFails, KeptConfs
  <2>4. CASE ConfirmStores(c)
    BY <2>4 DEF ConfirmStores, KeptConfs
  <2> QED
    BY <1>4, <2>1, <2>2, <2>3, <2>4 DEF ConfirmStep
<1>5. ASSUME NEW c \in Clients, ConsumeStep(c) PROVE LookupLive'
  BY <1>5 DEF ConsumeStep, ConsumeBegin, ConsumeChecked, ConsumeRefused,
     PolicyFails, ConsumeClaim, ConsumeGrant, ConsumeExpired,
     ConsumeRollsBack, LivePlan, Consumable, Unclaim, ReleaseExecution
<1>6. ASSUME NEW c \in Clients, DirectStep(c) PROVE LookupLive'
  BY <1>6 DEF DirectStep, DirectBegin, DirectClaim, DirectGrant,
     DirectRollsBack, LivePlan, ReleaseExecution
<1>7. ASSUME NEW c \in Clients, OutcomeStep(c) PROVE LookupLive'
  BY <1>7 DEF OutcomeStep, RecordBegin, RecordStores, RecordFails,
     UncertainBegin, UncertainEnds, Recordable, OutcomeUnknown
<1>8. CASE UNCHANGED vars
  BY <1>8 DEF vars
<1> QED
  BY <1>1, <1>2, <1>3, <1>4, <1>5, <1>6, <1>7, <1>8, StepCases

(* expiresAt of a confirmation is at most that of its plan, which is       *)
(* frozen.                                                                 *)
LEMMA WindowStep == IInv /\ [Next]_vars => ConfirmationWindow'
<1> SUFFICES ASSUME IInv, [Next]_vars PROVE ConfirmationWindow'
  OBVIOUS
<1> USE StoreAssumption DEF IInv, TypeOK, CallsBound, ClaimToken,
   ConfirmationWindow, CreatePhases, ConfirmPhases, PolicyPhases, ClaimPhases,
   ExecPhases, ReportPhases, GrantedPhases, Goto, Return, planVars, confVars,
   pinVars, callVars
<1>1. CASE Tick
  BY <1>1 DEF Tick
<1>2. CASE RetentionStatus
  BY <1>2 DEF RetentionStatus, KeptPlans, KeptConfs, Evictable, Pinned
<1>3. ASSUME NEW c \in Clients, CreateStep(c) PROVE ConfirmationWindow'
  BY <1>3 DEF CreateStep, CreateBegin, CreateRefused, CreateAllowed,
     CreateFails, CreateStores, FreeId, KeptPlans, Evictable, Pinned
<1>4. ASSUME NEW c \in Clients, ConfirmStep(c) PROVE ConfirmationWindow'
  <2>1. ASSUME NEW p \in Plans, NEW k \in Confs, ConfirmBegin(c, p, k) PROVE
     ConfirmationWindow'
    BY <2>1 DEF ConfirmBegin, Confirmable, Replaceable, LivePlan,
       ConfSlotFree, ConfsAfterCheck, KeptConfs
  <2>2. CASE \E p \in Plans : ConfirmRefused(c, p)
    BY <2>2 DEF ConfirmRefused, Confirmable, Replaceable, LivePlan,
       ConfsAfterCheck, KeptConfs
  <2>3. CASE ConfirmHashed(c) \/ ConfirmFails(c)
    BY <2>3 DEF ConfirmHashed, ConfirmFails, KeptConfs
  <2>4. CASE ConfirmStores(c)
    BY <2>4 DEF ConfirmStores, KeptConfs
  <2> QED
    BY <1>4, <2>1, <2>2, <2>3, <2>4 DEF ConfirmStep
<1>5. ASSUME NEW c \in Clients, ConsumeStep(c) PROVE ConfirmationWindow'
  BY <1>5 DEF ConsumeStep, ConsumeBegin, ConsumeChecked, ConsumeRefused,
     PolicyFails, ConsumeClaim, ConsumeGrant, ConsumeExpired,
     ConsumeRollsBack, LivePlan, Consumable, Unclaim, ReleaseExecution
<1>6. ASSUME NEW c \in Clients, DirectStep(c) PROVE ConfirmationWindow'
  BY <1>6 DEF DirectStep, DirectBegin, DirectClaim, DirectGrant,
     DirectRollsBack, LivePlan, ReleaseExecution
<1>7. ASSUME NEW c \in Clients, OutcomeStep(c) PROVE ConfirmationWindow'
  BY <1>7 DEF OutcomeStep, RecordBegin, RecordStores, RecordFails,
     UncertainBegin, UncertainEnds, Recordable, OutcomeUnknown
<1>8. CASE UNCHANGED vars
  BY <1>8 DEF vars
<1> QED
  BY <1>1, <1>2, <1>3, <1>4, <1>5, <1>6, <1>7, <1>8, StepCases

(* Pins and the consumed state keep an object from cleanup; a live         *)
(* confirmation shows that the object found before the hash is still       *)
(* there.                                                                  *)
LEMMA DetachedStep == IInv /\ [Next]_vars => NoDetachedCall'
<1> SUFFICES ASSUME IInv, [Next]_vars PROVE NoDetachedCall'
  OBVIOUS
<1>h. PinsHeld
  BY PinsHold
<1> USE <1>h, StoreAssumption DEF IInv, TypeOK, CallsBound, PinsHeld,
   LookupLive, ClaimState, GrantState, ConfirmationWindow, NoDetachedCall,
   CreatePhases, ConfirmPhases, PolicyPhases, ClaimPhases, ExecPhases,
   ReportPhases, GrantedPhases, Goto, Return, planVars, confVars, pinVars,
   callVars
<1>1. CASE Tick
  BY <1>1 DEF Tick
<1>2. CASE RetentionStatus
  BY <1>2 DEF RetentionStatus, KeptPlans, KeptConfs, Evictable, Pinned
<1>3. ASSUME NEW c \in Clients, CreateStep(c) PROVE NoDetachedCall'
  BY <1>3 DEF CreateStep, CreateBegin, CreateRefused, CreateAllowed,
     CreateFails, CreateStores, FreeId, KeptPlans, Evictable, Pinned
<1>4. ASSUME NEW c \in Clients, ConfirmStep(c) PROVE NoDetachedCall'
  <2>1. ASSUME NEW p \in Plans, NEW k \in Confs, ConfirmBegin(c, p, k) PROVE
     NoDetachedCall'
    BY <2>1 DEF ConfirmBegin, Confirmable, Replaceable, LivePlan,
       ConfSlotFree, ConfsAfterCheck, KeptConfs
  <2>2. CASE \E p \in Plans : ConfirmRefused(c, p)
    BY <2>2 DEF ConfirmRefused, Confirmable, Replaceable, LivePlan,
       ConfsAfterCheck, KeptConfs
  <2>3. CASE ConfirmHashed(c) \/ ConfirmFails(c)
    BY <2>3 DEF ConfirmHashed, ConfirmFails, KeptConfs
  <2>4. CASE ConfirmStores(c)
    BY <2>4 DEF ConfirmStores, KeptConfs
  <2> QED
    BY <1>4, <2>1, <2>2, <2>3, <2>4 DEF ConfirmStep
<1>5. ASSUME NEW c \in Clients, ConsumeStep(c) PROVE NoDetachedCall'
  BY <1>5 DEF ConsumeStep, ConsumeBegin, ConsumeChecked, ConsumeRefused,
     PolicyFails, ConsumeClaim, ConsumeGrant, ConsumeExpired,
     ConsumeRollsBack, LivePlan, Consumable, Unclaim, ReleaseExecution
<1>6. ASSUME NEW c \in Clients, DirectStep(c) PROVE NoDetachedCall'
  BY <1>6 DEF DirectStep, DirectBegin, DirectClaim, DirectGrant,
     DirectRollsBack, LivePlan, ReleaseExecution
<1>7. ASSUME NEW c \in Clients, OutcomeStep(c) PROVE NoDetachedCall'
  BY <1>7 DEF OutcomeStep, RecordBegin, RecordStores, RecordFails,
     UncertainBegin, UncertainEnds, Recordable, OutcomeUnknown
<1>8. CASE UNCHANGED vars
  BY <1>8 DEF vars
<1> QED
  BY <1>1, <1>2, <1>3, <1>4, <1>5, <1>6, <1>7, <1>8, StepCases

(* Cleanup takes a granted plan only when it is completed and resolved.    *)
LEMMA EvidenceStep == IInv /\ [Next]_vars => EvidenceRetained'
<1> SUFFICES ASSUME IInv, [Next]_vars PROVE EvidenceRetained'
  OBVIOUS
<1> USE StoreAssumption DEF IInv, TypeOK, CallsBound, EvidenceRetained,
   ClaimState, GrantState, NoDetachedCall, CreatePhases, ConfirmPhases,
   PolicyPhases, ClaimPhases, ExecPhases, ReportPhases, GrantedPhases,
   Resolved, Reports, Goto, Return, planVars, confVars, pinVars, callVars
<1>1. CASE Tick
  BY <1>1 DEF Tick
<1>2. CASE RetentionStatus
  BY <1>2 DEF RetentionStatus, KeptPlans, KeptConfs, Evictable, Pinned
<1>3. ASSUME NEW c \in Clients, CreateStep(c) PROVE EvidenceRetained'
  BY <1>3 DEF CreateStep, CreateBegin, CreateRefused, CreateAllowed,
     CreateFails, CreateStores, FreeId, KeptPlans, Evictable, Pinned
<1>4. ASSUME NEW c \in Clients, ConfirmStep(c) PROVE EvidenceRetained'
  <2>1. ASSUME NEW p \in Plans, NEW k \in Confs, ConfirmBegin(c, p, k) PROVE
     EvidenceRetained'
    BY <2>1 DEF ConfirmBegin, Confirmable, Replaceable, LivePlan,
       ConfSlotFree, ConfsAfterCheck, KeptConfs
  <2>2. CASE \E p \in Plans : ConfirmRefused(c, p)
    BY <2>2 DEF ConfirmRefused, Confirmable, Replaceable, LivePlan,
       ConfsAfterCheck, KeptConfs
  <2>3. CASE ConfirmHashed(c) \/ ConfirmFails(c)
    BY <2>3 DEF ConfirmHashed, ConfirmFails, KeptConfs
  <2>4. CASE ConfirmStores(c)
    BY <2>4 DEF ConfirmStores, KeptConfs
  <2> QED
    BY <1>4, <2>1, <2>2, <2>3, <2>4 DEF ConfirmStep
<1>5. ASSUME NEW c \in Clients, ConsumeStep(c) PROVE EvidenceRetained'
  BY <1>5 DEF ConsumeStep, ConsumeBegin, ConsumeChecked, ConsumeRefused,
     PolicyFails, ConsumeClaim, ConsumeGrant, ConsumeExpired,
     ConsumeRollsBack, LivePlan, Consumable, Unclaim, ReleaseExecution
<1>6. ASSUME NEW c \in Clients, DirectStep(c) PROVE EvidenceRetained'
  BY <1>6 DEF DirectStep, DirectBegin, DirectClaim, DirectGrant,
     DirectRollsBack, LivePlan, ReleaseExecution
<1>7. ASSUME NEW c \in Clients, OutcomeStep(c) PROVE EvidenceRetained'
  BY <1>7 DEF OutcomeStep, RecordBegin, RecordStores, RecordFails,
     UncertainBegin, UncertainEnds, Recordable, OutcomeUnknown
<1>8. CASE UNCHANGED vars
  BY <1>8 DEF vars
<1> QED
  BY <1>1, <1>2, <1>3, <1>4, <1>5, <1>6, <1>7, <1>8, StepCases

(* confirm clears the plan's confirmation before its first await, and no   *)
(* confirmation is replaced while an execution is pinned.                  *)
LEMMA TokenStep == IInv /\ [Next]_vars => ClaimToken'
<1> SUFFICES ASSUME IInv, [Next]_vars PROVE ClaimToken'
  OBVIOUS
<1>h. PinsHeld
  BY PinsHold
<1> USE <1>h, StoreAssumption DEF IInv, TypeOK, CallsBound, PinsHeld,
   OneCallPerPlan, Alone, ClaimState, ConfirmationKnown, UsedMeansClaimed,
   ConfirmationWindow, ClaimToken, CreatePhases, ConfirmPhases, PolicyPhases,
   ClaimPhases, ExecPhases, ReportPhases, GrantedPhases, Goto, Return,
   planVars, confVars, pinVars, callVars
<1>1. CASE Tick
  BY <1>1 DEF Tick
<1>2. CASE RetentionStatus
  BY <1>2 DEF RetentionStatus, KeptPlans, KeptConfs, Evictable, Pinned
<1>3. ASSUME NEW c \in Clients, CreateStep(c) PROVE ClaimToken'
  BY <1>3 DEF CreateStep, CreateBegin, CreateRefused, CreateAllowed,
     CreateFails, CreateStores, FreeId, KeptPlans, Evictable, Pinned
<1>4. ASSUME NEW c \in Clients, ConfirmStep(c) PROVE ClaimToken'
  <2>1. ASSUME NEW p \in Plans, NEW k \in Confs, ConfirmBegin(c, p, k) PROVE
     ClaimToken'
    BY <2>1 DEF ConfirmBegin, Confirmable, Replaceable, LivePlan,
       ConfSlotFree, ConfsAfterCheck, KeptConfs
  <2>2. CASE \E p \in Plans : ConfirmRefused(c, p)
    BY <2>2 DEF ConfirmRefused, Confirmable, Replaceable, LivePlan,
       ConfsAfterCheck, KeptConfs
  <2>3. CASE ConfirmHashed(c) \/ ConfirmFails(c)
    BY <2>3 DEF ConfirmHashed, ConfirmFails, KeptConfs
  <2>4. CASE ConfirmStores(c)
    BY <2>4 DEF ConfirmStores, KeptConfs
  <2> QED
    BY <1>4, <2>1, <2>2, <2>3, <2>4 DEF ConfirmStep
<1>5. ASSUME NEW c \in Clients, ConsumeStep(c) PROVE ClaimToken'
  BY <1>5 DEF ConsumeStep, ConsumeBegin, ConsumeChecked, ConsumeRefused,
     PolicyFails, ConsumeClaim, ConsumeGrant, ConsumeExpired,
     ConsumeRollsBack, LivePlan, Consumable, Unclaim, ReleaseExecution
<1>6. ASSUME NEW c \in Clients, DirectStep(c) PROVE ClaimToken'
  BY <1>6 DEF DirectStep, DirectBegin, DirectClaim, DirectGrant,
     DirectRollsBack, LivePlan, ReleaseExecution
<1>7. ASSUME NEW c \in Clients, OutcomeStep(c) PROVE ClaimToken'
  BY <1>7 DEF OutcomeStep, RecordBegin, RecordStores, RecordFails,
     UncertainBegin, UncertainEnds, Recordable, OutcomeUnknown
<1>8. CASE UNCHANGED vars
  BY <1>8 DEF vars
<1> QED
  BY <1>1, <1>2, <1>3, <1>4, <1>5, <1>6, <1>7, <1>8, StepCases

(* A confirmation is replaced only when it is gone or ran out unused.      *)
LEMMA KnownStep == IInv /\ [Next]_vars => ConfirmationKnown'
<1> SUFFICES ASSUME IInv, [Next]_vars PROVE ConfirmationKnown'
  OBVIOUS
<1>h. PinsHeld
  BY PinsHold
<1> USE <1>h, StoreAssumption DEF IInv, TypeOK, CallsBound, PinsHeld,
   ClaimToken, ConfirmationWindow, ConfirmationKnown, CreatePhases,
   ConfirmPhases, PolicyPhases, ClaimPhases, ExecPhases, ReportPhases,
   GrantedPhases, Goto, Return, planVars, confVars, pinVars, callVars
<1>1. CASE Tick
  BY <1>1 DEF Tick
<1>2. CASE RetentionStatus
  BY <1>2 DEF RetentionStatus, KeptPlans, KeptConfs, Evictable, Pinned
<1>3. ASSUME NEW c \in Clients, CreateStep(c) PROVE ConfirmationKnown'
  BY <1>3 DEF CreateStep, CreateBegin, CreateRefused, CreateAllowed,
     CreateFails, CreateStores, FreeId, KeptPlans, Evictable, Pinned
<1>4. ASSUME NEW c \in Clients, ConfirmStep(c) PROVE ConfirmationKnown'
  <2>1. ASSUME NEW p \in Plans, NEW k \in Confs, ConfirmBegin(c, p, k) PROVE
     ConfirmationKnown'
    BY <2>1 DEF ConfirmBegin, Confirmable, Replaceable, LivePlan,
       ConfSlotFree, ConfsAfterCheck, KeptConfs
  <2>2. CASE \E p \in Plans : ConfirmRefused(c, p)
    BY <2>2 DEF ConfirmRefused, Confirmable, Replaceable, LivePlan,
       ConfsAfterCheck, KeptConfs
  <2>3. CASE ConfirmHashed(c) \/ ConfirmFails(c)
    BY <2>3 DEF ConfirmHashed, ConfirmFails, KeptConfs
  <2>4. CASE ConfirmStores(c)
    BY <2>4 DEF ConfirmStores, KeptConfs
  <2> QED
    BY <1>4, <2>1, <2>2, <2>3, <2>4 DEF ConfirmStep
<1>5. ASSUME NEW c \in Clients, ConsumeStep(c) PROVE ConfirmationKnown'
  BY <1>5 DEF ConsumeStep, ConsumeBegin, ConsumeChecked, ConsumeRefused,
     PolicyFails, ConsumeClaim, ConsumeGrant, ConsumeExpired,
     ConsumeRollsBack, LivePlan, Consumable, Unclaim, ReleaseExecution
<1>6. ASSUME NEW c \in Clients, DirectStep(c) PROVE ConfirmationKnown'
  BY <1>6 DEF DirectStep, DirectBegin, DirectClaim, DirectGrant,
     DirectRollsBack, LivePlan, ReleaseExecution
<1>7. ASSUME NEW c \in Clients, OutcomeStep(c) PROVE ConfirmationKnown'
  BY <1>7 DEF OutcomeStep, RecordBegin, RecordStores, RecordFails,
     UncertainBegin, UncertainEnds, Recordable, OutcomeUnknown
<1>8. CASE UNCHANGED vars
  BY <1>8 DEF vars
<1> QED
  BY <1>1, <1>2, <1>3, <1>4, <1>5, <1>6, <1>7, <1>8, StepCases

(* The rollback of a claim gives the plan and its confirmation back in one *)
(* step.                                                                   *)
LEMMA UsedStep == IInv /\ [Next]_vars => UsedMeansClaimed'
<1> SUFFICES ASSUME IInv, [Next]_vars PROVE UsedMeansClaimed'
  OBVIOUS
<1>h. PinsHeld
  BY PinsHold
<1> USE <1>h, StoreAssumption DEF IInv, TypeOK, CallsBound, PinsHeld,
   ClaimState, ClaimToken, ConfirmationWindow, UsedMeansClaimed, CreatePhases,
   ConfirmPhases, PolicyPhases, ClaimPhases, ExecPhases, ReportPhases,
   GrantedPhases, Goto, Return, planVars, confVars, pinVars, callVars
<1>1. CASE Tick
  BY <1>1 DEF Tick
<1>2. CASE RetentionStatus
  BY <1>2 DEF RetentionStatus, KeptPlans, KeptConfs, Evictable, Pinned
<1>3. ASSUME NEW c \in Clients, CreateStep(c) PROVE UsedMeansClaimed'
  BY <1>3 DEF CreateStep, CreateBegin, CreateRefused, CreateAllowed,
     CreateFails, CreateStores, FreeId, KeptPlans, Evictable, Pinned
<1>4. ASSUME NEW c \in Clients, ConfirmStep(c) PROVE UsedMeansClaimed'
  <2>1. ASSUME NEW p \in Plans, NEW k \in Confs, ConfirmBegin(c, p, k) PROVE
     UsedMeansClaimed'
    BY <2>1 DEF ConfirmBegin, Confirmable, Replaceable, LivePlan,
       ConfSlotFree, ConfsAfterCheck, KeptConfs
  <2>2. CASE \E p \in Plans : ConfirmRefused(c, p)
    BY <2>2 DEF ConfirmRefused, Confirmable, Replaceable, LivePlan,
       ConfsAfterCheck, KeptConfs
  <2>3. CASE ConfirmHashed(c) \/ ConfirmFails(c)
    BY <2>3 DEF ConfirmHashed, ConfirmFails, KeptConfs
  <2>4. CASE ConfirmStores(c)
    BY <2>4 DEF ConfirmStores, KeptConfs
  <2> QED
    BY <1>4, <2>1, <2>2, <2>3, <2>4 DEF ConfirmStep
<1>5. ASSUME NEW c \in Clients, ConsumeStep(c) PROVE UsedMeansClaimed'
  BY <1>5 DEF ConsumeStep, ConsumeBegin, ConsumeChecked, ConsumeRefused,
     PolicyFails, ConsumeClaim, ConsumeGrant, ConsumeExpired,
     ConsumeRollsBack, LivePlan, Consumable, Unclaim, ReleaseExecution
<1>6. ASSUME NEW c \in Clients, DirectStep(c) PROVE UsedMeansClaimed'
  BY <1>6 DEF DirectStep, DirectBegin, DirectClaim, DirectGrant,
     DirectRollsBack, LivePlan, ReleaseExecution
<1>7. ASSUME NEW c \in Clients, OutcomeStep(c) PROVE UsedMeansClaimed'
  BY <1>7 DEF OutcomeStep, RecordBegin, RecordStores, RecordFails,
     UncertainBegin, UncertainEnds, Recordable, OutcomeUnknown
<1>8. CASE UNCHANGED vars
  BY <1>8 DEF vars
<1> QED
  BY <1>1, <1>2, <1>3, <1>4, <1>5, <1>6, <1>7, <1>8, StepCases
-----------------------------------------------------------------------------
(* Nothing is in progress in the initial state. *)
LEMMA InitInv == Init => IInv
BY StoreAssumption
   DEF Init, IInv, TypeOK, CallsBound, PinsMatchCalls, OneCallPerPlan, Alone,
       ClaimState, GrantState, SingleGrant, LookupLive, ConfirmationWindow,
       NoDetachedCall, EvidenceRetained, ClaimToken, ConfirmationKnown,
       UsedMeansClaimed, CreatePhases, ConfirmPhases, PolicyPhases, ClaimPhases,
       ExecPhases, ReportPhases, GrantedPhases, Phases, PlanStates, Reports

(* The conjuncts hold together, so that each step lemma may use them all.  *)
LEMMA StepInv == IInv /\ [Next]_vars => IInv'
<1> SUFFICES ASSUME IInv, [Next]_vars PROVE IInv'
  OBVIOUS
<1>1. TypeOK' /\ CallsBound' /\ PinsMatchCalls' /\ OneCallPerPlan'
  BY TypeStep, BoundStep, PinsStep, AloneStep
<1>2. ClaimState' /\ GrantState' /\ SingleGrant'
  BY ClaimStep, GrantStep, SingleStep
<1>3. LookupLive' /\ ConfirmationWindow' /\ NoDetachedCall' /\ EvidenceRetained'
  BY LookupStep, WindowStep, DetachedStep, EvidenceStep
<1>4. ClaimToken' /\ ConfirmationKnown' /\ UsedMeansClaimed'
  BY TokenStep, KnownStep, UsedStep
<1> QED
  BY <1>1, <1>2, <1>3, <1>4 DEF IInv

(* The inductive invariant holds in every reachable state of the store.    *)
THEOREM Invariance == Spec => []IInv
BY InitInv, StepInv, PTL DEF Spec

(* The store's variables keep their types, for any number of calls.        *)
THEOREM TypeCorrect == Spec => []TypeOK
<1>1. IInv => TypeOK
  BY DEF IInv
<1> QED
  BY <1>1, Invariance, PTL

(* No plan is handed out for execution twice (consumeExecution and         *)
(* consumeDirectExecution, racing in any number and failing at any await). *)
THEOREM GrantedOnce == Spec => []SingleGrant
<1>1. IInv => SingleGrant
  BY DEF IInv
<1> QED
  BY <1>1, Invariance, PTL

(* The four pin sets hold the planIds of the calls in progress, no others, *)
(* and one call at a time creates, confirms, claims or reports a planId.   *)
THEOREM PinsExact == Spec => []PinsExclusive
<1>1. IInv => PinsExclusive
  BY DEF IInv, PinsExclusive
<1> QED
  BY <1>1, Invariance, PTL

(* The object a call works on is in the map across all of its awaits, and  *)
(* (ADR-003) unresolved executions are never evicted.                      *)
THEOREM EvidenceKept == Spec => []EvidenceSafe
<1>1. IInv => EvidenceSafe
  BY DEF IInv, EvidenceSafe
<1> QED
  BY <1>1, Invariance, PTL

(* A redeemable confirmation is the one its plan knows, and a used one     *)
(* belongs to a plan that is no longer pending.                            *)
THEOREM ConfirmationsKnown == Spec => []ConfirmationsSound
<1>1. IInv => ConfirmationsSound
  BY DEF IInv, ConfirmationsSound
<1> QED
  BY <1>1, Invariance, PTL

(* A granted plan never becomes pending, and outcomes are never replaced.  *)
THEOREM OutcomesFinal == Spec => OutcomeIsFinal
<1> DEFINE Final == \A p \in Plans :
              /\ grants[p] > 0 => state'[p] # "pending"
              /\ state[p] \in {"completed", "uncertain"} =>
                    state'[p] = state[p] /\ report'[p] = report[p]
<1>1. ASSUME IInv, [Next]_vars PROVE Final \/ UNCHANGED vars
  <2> USE <1>1 DEF IInv, TypeOK, CallsBound, ClaimState, GrantState,
         PolicyPhases, ClaimPhases, ReportPhases, GrantedPhases, planVars
  <2>1. CASE Tick \/ RetentionStatus
    BY <2>1 DEF Tick, RetentionStatus
  <2>2. ASSUME NEW c \in Clients, CreateStep(c) \/ ConfirmStep(c) PROVE Final
    BY <2>2 DEF CreateStep, ConfirmStep, CreateBegin, CreateRefused, CreateAllowed,
       CreateFails, CreateStores, ConfirmBegin, ConfirmRefused, ConfirmHashed,
       ConfirmFails, ConfirmStores
  <2>3. ASSUME NEW c \in Clients, ConsumeStep(c) \/ DirectStep(c) PROVE Final
    BY <2>3 DEF ConsumeStep, DirectStep, ConsumeBegin, ConsumeChecked,
       ConsumeRefused, PolicyFails, ConsumeClaim, ConsumeGrant, ConsumeExpired,
       ConsumeRollsBack, Unclaim, DirectBegin, DirectClaim, DirectGrant,
       DirectRollsBack
  <2>4. ASSUME NEW c \in Clients, OutcomeStep(c) PROVE Final
    BY <2>4 DEF OutcomeStep, RecordBegin, RecordStores, RecordFails,
       UncertainBegin, UncertainEnds, Recordable
  <2> HIDE DEF Final
  <2> QED
    BY <1>1, <2>1, <2>2, <2>3, <2>4, StepCases
<1> QED
  BY <1>1, Invariance, PTL DEF Spec, OutcomeIsFinal

-----------------------------------------------------------------------------
(* The reservations of the two registries.                                 *)

(* The map keys its objects by planId, and an id that is being created is  *)
(* not in the map.                                                         *)
KeysUnique ==
    /\ \A p, q \in store : IdOf[p] = IdOf[q] => p = q
    /\ \A c \in Clients, q \in store :
           pc[c] \in CreatePhases => IdOf[q] # IdOf[target[c]]

(* What is not in the map yet has not been granted.                        *)
NewUngranted ==
    /\ \A p \in Plans : p \notin born => grants[p] = 0
    /\ \A c \in Clients : pc[c] \in CreatePhases => grants[target[c]] = 0

(* The sets whose sizes the capacity checks read are finite.               *)
SizesFinite ==
    /\ IsFiniteSet(KeptPlans) /\ IsFiniteSet(pendingPlan)
    /\ IsFiniteSet(KeptConfs(confs)) /\ IsFiniteSet(pendingConf)

(* IInv does not need these; the capacities and the refinement do.         *)
CInv == KeysUnique /\ NewUngranted /\ SizesFinite /\ ReservationHolds

(* createPlan looks the id up among the entries and the reservations.      *)
LEMMA KeysStep == IInv /\ KeysUnique /\ [Next]_vars => KeysUnique'
<1> SUFFICES ASSUME IInv, KeysUnique, [Next]_vars PROVE KeysUnique'
  OBVIOUS
<1> USE StoreAssumption DEF IInv, TypeOK, CallsBound, OneCallPerPlan, Alone, KeysUnique,
   CreatePhases, ConfirmPhases, PolicyPhases, ClaimPhases, ExecPhases, ReportPhases,
   GrantedPhases, Goto, Return, planVars, confVars, pinVars, callVars
<1>1. CASE Tick \/ RetentionStatus
  BY <1>1 DEF Tick, RetentionStatus, KeptPlans
<1>2. ASSUME NEW c \in Clients, CreateStep(c) PROVE KeysUnique'
  BY <1>2, PinsHold DEF CreateStep, CreateBegin, CreateRefused, CreateAllowed,
     CreateFails, CreateStores, FreeId, KeptPlans, PinsHeld
<1>3. ASSUME NEW c \in Clients, ConfirmStep(c) PROVE KeysUnique'
  BY <1>3 DEF ConfirmStep, ConfirmBegin, ConfirmRefused, ConfirmHashed, ConfirmFails, ConfirmStores
<1>4. ASSUME NEW c \in Clients, ConsumeStep(c) \/ DirectStep(c) PROVE KeysUnique'
  BY <1>4 DEF ConsumeStep, DirectStep, ConsumeBegin, ConsumeChecked,
       ConsumeRefused, PolicyFails, ConsumeClaim, ConsumeGrant, ConsumeExpired,
       ConsumeRollsBack, DirectBegin, DirectClaim, DirectGrant,
       DirectRollsBack
<1>5. ASSUME NEW c \in Clients, OutcomeStep(c) PROVE KeysUnique'
  BY <1>5 DEF OutcomeStep, RecordBegin, RecordStores, RecordFails,
     UncertainBegin, UncertainEnds
<1>6. CASE UNCHANGED vars
  BY <1>6 DEF vars
<1> QED
  BY <1>1, <1>2, <1>3, <1>4, <1>5, <1>6, StepCases

(* Only an object that is in the map is granted.                           *)
LEMMA NewStep == IInv /\ KeysUnique /\ NewUngranted /\ [Next]_vars => NewUngranted'
<1> SUFFICES ASSUME IInv, KeysUnique, NewUngranted, [Next]_vars PROVE NewUngranted'
  OBVIOUS
<1> USE StoreAssumption DEF IInv, TypeOK, CallsBound, NewUngranted, NoDetachedCall, OneCallPerPlan, Alone,
   CreatePhases, ConfirmPhases, PolicyPhases, ClaimPhases, ExecPhases, ReportPhases,
   GrantedPhases, Goto, Return, planVars, confVars, pinVars, callVars
<1>1. CASE Tick \/ RetentionStatus
  BY <1>1 DEF Tick, RetentionStatus
<1>2. ASSUME NEW c \in Clients, CreateStep(c) PROVE NewUngranted'
  BY <1>2 DEF CreateStep, CreateBegin, CreateRefused, CreateAllowed,
     CreateFails, CreateStores
<1>3. ASSUME NEW c \in Clients, ConfirmStep(c) PROVE NewUngranted'
  BY <1>3 DEF ConfirmStep, ConfirmBegin, ConfirmRefused, ConfirmHashed, ConfirmFails, ConfirmStores
<1>4. ASSUME NEW c \in Clients, ConsumeStep(c) \/ DirectStep(c) PROVE NewUngranted'
  BY <1>4 DEF ConsumeStep, DirectStep, ConsumeBegin, ConsumeChecked,
       ConsumeRefused, PolicyFails, ConsumeClaim, ConsumeGrant, ConsumeExpired,
       ConsumeRollsBack, DirectBegin, DirectClaim, DirectGrant,
       DirectRollsBack, KeysUnique
<1>5. ASSUME NEW c \in Clients, OutcomeStep(c) PROVE NewUngranted'
  BY <1>5 DEF OutcomeStep, RecordBegin, RecordStores, RecordFails,
     UncertainBegin, UncertainEnds
<1>6. CASE UNCHANGED vars
  BY <1>6 DEF vars
<1> QED
  BY <1>1, <1>2, <1>3, <1>4, <1>5, <1>6, StepCases

(* A subset of a finite set is finite and no larger. *)
LEMMA SubsetSize ==
    ASSUME NEW A, NEW B, IsFiniteSet(B), A \subseteq B
    PROVE  IsFiniteSet(A) /\ Cardinality(A) \in Nat /\ Cardinality(B) \in Nat
             /\ Cardinality(A) <= Cardinality(B)
BY FS_Subset, FS_CardinalityType

(* Apart from the two halves of createPlan no step makes cleanup keep an   *)
(* entry that it would not have kept before, or reserves another slot.     *)
SlotsKept ==
    /\ KeptPlans' \subseteq KeptPlans
    /\ pendingPlan' \subseteq pendingPlan

SlotReserved(p) ==
    /\ PlanSlotFree
    /\ KeptPlans' \subseteq KeptPlans
    /\ pendingPlan' = pendingPlan \cup {IdOf[p]}

SlotTaken(p) ==
    /\ KeptPlans' \subseteq KeptPlans \cup {p}
    /\ IdOf[p] \in pendingPlan
    /\ pendingPlan' = pendingPlan \ {IdOf[p]}

(* A pin is only put on an entry that cleanup would have kept anyway.      *)
LEMMA PlanSlots ==
    ASSUME IInv, KeysUnique, [Next]_vars
    PROVE  SlotsKept \/ \E p \in Plans : SlotReserved(p) \/ SlotTaken(p)
<1> USE StoreAssumption DEF IInv, TypeOK, CallsBound, ConfirmationWindow,
   CreatePhases, ConfirmPhases, PolicyPhases, ClaimPhases, ExecPhases, ReportPhases,
   GrantedPhases, Goto, Return, planVars, confVars, pinVars, callVars
<1> USE DEF KeptPlans, Evictable, Pinned
<1>1. CASE Tick \/ RetentionStatus
  BY <1>1 DEF Tick, RetentionStatus, SlotsKept
<1>2. ASSUME NEW c \in Clients, CreateStep(c) 
      PROVE SlotsKept \/ \E p \in Plans : SlotReserved(p) \/ SlotTaken(p)
  <2>1. ASSUME NEW p \in Plans, CreateBegin(c, p) PROVE SlotReserved(p)
    BY <2>1 DEF CreateBegin, FreeId, SlotReserved
  <2>2. CASE \E p \in Plans : CreateRefused(c, p)
    BY <2>2 DEF CreateRefused, SlotsKept
  <2>3. CASE CreateAllowed(c) \/ CreateFails(c)
    BY <2>3 DEF CreateAllowed, CreateFails, SlotsKept
  <2>4. CASE CreateStores(c)
    <3>1. PICK p \in Plans : p = target[c]
      BY <2>4 DEF CreateStores
    <3>2. SlotTaken(p)
      BY <2>4, <3>1, PinsHold DEF CreateStores, SlotTaken, PinsHeld
    <3> QED
      BY <3>2
  <2> QED
    BY <1>2, <2>1, <2>2, <2>3, <2>4 DEF CreateStep
<1>3. ASSUME NEW c \in Clients, ConfirmStep(c) PROVE SlotsKept
  BY <1>3 DEF ConfirmStep, ConfirmBegin, ConfirmRefused, ConfirmHashed, ConfirmFails, ConfirmStores,
     Confirmable, LivePlan, SlotsKept, KeysUnique
<1>4. ASSUME NEW c \in Clients, ConsumeStep(c) PROVE SlotsKept
  <2>1. CASE \E p \in Plans, k \in Confs : ConsumeBegin(c, p, k)
    BY <2>1 DEF ConsumeBegin, SlotsKept
  <2>2. CASE ConsumeChecked(c)
    BY <2>2 DEF ConsumeChecked, Consumable, SlotsKept, LookupLive, KeysUnique
  <2>3. CASE ConsumeRefused(c) \/ PolicyFails(c) \/ ConsumeExpired(c) \/ ConsumeGrant(c)
    BY <2>3 DEF ConsumeRefused, PolicyFails, ConsumeExpired, ConsumeGrant, ReleaseExecution, SlotsKept
  <2>4. CASE ConsumeClaim(c) \/ ConsumeRollsBack(c)
    BY <2>4, PinsHold DEF ConsumeClaim, ConsumeRollsBack, Unclaim, ReleaseExecution, SlotsKept, PinsHeld
  <2> QED
    BY <1>4, <2>1, <2>2, <2>3, <2>4 DEF ConsumeStep
<1>5. ASSUME NEW c \in Clients, DirectStep(c) PROVE SlotsKept
  BY <1>5, PinsHold DEF DirectStep, DirectBegin, DirectClaim, DirectGrant, LivePlan,
       DirectRollsBack, ReleaseExecution, SlotsKept, KeysUnique, ClaimState, PinsHeld
<1>6. ASSUME NEW c \in Clients, OutcomeStep(c) PROVE SlotsKept
  <2>1. CASE RecordBegin(c) 
    BY <2>1 DEF RecordBegin, Recordable, SlotsKept, KeysUnique
  <2>2. CASE \E status \in Reports : RecordStores(c, status)
    BY <2>2, PinsHold DEF RecordStores, SlotsKept, PinsHeld
  <2>3. CASE RecordFails(c) \/ UncertainEnds(c)
    BY <2>3 DEF RecordFails, UncertainEnds, SlotsKept
  <2>4. CASE UncertainBegin(c)
    BY <2>4 DEF UncertainBegin, Recordable, SlotsKept, KeysUnique
  <2> QED
    BY <1>6, <2>1, <2>2, <2>3, <2>4 DEF OutcomeStep
<1>7. CASE UNCHANGED vars
  BY <1>7 DEF vars, SlotsKept
<1> QED
  BY <1>1, <1>2, <1>3, <1>4, <1>5, <1>6, <1>7, StepCases

(* The same for confirmations and the two halves of confirm.               *)
ConfsKept ==
    /\ KeptConfs(confs)' \subseteq KeptConfs(confs)
    /\ pendingConf' \subseteq pendingConf

ConfReserved(p) ==
    /\ ConfSlotFree(p)
    /\ KeptConfs(confs)' \subseteq ConfsAfterCheck(p)
    /\ pendingConf' = pendingConf \cup {IdOf[p]}

ConfTaken(p, k) ==
    /\ KeptConfs(confs)' \subseteq KeptConfs(confs) \cup {k}
    /\ IdOf[p] \in pendingConf
    /\ pendingConf' = pendingConf \ {IdOf[p]}

(* The expiry of a confirmation is set before it is stored.                *)
LEMMA ConfSlots ==
    ASSUME IInv, [Next]_vars
    PROVE  \/ ConfsKept 
           \/ \E p \in Plans : ConfReserved(p) \/ \E k \in Confs : ConfTaken(p, k)
<1> USE StoreAssumption DEF IInv, TypeOK, CallsBound, ConfirmationWindow,
   CreatePhases, ConfirmPhases, PolicyPhases, ClaimPhases, ExecPhases, ReportPhases,
   GrantedPhases, Goto, Return, planVars, confVars, pinVars, callVars
<1> USE DEF KeptConfs
<1>1. CASE Tick \/ RetentionStatus
  BY <1>1 DEF Tick, RetentionStatus, ConfsKept
<1>2. ASSUME NEW c \in Clients, CreateStep(c) PROVE ConfsKept
  BY <1>2 DEF CreateStep, CreateBegin, CreateRefused, CreateAllowed,
     CreateFails, CreateStores, ConfsKept
<1>3. ASSUME NEW c \in Clients, ConfirmStep(c)
      PROVE \/ ConfsKept 
            \/ \E p \in Plans : ConfReserved(p) \/ \E k \in Confs : ConfTaken(p, k)
  <2>1. ASSUME NEW p \in Plans, NEW k \in Confs, ConfirmBegin(c, p, k) PROVE ConfReserved(p)
    BY <2>1 DEF ConfirmBegin, ConfReserved, ConfsAfterCheck
  <2>2. CASE (\E p \in Plans : ConfirmRefused(c, p)) \/ ConfirmHashed(c) \/ ConfirmFails(c)
    BY <2>2 DEF ConfirmRefused, ConfirmHashed, ConfirmFails, ConfsAfterCheck, ConfsKept
  <2>3. CASE ConfirmStores(c)
    <3>1. PICK p \in Plans, k \in Confs : p = target[c] /\ k = token[c]
      BY <2>3 DEF ConfirmStores
    <3>2. ConfTaken(p, k)
      BY <2>3, <3>1, PinsHold DEF ConfirmStores, ConfTaken, PinsHeld
    <3> QED
      BY <3>2
  <2> QED
    BY <1>3, <2>1, <2>2, <2>3 DEF ConfirmStep
<1>4. ASSUME NEW c \in Clients, ConsumeStep(c) \/ DirectStep(c) PROVE ConfsKept
  BY <1>4 DEF ConsumeStep, DirectStep, ConsumeBegin, ConsumeChecked,
       ConsumeRefused, PolicyFails, ConsumeClaim, ConsumeGrant, ConsumeExpired,
       ConsumeRollsBack, DirectBegin, DirectClaim, DirectGrant,
       DirectRollsBack, ConfsKept
<1>5. ASSUME NEW c \in Clients, OutcomeStep(c) PROVE ConfsKept
  BY <1>5 DEF OutcomeStep, RecordBegin, RecordStores, RecordFails,
     UncertainBegin, UncertainEnds, ConfsKept
<1>6. CASE UNCHANGED vars
  BY <1>6 DEF vars, ConfsKept
<1> QED
  BY <1>1, <1>2, <1>3, <1>4, <1>5, <1>6, StepCases

(* A slot is given away only while one is free, and taking one uses up the *)
(* reservation; with the entries kept in A and the reservations in R.      *)
LEMMA SlotArithmetic ==
    ASSUME NEW A, NEW R, NEW A1, NEW R1, NEW limit \in Nat, NEW x, NEW i,
           IsFiniteSet(A), IsFiniteSet(R),
           Cardinality(A) + Cardinality(R) <= limit,
           \/ A1 \subseteq A /\ R1 \subseteq R
           \/ A1 \subseteq A /\ R1 = R \cup {i} /\ Cardinality(A) + Cardinality(R) < limit
           \/ A1 \subseteq A \cup {x} /\ i \in R /\ R1 = R \ {i}
    PROVE  /\ IsFiniteSet(A1) /\ IsFiniteSet(R1)
           /\ Cardinality(A1) + Cardinality(R1) <= limit
<1>1. Cardinality(A) \in Nat /\ Cardinality(R) \in Nat
  BY FS_CardinalityType
<1>2. CASE A1 \subseteq A /\ R1 \subseteq R
  BY <1>1, <1>2, SubsetSize
<1>3. CASE A1 \subseteq A /\ R1 = R \cup {i} /\ Cardinality(A) + Cardinality(R) < limit
  <2>1. IsFiniteSet(A1) /\ Cardinality(A1) \in Nat /\ Cardinality(A1) <= Cardinality(A)
    BY <1>3, SubsetSize
  <2>2. /\ IsFiniteSet(R1) /\ Cardinality(R1) \in Nat
        /\ Cardinality(R1) <= Cardinality(R) + 1
    BY <1>1, <1>3, FS_AddElement
  <2> QED
    BY <1>1, <1>3, <2>1, <2>2
<1>4. CASE A1 \subseteq A \cup {x} /\ i \in R /\ R1 = R \ {i}
  <2>1. /\ IsFiniteSet(A \cup {x}) /\ Cardinality(A \cup {x}) \in Nat
        /\ Cardinality(A \cup {x}) <= Cardinality(A) + 1
    BY <1>1, FS_AddElement
  <2>2. IsFiniteSet(A1) /\ Cardinality(A1) \in Nat /\ Cardinality(A1) <= Cardinality(A) + 1
    BY <1>1, <1>4, <2>1, SubsetSize
  <2>3. IsFiniteSet(R1) /\ Cardinality(R1) = Cardinality(R) - 1
    BY <1>4, FS_RemoveElement
  <2> QED
    BY <1>1, <2>2, <2>3
<1> QED
  BY <1>2, <1>3, <1>4

(* The step keeps the sets finite and their sizes within the capacities.   *)
LEMMA ReservationStep ==
    IInv /\ CInv /\ [Next]_vars => SizesFinite' /\ ReservationHolds'
<1> SUFFICES ASSUME IInv, CInv, [Next]_vars PROVE SizesFinite' /\ ReservationHolds'
  OBVIOUS
<1> USE StoreAssumption DEF CInv, SizesFinite, ReservationHolds
<1>1. /\ IsFiniteSet(KeptPlans') /\ IsFiniteSet(pendingPlan')
      /\ Cardinality(KeptPlans') + Cardinality(pendingPlan') <= PlanCapacity
  <2>1. PICK p, i : \/ KeptPlans' \subseteq KeptPlans /\ pendingPlan' \subseteq pendingPlan
                    \/ /\ KeptPlans' \subseteq KeptPlans /\ pendingPlan' = pendingPlan \cup {i}
                       /\ Cardinality(KeptPlans) + Cardinality(pendingPlan) < PlanCapacity
                    \/ /\ KeptPlans' \subseteq KeptPlans \cup {p} /\ i \in pendingPlan
                       /\ pendingPlan' = pendingPlan \ {i}
    BY PlanSlots DEF SlotsKept, SlotReserved, SlotTaken, PlanSlotFree
  <2> QED
    BY <2>1, SlotArithmetic
<1>2. /\ IsFiniteSet(KeptConfs(confs)') /\ IsFiniteSet(pendingConf')
      /\ Cardinality(KeptConfs(confs)') + Cardinality(pendingConf') <= ConfCapacity
  <2> DEFINE Kept == KeptConfs(confs)
  <2>1. PICK k, i : \/ Kept' \subseteq Kept /\ pendingConf' \subseteq pendingConf
                    \/ \E B \in SUBSET Kept :
                          /\ Kept' \subseteq B /\ pendingConf' = pendingConf \cup {i}
                          /\ Cardinality(B) + Cardinality(pendingConf) < ConfCapacity
                    \/ /\ Kept' \subseteq Kept \cup {k} /\ i \in pendingConf
                       /\ pendingConf' = pendingConf \ {i}
    <3>1. \A p \in Plans : ConfsAfterCheck(p) \in SUBSET KeptConfs(confs)
      BY DEF ConfsAfterCheck, KeptConfs
    <3> QED
      BY <3>1, ConfSlots DEF ConfsKept, ConfReserved, ConfTaken, ConfSlotFree
  <2> HIDE DEF Kept
  <2>2. CASE \E B \in SUBSET Kept :
                          /\ Kept' \subseteq B /\ pendingConf' = pendingConf \cup {i}
                          /\ Cardinality(B) + Cardinality(pendingConf) < ConfCapacity
    <3>1. PICK B \in SUBSET Kept :
                          /\ Kept' \subseteq B /\ pendingConf' = pendingConf \cup {i}
                          /\ Cardinality(B) + Cardinality(pendingConf) < ConfCapacity
      BY <2>2
    <3>2. IsFiniteSet(B) /\ Cardinality(B) \in Nat
      BY SubsetSize DEF Kept
    <3>3. Cardinality(pendingConf) \in Nat /\ ConfCapacity \in Nat
      BY FS_CardinalityType
    <3>4. Cardinality(B) + Cardinality(pendingConf) <= ConfCapacity
      BY <3>1, <3>2, <3>3
    <3>5. /\ IsFiniteSet(Kept') /\ IsFiniteSet(pendingConf')
          /\ Cardinality(Kept') + Cardinality(pendingConf') <= ConfCapacity
      BY <3>1, <3>2, <3>3, <3>4, SlotArithmetic
    <3> QED
      BY <3>5 DEF Kept
  <2> QED
    BY <2>1, <2>2, SlotArithmetic DEF Kept
<1> QED
  BY <1>1, <1>2

(* What the capacities and the refinement need besides IInv.              *)
THEOREM CapacityInvariance == Spec => []CInv
<1>1. Init => CInv
  <2> USE StoreAssumption DEF Init
  <2>1. Init => KeptPlans = {} /\ KeptConfs(confs) = {}
    BY DEF KeptPlans, KeptConfs
  <2>2. Init => SizesFinite /\ ReservationHolds
    BY <2>1, FS_EmptySet DEF SizesFinite, ReservationHolds
  <2>3. Init => KeysUnique /\ NewUngranted
    BY DEF KeysUnique, NewUngranted, CreatePhases
  <2> QED
    BY <2>2, <2>3 DEF CInv
<1>2. IInv /\ CInv /\ [Next]_vars => CInv'
  BY KeysStep, NewStep, ReservationStep DEF CInv
<1> QED
  BY <1>1, <1>2, Invariance, PTL DEF Spec

(* The registry's sizes never exceed the capacities together with what is  *)
(* reserved (requireCapacity and requireConfirmationCapacity), so set()    *)
(* never turns away a call that was audited as allowed.                    *)
THEOREM ReservationsHonoured == Spec => []ReservationHolds
<1>1. CInv => ReservationHolds
  BY DEF CInv
<1> QED
  BY <1>1, CapacityInvariance, PTL

-----------------------------------------------------------------------------
(* The refinement of PlanLifecycle.                                        *)

(* One plan's life; life is the function of it.                            *)
Creating(p) == \E c \in Clients : pc[c] \in CreatePhases /\ target[c] = p

LifeOf(p) ==
    IF p \notin store
    THEN IF p \in born /\ ~Creating(p) THEN "forgotten" ELSE "new"
    ELSE IF grants[p] = 0 THEN "offered"
    ELSE IF state[p] = "uncertain" THEN "uncertain"
    ELSE IF state[p] = "completed"
    THEN IF report[p] = "partial" THEN "partial" ELSE "resolved"
    ELSE "executing"

(* life spells the same with a CASE. *)
LEMMA LifeValues ==
    /\ TypeOK => life = [p \in Plans |-> LifeOf(p)]
    /\ TypeOK' => life' = [p \in Plans |-> LifeOf(p)']
<1>1. TypeOK => \A p \in Plans : life[p] = LifeOf(p)
  BY DEF TypeOK, life, LifeOf, Creating
<1>2. TypeOK' => \A p \in Plans : life'[p] = LifeOf(p)'
  BY DEF TypeOK, life, LifeOf, Creating
<1> QED
  BY <1>1, <1>2 DEF life

(* What cleanup takes is an offer or a resolved outcome, and an object     *)
(* that is being created is not in the map.                                *)
LEMMA EvictedLife ==
    ASSUME IInv, CInv, NEW p \in store, Evictable(p)
    PROVE  p \in born /\ ~Creating(p) /\ LifeOf(p) \in {"offered", "resolved"}
BY StoreAssumption DEF IInv, CInv, TypeOK, GrantState, KeysUnique, Evictable, LifeOf, Creating,
   Reports, Resolved

(* A step that leaves every plan's life alone is a stutter.                *)
LifeKept == \A p \in Plans : LifeOf(p)' = LifeOf(p)

(* Cleanup, with one plan stored in the same step or none.                 *)
CleanedUp(stored) ==
    \A p \in Plans : LifeOf(p)' = IF p \in store /\ Evictable(p) THEN "forgotten"
                                  ELSE IF p \in stored THEN "offered" ELSE LifeOf(p)

(* One plan's life moves on.                                               *)
LifeMoves(p, before, after) ==
    /\ LifeOf(p) = before
    /\ LifeOf(p)' = after
    /\ \A q \in Plans \ {p} : LifeOf(q)' = LifeOf(q)

(* createPlan cleans the map up; its second half offers or refuses a plan. *)
LEMMA CreateLife ==
    ASSUME IInv, CInv, IInv', NEW c \in Clients, CreateStep(c)
    PROVE  \/ LifeKept \/ CleanedUp({})
           \/ \E p \in Plans : /\ LifeOf(p) = "new"
                               /\ CleanedUp({p}) \/ LifeMoves(p, "new", "forgotten")
<1> USE StoreAssumption DEF IInv, CInv, TypeOK, CallsBound, KeysUnique, OneCallPerPlan, Alone, 
   NewUngranted, CreatePhases, ConfirmPhases, PolicyPhases, ClaimPhases, ExecPhases, ReportPhases,
   GrantedPhases, Goto, Return, planVars, confVars, pinVars, callVars
<1>1. CASE \E p \in Plans : CreateBegin(c, p)
  <2>1. PICK p \in Plans : CreateBegin(c, p)
    BY <1>1
  <2>2. ASSUME NEW q \in Plans PROVE Creating(q)' <=> q = p \/ Creating(q)
    BY <2>1 DEF CreateBegin, Creating
  <2>3. CleanedUp({})
    BY <2>1, <2>2, EvictedLife DEF CreateBegin, CleanedUp, LifeOf, KeptPlans
  <2> QED
    BY <2>3
<1>2. CASE \E p \in Plans : CreateRefused(c, p)
  BY <1>2, EvictedLife DEF CreateRefused, CleanedUp, LifeOf, KeptPlans, Creating
<1>3. CASE CreateAllowed(c)
  BY <1>3 DEF CreateAllowed, LifeKept, LifeOf, Creating
<1>4. CASE CreateFails(c) \/ CreateStores(c)
  <2>1. PICK p \in Plans : p = target[c] /\ p \in born /\ pc[c] \in CreatePhases
    BY <1>4 DEF CreateFails, CreateStores
  <2>2. /\ Creating(p) /\ p \notin store
        /\ \A q \in Plans : Creating(q)' <=> Creating(q) /\ q # p
    BY <1>4, <2>1 DEF CreateFails, CreateStores, Creating
  <2>3. CASE CreateFails(c)
    BY <2>1, <2>2, <2>3 DEF CreateFails, LifeMoves, LifeOf
  <2>4. CASE CreateStores(c)
    <3>1. pendingPlan # {}
      BY <2>1, PinsHold DEF PinsHeld
    <3>2. Cardinality(pendingPlan) \in Nat \ {0} /\ Cardinality(KeptPlans) \in Nat
      BY <3>1, FS_CardinalityType, FS_EmptySet DEF SizesFinite
    <3>3. Cardinality(KeptPlans) < PlanCapacity
      BY <3>2 DEF ReservationHolds
    <3> QED
      BY <2>1, <2>2, <2>4, <3>3, EvictedLife DEF CreateStores, CleanedUp, LifeOf, KeptPlans
  <2> QED
    BY <1>4, <2>3, <2>4
<1> QED
  BY <1>1, <1>2, <1>3, <1>4, Zenon DEF CreateStep

(* Confirmations change no plan's life.                                    *)
LEMMA ConfirmLife ==
    ASSUME IInv, CInv, NEW c \in Clients, ConfirmStep(c)
    PROVE  LifeKept
<1> USE StoreAssumption DEF IInv, CInv, TypeOK, KeysUnique, CreatePhases, ConfirmPhases,
   Goto, Return, planVars
<1>1. \A p \in Plans : Creating(p)' <=> Creating(p)
  <2>1. CASE \E p \in Plans, k \in Confs : ConfirmBegin(c, p, k)
    BY <2>1 DEF ConfirmBegin, Creating
  <2>2. CASE (\E p \in Plans : ConfirmRefused(c, p)) \/ ConfirmHashed(c)
    BY <2>2 DEF ConfirmRefused, ConfirmHashed, Creating, callVars
  <2>3. CASE ConfirmFails(c) \/ ConfirmStores(c)
    BY <2>3 DEF ConfirmFails, ConfirmStores, Creating
  <2> QED
    BY <2>1, <2>2, <2>3 DEF ConfirmStep
<1> QED
  BY <1>1 DEF ConfirmStep, ConfirmBegin, ConfirmRefused, ConfirmHashed, ConfirmFails,
     ConfirmStores, LifeKept, LifeOf

(* A claim and its rollback are not seen outside; a grant is an execution. *)
LEMMA ExecutionLife ==
    ASSUME IInv, CInv, NEW c \in Clients, ConsumeStep(c) \/ DirectStep(c)
    PROVE  LifeKept \/ \E p \in Plans : LifeMoves(p, "offered", "executing")
<1> USE StoreAssumption DEF IInv, CInv, TypeOK, CallsBound, KeysUnique, CreatePhases, 
   PolicyPhases, ClaimPhases, ExecPhases, Goto, Return, planVars, callVars
<1>1. \A p \in Plans : Creating(p)' <=> Creating(p)
  BY DEF ConsumeStep, DirectStep, ConsumeBegin, ConsumeChecked,
       ConsumeRefused, PolicyFails, ConsumeClaim, ConsumeGrant, ConsumeExpired,
       ConsumeRollsBack, DirectBegin, DirectClaim, DirectGrant,
       DirectRollsBack, Creating
<1>2. CASE \/ \E p \in Plans, k \in Confs : ConsumeBegin(c, p, k)
           \/ \E p \in Plans : DirectBegin(c, p)
           \/ ConsumeChecked(c) \/ ConsumeRefused(c) \/ PolicyFails(c) \/ ConsumeExpired(c)
  BY <1>1, <1>2 DEF ConsumeBegin, DirectBegin, ConsumeChecked, ConsumeRefused, PolicyFails,
     ConsumeExpired, LifeKept, LifeOf
<1>3. CASE ConsumeClaim(c) \/ ConsumeRollsBack(c) \/ DirectClaim(c) \/ DirectRollsBack(c)
  <2>1. PICK p \in Plans : p = target[c]
    BY <1>3 DEF ConsumeClaim, ConsumeRollsBack, DirectClaim, DirectRollsBack
  <2>2. grants[p] = 0
    BY <1>3, <2>1 DEF ConsumeClaim, ConsumeRollsBack, DirectClaim, DirectRollsBack,
       ClaimState, GrantState
  <2>3. LifeKept
    BY <1>1, <1>3, <2>1, <2>2 DEF ConsumeClaim, ConsumeRollsBack, DirectClaim, DirectRollsBack,
       Unclaim, LifeKept, LifeOf
  <2> QED
    BY <2>3
<1>4. CASE ConsumeGrant(c) \/ DirectGrant(c)
  <2>1. PICK p \in Plans : p = target[c]
    BY <1>4 DEF ConsumeGrant, DirectGrant
  <2>2. grants[p] = 0 /\ p \in store /\ state[p] = "consumed"
    BY <1>4, <2>1 DEF ConsumeGrant, DirectGrant, ClaimState, NoDetachedCall
  <2>3. LifeMoves(p, "offered", "executing")
    BY <1>1, <1>4, <2>1, <2>2 DEF ConsumeGrant, DirectGrant, LifeMoves, LifeOf
  <2> QED
    BY <2>3
<1> QED
  BY <1>2, <1>3, <1>4 DEF ConsumeStep, DirectStep

(* A record and an uncertainty settle an execution, once.                  *)
LEMMA OutcomeLife ==
    ASSUME IInv, CInv, NEW c \in Clients, OutcomeStep(c)
    PROVE  LifeKept \/ \E p \in Plans, outcome \in {"partial", "uncertain", "resolved"} :
                           LifeMoves(p, "executing", outcome)
<1> USE StoreAssumption DEF IInv, CInv, TypeOK, CallsBound, KeysUnique, CreatePhases, 
   ReportPhases, GrantedPhases, Goto, Return, planVars, callVars
<1>1. \A p \in Plans : Creating(p)' <=> Creating(p)
  BY DEF OutcomeStep, RecordBegin, RecordStores, RecordFails, UncertainBegin, UncertainEnds,
     OutcomeUnknown, Creating
<1>2. CASE RecordBegin(c) \/ RecordFails(c) \/ UncertainEnds(c)
  BY <1>1, <1>2 DEF RecordBegin, RecordFails, UncertainEnds, LifeKept, LifeOf
<1>3. CASE \E status \in Reports : RecordStores(c, status)
  <2>. PICK status \in Reports : RecordStores(c, status)
    BY <1>3
  <2>1. PICK p \in Plans : p = target[c]
    BY <1>3 DEF RecordStores
  <2>2. grants[p] > 0 /\ p \in store /\ state[p] = "consumed"
    BY <1>3, <2>1 DEF RecordStores, GrantState, NoDetachedCall
  <2>3. PICK outcome \in {"partial", "resolved"} :
           outcome = IF status = "partial" THEN "partial" ELSE "resolved"
    OBVIOUS
  <2>4. LifeMoves(p, "executing", outcome)
    BY <1>1, <1>3, <2>1, <2>2, <2>3 DEF RecordStores, LifeMoves, LifeOf
  <2> QED
    BY <2>4
<1>4. CASE UncertainBegin(c)
  <2>1. PICK p \in Plans : p = target[c]
    BY <1>4 DEF UncertainBegin, OutcomeUnknown
  <2>2. grants[p] > 0 /\ p \in store /\ state[p] = "consumed"
    BY <1>4, <2>1 DEF UncertainBegin, OutcomeUnknown, Recordable, GrantState, NoDetachedCall
  <2>3. LifeMoves(p, "executing", "uncertain")
    BY <1>1, <1>4, <2>1, <2>2 DEF UncertainBegin, LifeMoves, LifeOf
  <2> QED
    BY <2>3
<1> QED
  BY <1>2, <1>3, <1>4 DEF OutcomeStep

(* Each of these is a step of the lifecycle, or none.                      *)
LEMMA LifecycleStep ==
    ASSUME IInv, CInv, IInv', [Next]_vars
    PROVE  [Lifecycle!Next]_life
<1>1. life = [p \in Plans |-> LifeOf(p)] /\ life' = [p \in Plans |-> LifeOf(p)']
  BY LifeValues DEF IInv
<1>2. CASE LifeKept
  BY <1>1, <1>2 DEF LifeKept
<1>3. ASSUME NEW stored \in {{}} \cup {{p} : p \in Plans}, CleanedUp(stored),
             \A p \in stored : LifeOf(p) = "new"
      PROVE  Lifecycle!OfferOrForget
  <2> DEFINE gone == {p \in store : Evictable(p)}
  <2>1. gone \in SUBSET Lifecycle!Forgettable
    BY <1>1, EvictedLife DEF Lifecycle!Forgettable, IInv, TypeOK
  <2>2. stored \in {{}} \cup {{p} : p \in Lifecycle!Offerable}
    BY <1>1, <1>3 DEF Lifecycle!Offerable
  <2>3. life' = [p \in Plans |-> IF p \in gone THEN "forgotten"
                                 ELSE IF p \in stored THEN "offered" ELSE life[p]]
    BY <1>1, <1>3 DEF CleanedUp
  <2> QED
    BY <2>1, <2>2, <2>3 DEF Lifecycle!OfferOrForget
<1>4. ASSUME NEW p \in Plans, NEW before, NEW after, LifeMoves(p, before, after)
      PROVE  Lifecycle!Becomes(p, before, after)
  BY <1>1, <1>4 DEF LifeMoves, Lifecycle!Becomes
<1>5. CASE Tick \/ RetentionStatus \/ UNCHANGED vars
  <2>1. CASE RetentionStatus
    <3>1. CleanedUp({})
      BY <2>1, EvictedLife DEF RetentionStatus, CleanedUp, LifeOf, KeptPlans, Creating, callVars
    <3> QED
      BY <1>3, <3>1 DEF Lifecycle!Next
  <2>2. CASE Tick \/ UNCHANGED vars
    BY <1>2, <2>2 DEF Tick, vars, planVars, callVars, LifeKept, LifeOf, Creating
  <2> QED
    BY <1>5, <2>1, <2>2
<1>6. ASSUME NEW c \in Clients, CreateStep(c) PROVE [Lifecycle!Next]_life
  BY <1>2, <1>3, <1>4, <1>6, CreateLife DEF Lifecycle!Next, Lifecycle!Refuse
<1>7. ASSUME NEW c \in Clients, ConfirmStep(c) PROVE [Lifecycle!Next]_life
  BY <1>2, <1>7, ConfirmLife
<1>8. ASSUME NEW c \in Clients, ConsumeStep(c) \/ DirectStep(c) PROVE [Lifecycle!Next]_life
  BY <1>2, <1>4, <1>8, ExecutionLife DEF Lifecycle!Next, Lifecycle!Execute
<1>9. ASSUME NEW c \in Clients, OutcomeStep(c) PROVE [Lifecycle!Next]_life
  BY <1>2, <1>4, <1>9, OutcomeLife DEF Lifecycle!Next, Lifecycle!Settle, Lifecycle!Unresolved
<1> QED
  BY <1>5, <1>6, <1>7, <1>8, <1>9, StepCases

(* The store implements the safety part of PlanLifecycle: a plan reaches   *)
(* the DAW at most once and only while it is offered, one outcome settles  *)
(* it, and cleanup forgets no execution that may need reconciliation.      *)
THEOREM LifecycleRefined == Spec => Lifecycle!Safety
<1>1. Init => Lifecycle!Init
  BY DEF Init, Lifecycle!Init, life
<1>2. IInv /\ CInv /\ IInv' /\ [Next]_vars => [Lifecycle!Next]_life
  BY LifecycleStep
<1> QED
  BY <1>1, <1>2, Invariance, CapacityInvariance, PTL DEF Spec, Lifecycle!Safety
=============================================================================

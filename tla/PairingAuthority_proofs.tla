---------------------- MODULE PairingAuthority_proofs ----------------------
(***************************************************************************)
(* Proofs about PairingAuthority for any number of callers and tokens and  *)
(* any capacity, quota and expiry.  Mutual exclusion is not a variable of  *)
(* the program: it is the promise chain of #recordOperations, so the       *)
(* inductive invariant says where a call stands in its token's queue.      *)
(***************************************************************************)
EXTENDS PairingAuthority, FiniteSetTheorems, TLAPS

OperationPhases == {"waiting"} \cup LockedPhases

(* An operation is queued on its token, and one that runs is the head.     *)
Queued(c) ==
    /\ pc[c] \in OperationPhases =>
          /\ token[c] \in Tokens
          /\ \E i \in 1 .. Len(queue[token[c]]) : queue[token[c]][i] = c
    /\ pc[c] \in LockedPhases => queue[token[c]][1] = c

QueueHeld == \A c \in Clients : Queued(c)

(* A token being issued is reserved, by one call, and has no record yet    *)
(* that its call could be mistaken about.                                  *)
IssueReserved ==
    /\ \A c \in Clients : pc[c] = "issueAudit" => token[c] \in pending
    /\ \A c, d \in Clients :
          pc[c] = "issueAudit" /\ pc[d] = "issueAudit" /\ token[c] = token[d] => c = d

(* A revocation is dated to the moment its call read the record.           *)
RevocationDated ==
    \A c \in Clients :
        /\ at[c] <= now
        /\ pc[c] = "revokeAudit" => token[c] \in issued

(* The sets whose sizes the capacity check reads are finite.               *)
SizesFinite == IsFiniteSet(KeptRecords) /\ IsFiniteSet(pending)

(* TypeOK but for the sizes and the quota, which the steps keep for other  *)
(* reasons.                                                                *)
Typed ==
    /\ now \in 0 .. MaxTime
    /\ records \subseteq issued /\ issued \subseteq Tokens
    /\ expiresAt \in [Tokens -> Nat]
    /\ usedRequests \in [Tokens -> Int]
    /\ revoked \subseteq issued /\ pending \subseteq issued
    /\ queue \in [Tokens -> Seq(Clients)]
    /\ pc \in [Clients -> Phases]
    /\ call \in [Clients -> Requests]
    /\ token \in [Clients -> Tokens \cup {NoToken}]
    /\ at \in [Clients -> Nat]
    /\ granted \in [Tokens -> Nat]

(* The operations between the claim of a request and its settlement.       *)
Claims(t) == {c \in Clients : pc[c] \in ClaimPhases /\ token[c] = t}

IInv ==
    /\ TypeOK /\ QueueHeld /\ IssueReserved /\ RevocationDated /\ SizesFinite
    /\ QuotaAccounted

-----------------------------------------------------------------------------
(* The steps of a call: issuing, running an operation on a token, ending   *)
(* one.                                                                    *)
IssueStep(c) ==
    \/ \E t \in Tokens : IssueBegin(c, t)
    \/ IssueRefused(c) \/ IssueFails(c) \/ IssueStores(c)

RunStep(c) ==
    \/ \E t \in Tokens, request \in Requests \ {"none"} : OperationBegin(c, t, request)
    \/ AuthorizeDenied(c) \/ AuthorizeClaims(c) \/ AuthorizeExpired(c) \/ RevokeBegin(c)

LeaveStep(c) ==
    \/ DeniedEnds(c) \/ AuthorizeReturns(c) \/ AuthorizeRollsBack(c)
    \/ RevokeUnknown(c) \/ RevokeFails(c) \/ RevokeStores(c)

(* Every step is the clock's, the readiness probe's, or one of a call. *)
LEMMA StepCases ==
    ASSUME [Next]_vars
    PROVE  \/ Tick \/ RetentionStatus \/ UNCHANGED vars
           \/ \E c \in Clients : IssueStep(c) \/ RunStep(c) \/ LeaveStep(c)
BY DEF Next, Begin, Continue, IssueStep, RunStep, LeaveStep

(* Typed says no more than TypeOK. *)
LEMMA TypeOKTyped == TypeOK => Typed
BY PairingAssumption DEF TypeOK, Typed

(* The call that runs on a token is the only one.                          *)
LEMMA RunsAlone ==
    ASSUME TypeOK, QueueHeld, NEW c \in Clients, NEW d \in Clients,
           pc[c] \in LockedPhases \/ HasLock(c), pc[d] \in LockedPhases, token[c] = token[d]
    PROVE  c = d
<1> USE DEF TypeOK, QueueHeld, Queued, OperationPhases
<1>1. token[c] \in Tokens /\ queue[token[c]] \in Seq(Clients)
  BY DEF HasLock
<1>2. queue[token[c]] # <<>>
  BY <1>1 DEF HasLock
<1>3. Head(queue[token[c]]) = queue[token[c]][1]
  BY <1>1, <1>2
<1> QED
  BY <1>1, <1>3 DEF HasLock

(* Leaving takes the head, so that every other operation stays queued.     *)
LEMMA QueueStep == IInv /\ [Next]_vars => QueueHeld'
<1> SUFFICES ASSUME IInv, [Next]_vars PROVE QueueHeld'
  OBVIOUS
<1> USE PairingAssumption DEF IInv, TypeOK, QueueHeld, OperationPhases, LockedPhases, ClaimPhases,
    Goto, Return, recordVars, callVars
<1>1. CASE Tick \/ RetentionStatus \/ UNCHANGED vars
  BY <1>1 DEF Tick, RetentionStatus, vars, Queued
<1>2. ASSUME NEW c \in Clients, IssueStep(c) PROVE QueueHeld'
  <2>1. /\ UNCHANGED queue /\ pc'[c] \notin OperationPhases
        /\ \A d \in Clients \ {c} : pc'[d] = pc[d] /\ token'[d] = token[d]
    BY <1>2 DEF IssueStep, IssueBegin, IssueRefused, IssueFails, IssueStores
  <2> QED
    BY <2>1 DEF Queued
<1>3. ASSUME NEW c \in Clients, RunStep(c) PROVE QueueHeld'
  <2>1. ASSUME NEW t \in Tokens, NEW request \in Requests, OperationBegin(c, t, request)
        PROVE  QueueHeld'
    <3> USE <2>1 DEF OperationBegin, JoinQueue
    <3>1. Queued(c)'
      <4>1. queue'[t] = Append(queue[t], c) /\ token'[c] = t /\ pc'[c] = "waiting"
        OBVIOUS
      <4>2. /\ Len(queue'[t]) = Len(queue[t]) + 1 /\ Len(queue[t]) \in Nat
            /\ queue'[t][Len(queue[t]) + 1] = c
        BY <4>1
      <4> QED
        BY <4>1, <4>2 DEF Queued
    <3>2. ASSUME NEW d \in Clients \ {c} PROVE Queued(d)'
      <4>1. pc'[d] = pc[d] /\ token'[d] = token[d]
        OBVIOUS
      <4>2. CASE pc[d] \in OperationPhases
        <5>1. PICK i \in 1 .. Len(queue[token[d]]) : queue[token[d]][i] = d
          BY <4>2 DEF Queued
        <5>2. token[d] \in Tokens /\ queue[token[d]] \in Seq(Clients)
          BY <4>2 DEF Queued
        <5>3. /\ queue'[token[d]] \in Seq(Clients)
              /\ Len(queue'[token[d]]) >= Len(queue[token[d]])
              /\ \A j \in 1 .. Len(queue[token[d]]) : queue'[token[d]][j] = queue[token[d]][j]
          BY <5>2
        <5> QED
          BY <4>1, <4>2, <5>1, <5>2, <5>3 DEF Queued
      <4> QED
        BY <4>1, <4>2 DEF Queued
    <3> QED
      BY <3>1, <3>2
  <2>2. ASSUME HasLock(c), UNCHANGED <<queue, token>>,
               Goto(c, "deniedAudit") \/ Goto(c, "allowedAudit") \/ Goto(c, "revokeAudit")
        PROVE  QueueHeld'
    <3>1. queue[token[c]] \in Seq(Clients) /\ queue[token[c]] # <<>>
      BY <2>2 DEF HasLock, Queued
    <3>2. queue[token[c]][1] = c
      BY <2>2, <3>1 DEF HasLock
    <3> QED
      BY <2>2, <3>2 DEF HasLock, Queued
  <2>3. CASE AuthorizeExpired(c)
    BY <2>3 DEF AuthorizeExpired, Queued
  <2> QED
    BY <1>3, <2>1, <2>2, <2>3 DEF RunStep, AuthorizeDenied, AuthorizeClaims, RevokeBegin
<1>4. ASSUME NEW c \in Clients, LeaveStep(c) PROVE QueueHeld'
  <2>1. (pc[c] \in LockedPhases \/ HasLock(c)) /\ Leave(c)
    BY <1>4 DEF LeaveStep, DeniedEnds, AuthorizeReturns, AuthorizeRollsBack, RevokeUnknown,
       RevokeFails, RevokeStores
  <2>2. /\ token[c] \in Tokens /\ queue[token[c]] \in Seq(Clients) /\ queue[token[c]] # <<>>
    BY <2>1 DEF HasLock, Queued
  <2>3. /\ queue[token[c]][1] = c
    BY <2>1, <2>2 DEF HasLock, Queued
  <2>4. ASSUME NEW d \in Clients, d # c PROVE Queued(d)'
    <3>1. pc'[d] = pc[d] /\ token'[d] = token[d]
      BY <2>1, <2>4 DEF Leave
    <3>2. CASE token[d] # token[c]
      BY <2>1, <2>4, <3>1, <3>2 DEF Leave, Queued
    <3>3. CASE token[d] = token[c] /\ pc[d] \in OperationPhases
      <4>1. pc[d] \notin LockedPhases
        BY <2>1, <2>4, <3>3, RunsAlone
      <4>2. PICK i \in 1 .. Len(queue[token[c]]) : queue[token[c]][i] = d
        BY <3>3 DEF Queued
      <4>3. /\ i - 1 \in 1 .. Len(Tail(queue[token[c]]))
            /\ Tail(queue[token[c]])[i - 1] = d
        BY <2>2, <2>3, <2>4, <4>2
      <4> QED
        BY <2>1, <2>2, <3>1, <3>3, <4>1, <4>3 DEF Leave, Queued
    <3> QED
      BY <3>1, <3>2, <3>3 DEF Queued
  <2>5. Queued(c)'
    BY <2>1 DEF Leave, Queued
  <2> QED
    BY <2>4, <2>5
<1> QED
  BY <1>1, <1>2, <1>3, <1>4, StepCases

(* Issuing reserves a token that nobody has, and gives the reservation up  *)
(* with the call; a revocation changes only the record that it read.       *)
LEMMA IssueReservedStep == IInv /\ [Next]_vars => IssueReserved' /\ RevocationDated'
<1> SUFFICES ASSUME Typed, IssueReserved, RevocationDated, [Next]_vars
             PROVE  IssueReserved' /\ RevocationDated'
  BY TypeOKTyped DEF IInv
<1> USE PairingAssumption DEF Typed, IssueReserved, RevocationDated, LockedPhases,
    ClaimPhases, Goto, Return, Leave, recordVars, callVars
<1>1. CASE Tick \/ RetentionStatus \/ UNCHANGED vars
  BY <1>1 DEF Tick, RetentionStatus, vars
<1>2. ASSUME NEW c \in Clients, IssueStep(c) PROVE IssueReserved' /\ RevocationDated'
  <2>1. CASE \E t \in Tokens : IssueBegin(c, t)
    BY <2>1 DEF IssueBegin
  <2>2. CASE IssueRefused(c)
    BY <2>2 DEF IssueRefused
  <2>3. CASE IssueFails(c)
    BY <2>3 DEF IssueFails
  <2>4. CASE IssueStores(c)
    BY <2>4 DEF IssueStores
  <2> QED
    BY <1>2, <2>1, <2>2, <2>3, <2>4 DEF IssueStep
<1>3. ASSUME NEW c \in Clients, RunStep(c) PROVE IssueReserved' /\ RevocationDated'
  <2>1. CASE \E t \in Tokens, request \in Requests \ {"none"} : OperationBegin(c, t, request)
    BY <2>1 DEF OperationBegin
  <2>2. CASE AuthorizeDenied(c)
    BY <2>2 DEF AuthorizeDenied, HasLock, KeptRecords
  <2>3. CASE AuthorizeClaims(c)
    BY <2>3 DEF AuthorizeClaims, HasLock, KeptRecords
  <2>4. CASE AuthorizeExpired(c)
    BY <2>4 DEF AuthorizeExpired, HasLock, KeptRecords
  <2>5. CASE RevokeBegin(c)
    BY <2>5 DEF RevokeBegin, HasLock, KeptRecords
  <2> QED
    BY <1>3, <2>1, <2>2, <2>3, <2>4, <2>5 DEF RunStep
<1>4. ASSUME NEW c \in Clients, LeaveStep(c) PROVE IssueReserved' /\ RevocationDated'
  <2>1. CASE DeniedEnds(c)
    BY <2>1 DEF DeniedEnds
  <2>2. CASE AuthorizeReturns(c)
    BY <2>2 DEF AuthorizeReturns
  <2>3. CASE AuthorizeRollsBack(c)
    BY <2>3 DEF AuthorizeRollsBack
  <2>4. CASE RevokeUnknown(c)
    BY <2>4 DEF RevokeUnknown, HasLock
  <2>5. CASE RevokeFails(c)
    BY <2>5 DEF RevokeFails
  <2>6. CASE RevokeStores(c)
    BY <2>6 DEF RevokeStores
  <2> QED
    BY <1>4, <2>1, <2>2, <2>3, <2>4, <2>5, <2>6 DEF LeaveStep
<1> QED
  BY <1>1, <1>2, <1>3, <1>4, StepCases

(* Every step keeps the types; only the queue of a call that leaves needs  *)
(* to know that it is not empty.                                           *)
LEMMA TypedStep == IInv /\ [Next]_vars => Typed'
<1> SUFFICES ASSUME IInv, Typed, [Next]_vars PROVE Typed'
  BY TypeOKTyped DEF IInv
<1> USE PairingAssumption DEF Typed, LockedPhases, ClaimPhases, Phases, Requests, Goto, Return,
    recordVars, callVars
<1>1. CASE Tick \/ RetentionStatus \/ UNCHANGED vars
  BY <1>1 DEF Tick, RetentionStatus, KeptRecords, vars
<1>2. ASSUME NEW c \in Clients, IssueStep(c) PROVE Typed'
  <2>1. CASE \E t \in Tokens : IssueBegin(c, t)
    BY <2>1 DEF IssueBegin, KeptRecords
  <2>2. CASE IssueRefused(c)
    BY <2>2 DEF IssueRefused, KeptRecords
  <2>3. CASE IssueFails(c)
    BY <2>3 DEF IssueFails, KeptRecords
  <2>4. CASE IssueStores(c)
    BY <2>4 DEF IssueStores, KeptRecords, IInv, IssueReserved
  <2> QED
    BY <1>2, <2>1, <2>2, <2>3, <2>4 DEF IssueStep
<1>3. ASSUME NEW c \in Clients, RunStep(c) PROVE Typed'
  <2>1. CASE \E t \in Tokens, request \in Requests \ {"none"} : OperationBegin(c, t, request)
    BY <2>1 DEF OperationBegin, JoinQueue
  <2>2. CASE AuthorizeDenied(c)
    BY <2>2 DEF AuthorizeDenied, HasLock, KeptRecords
  <2>3. CASE AuthorizeClaims(c)
    <3>1. token[c] \in Tokens
      BY <2>3 DEF AuthorizeClaims, HasLock, IInv, QueueHeld, Queued, OperationPhases
    <3> QED
      BY <2>3, <3>1 DEF AuthorizeClaims, KeptRecords
  <2>4. CASE AuthorizeExpired(c)
    BY <2>4 DEF AuthorizeExpired, HasLock, KeptRecords
  <2>5. CASE RevokeBegin(c)
    BY <2>5 DEF RevokeBegin, HasLock, KeptRecords
  <2> QED
    BY <1>3, <2>1, <2>2, <2>3, <2>4, <2>5 DEF RunStep
<1>4. ASSUME NEW c \in Clients, LeaveStep(c) PROVE Typed'
  <2>h. (pc[c] \in LockedPhases \/ HasLock(c)) /\ Leave(c)
    BY <1>4 DEF LeaveStep, DeniedEnds, AuthorizeReturns, AuthorizeRollsBack, RevokeUnknown,
       RevokeFails, RevokeStores
  <2>t. token[c] \in Tokens /\ queue[token[c]] \in Seq(Clients) /\ queue[token[c]] # <<>>
    BY <2>h DEF IInv, HasLock, QueueHeld, Queued, OperationPhases
  <2>q. (queue \in [Tokens -> Seq(Clients)])'
    BY <2>h, <2>t DEF Leave
  <2>1. CASE DeniedEnds(c)
    BY <2>1, <2>t, <2>q DEF DeniedEnds, Leave
  <2>2. CASE AuthorizeReturns(c)
    BY <2>2, <2>t, <2>q DEF AuthorizeReturns, Leave
  <2>3. CASE AuthorizeRollsBack(c)
    BY <2>3, <2>t, <2>q DEF AuthorizeRollsBack, Leave, Refund
  <2>4. CASE RevokeUnknown(c)
    BY <2>4, <2>t, <2>q DEF RevokeUnknown, Leave, KeptRecords
  <2>5. CASE RevokeFails(c)
    BY <2>5, <2>t, <2>q DEF RevokeFails, Leave
  <2>6. CASE RevokeStores(c)
    BY <2>6, <2>t, <2>q DEF RevokeStores, Leave, IInv, RevocationDated
  <2> QED
    BY <1>4, <2>1, <2>2, <2>3, <2>4, <2>5, <2>6 DEF LeaveStep
<1> QED
  BY <1>1, <1>2, <1>3, <1>4, StepCases

-----------------------------------------------------------------------------
(* The capacity of the registry.                                           *)

(* One element more makes a finite set larger by one at the most.          *)
LEMMA OneMore ==
    ASSUME NEW S, IsFiniteSet(S), NEW x
    PROVE  /\ IsFiniteSet(S \cup {x}) /\ Cardinality(S \cup {x}) \in Nat
           /\ Cardinality(S \cup {x}) <= Cardinality(S) + 1
<1>1. Cardinality(S) \in Nat
  BY FS_CardinalityType
<1>2. CASE x \in S
  <2>1. S \cup {x} = S
    BY <1>2
  <2>2. Cardinality(S \cup {x}) = Cardinality(S) /\ IsFiniteSet(S \cup {x})
    BY <2>1, Zenon
  <2> QED
    BY <1>1, <2>2
<1>3. CASE x \notin S
  BY <1>1, <1>3, FS_AddElement
<1> QED
  BY <1>2, <1>3

(* A slot is given away only while one is free, and taking one uses up the *)
(* reservation; with the entries kept in A and the reservations in R.      *)
LEMMA SlotArithmetic ==
    ASSUME NEW A, NEW R, NEW A1, NEW R1, NEW limit \in Nat, NEW x,
           IsFiniteSet(A), IsFiniteSet(R),
           Cardinality(A) + Cardinality(R) <= limit,
           \/ A1 \subseteq A /\ R1 \subseteq R
           \/ A1 \subseteq A /\ R1 = R \cup {x} /\ Cardinality(A) + Cardinality(R) < limit
           \/ A1 \subseteq A \cup {x} /\ x \in R /\ R1 = R \ {x}
    PROVE  /\ IsFiniteSet(A1) /\ IsFiniteSet(R1)
           /\ Cardinality(A1) + Cardinality(R1) <= limit
<1>1. Cardinality(A) \in Nat /\ Cardinality(R) \in Nat
  BY FS_CardinalityType
<1>2. ASSUME NEW B, NEW C, B \subseteq C, IsFiniteSet(C)
      PROVE  IsFiniteSet(B) /\ Cardinality(B) \in Nat /\ Cardinality(B) <= Cardinality(C)
  BY <1>2, FS_Subset, FS_CardinalityType
<1>3. CASE A1 \subseteq A /\ R1 \subseteq R
  BY <1>1, <1>2, <1>3
<1>4. CASE A1 \subseteq A /\ R1 = R \cup {x} /\ Cardinality(A) + Cardinality(R) < limit
  <2>1. IsFiniteSet(A1) /\ Cardinality(A1) \in Nat /\ Cardinality(A1) <= Cardinality(A)
    BY <1>2, <1>4
  <2>2. /\ IsFiniteSet(R1) /\ Cardinality(R1) \in Nat
        /\ Cardinality(R1) <= Cardinality(R) + 1
    BY <1>1, <1>4, FS_AddElement
  <2> QED
    BY <1>1, <1>4, <2>1, <2>2
<1>5. CASE A1 \subseteq A \cup {x} /\ x \in R /\ R1 = R \ {x}
  <2>1. /\ IsFiniteSet(A \cup {x}) /\ Cardinality(A \cup {x}) \in Nat
        /\ Cardinality(A \cup {x}) <= Cardinality(A) + 1
    BY OneMore
  <2>2. IsFiniteSet(A1) /\ Cardinality(A1) \in Nat /\ Cardinality(A1) <= Cardinality(A) + 1
    BY <1>1, <1>2, <1>5, <2>1
  <2>3. IsFiniteSet(R1) /\ Cardinality(R1) = Cardinality(R) - 1
    BY <1>5, FS_RemoveElement
  <2> QED
    BY <1>1, <2>2, <2>3
<1> QED
  BY <1>3, <1>4, <1>5

(* Only the two halves of issue use the registry's room: the clock and a   *)
(* revocation can but expire what it holds.                                *)
LEMMA CapacityStep ==
    IInv /\ [Next]_vars =>
        SizesFinite' /\ (Cardinality(KeptRecords) + Cardinality(pending) <= Capacity)'
<1> SUFFICES ASSUME IInv, Typed, [Next]_vars
             PROVE  /\ IsFiniteSet(KeptRecords') /\ IsFiniteSet(pending')
                    /\ Cardinality(KeptRecords') + Cardinality(pending') <= Capacity
  BY TypeOKTyped DEF IInv, SizesFinite
<1> DEFINE Same == KeptRecords' \subseteq KeptRecords /\ pending' \subseteq pending
           Reserved(t) == /\ KeptRecords' \subseteq KeptRecords
                          /\ pending' = pending \cup {t}
                          /\ Cardinality(KeptRecords) + Cardinality(pending) < Capacity
           Taken(t) == /\ KeptRecords' \subseteq KeptRecords \cup {t}
                       /\ t \in pending /\ pending' = pending \ {t}
<1>1. Same \/ \E t \in Tokens : Reserved(t) \/ Taken(t)
  <2> USE PairingAssumption DEF Typed, LockedPhases, ClaimPhases, Goto, Return, Leave,
      KeptRecords, recordVars, callVars
  <2>1. CASE Tick \/ RetentionStatus \/ UNCHANGED vars
    BY <2>1 DEF Tick, RetentionStatus, vars
  <2>2. ASSUME NEW c \in Clients, IssueStep(c)
        PROVE  Same \/ \E t \in Tokens : Reserved(t) \/ Taken(t)
    <3>1. CASE \E t \in Tokens : IssueBegin(c, t)
      BY <3>1 DEF IssueBegin, SlotFree
    <3>2. CASE IssueRefused(c) \/ IssueFails(c)
      BY <3>2 DEF IssueRefused, IssueFails
    <3>3. CASE IssueStores(c)
      BY <3>3 DEF IssueStores, IInv, IssueReserved
    <3> QED
      BY <2>2, <3>1, <3>2, <3>3 DEF IssueStep
  <2>3. ASSUME NEW c \in Clients, RunStep(c) PROVE Same
    BY <2>3 DEF RunStep, OperationBegin, AuthorizeDenied, AuthorizeClaims, AuthorizeExpired,
       RevokeBegin
  <2>4. ASSUME NEW c \in Clients, LeaveStep(c) PROVE Same
    <3>1. CASE RevokeStores(c)
      BY <3>1 DEF RevokeStores, IInv, RevocationDated
    <3>2. CASE ~RevokeStores(c)
      BY <2>4, <3>2 DEF LeaveStep, DeniedEnds, AuthorizeReturns, AuthorizeRollsBack, RevokeUnknown,
         RevokeFails
    <3> QED
      BY <3>1, <3>2
  <2> QED
    BY <2>1, <2>2, <2>3, <2>4, StepCases
<1>2. /\ IsFiniteSet(KeptRecords) /\ IsFiniteSet(pending)
      /\ Cardinality(KeptRecords) + Cardinality(pending) <= Capacity
  BY DEF IInv, SizesFinite, TypeOK
<1> QED
  BY <1>1, <1>2, SlotArithmetic, PairingAssumption

-----------------------------------------------------------------------------
(* The quota.                                                              *)

(* One claim at a time is in progress on a token.                          *)
LEMMA ClaimAlone ==
    ASSUME Typed, QueueHeld, TypeOK, NEW c \in Clients, token[c] \in Tokens,
           pc[c] \in LockedPhases \/ HasLock(c)
    PROVE  Claims(token[c]) = IF pc[c] \in ClaimPhases THEN {c} ELSE {}
BY RunsAlone DEF Claims, LockedPhases, HasLock

(* A claim in progress counts as one request; there is none otherwise.     *)
LEMMA ClaimSizes ==
    ASSUME NEW c PROVE Cardinality({c}) = 1 /\ Cardinality({}) = 0
BY FS_Singleton, FS_EmptySet

(* The claim is counted with the request, and both go back together.       *)
LEMMA QuotaStep ==
    IInv /\ [Next]_vars => (usedRequests \in [Tokens -> 0 .. MaxRequests])' /\ QuotaAccounted'
<1> SUFFICES ASSUME IInv, Typed, Typed', QueueHeld', [Next]_vars
             PROVE  (usedRequests \in [Tokens -> 0 .. MaxRequests])' /\ QuotaAccounted'
  BY TypeOKTyped, TypedStep, QueueStep DEF IInv
<1>1. \A t \in Tokens : usedRequests[t] = granted[t] + Cardinality(Claims(t))
  BY DEF IInv, QuotaAccounted, Claims
<1>2. \A c, d \in Clients :
          (pc[c] \in LockedPhases /\ pc[d] \in LockedPhases /\ token[c] = token[d])' => c = d
  <2>1. \A c \in Clients : (pc[c] \in LockedPhases)' => (queue[token[c]][1] = c)'
    BY DEF QueueHeld, Queued
  <2> QED
    BY <2>1
<1>3. QuotaAccounted' <=> \A t \in Tokens : usedRequests'[t] = granted'[t] + Cardinality(Claims(t)')
  BY <1>2 DEF QuotaAccounted, Claims
<1> DEFINE Steady == /\ UNCHANGED <<usedRequests, granted>>
                     /\ \A t \in Tokens : Claims(t)' = Claims(t)
<1>4. ASSUME Steady
      PROVE  (usedRequests \in [Tokens -> 0 .. MaxRequests])' /\ QuotaAccounted'
  <2>1. usedRequests \in [Tokens -> 0 .. MaxRequests]
    BY DEF IInv, TypeOK
  <2> QED
    BY <1>1, <1>3, <1>4, <2>1
<1>5. ASSUME NEW c \in Clients, HasLock(c) \/ pc[c] \in ClaimPhases
      PROVE  /\ token[c] \in Tokens
             /\ Claims(token[c]) = IF pc[c] \in ClaimPhases THEN {c} ELSE {}
             /\ usedRequests[token[c]] \in 0 .. MaxRequests
             /\ granted[token[c]] \in Nat
  <2>1. token[c] \in Tokens
    BY <1>5 DEF IInv, QueueHeld, Queued, HasLock, OperationPhases, LockedPhases
  <2>2. Claims(token[c]) = IF pc[c] \in ClaimPhases THEN {c} ELSE {}
    BY <1>5, <2>1, ClaimAlone DEF IInv, LockedPhases
  <2> QED
    BY <2>1, <2>2 DEF IInv, TypeOK
<1>6. ASSUME NEW c \in Clients, AuthorizeClaims(c)
      PROVE  (usedRequests \in [Tokens -> 0 .. MaxRequests])' /\ QuotaAccounted'
  <2>. PICK t \in Tokens : t = token[c]
    BY <1>5, <1>6 DEF AuthorizeClaims
  <2>1. t \in Tokens /\ Claims(t) = {} /\ usedRequests[t] \in 0 .. MaxRequests
    BY <1>5, <1>6 DEF AuthorizeClaims, HasLock, ClaimPhases
  <2>2. Claims(t)' = {c} /\ \A u \in Tokens \ {t} : Claims(u)' = Claims(u)
    BY <1>6, <2>1 DEF AuthorizeClaims, HasLock, ClaimPhases, Goto, Typed, Phases, Claims
  <2>3. /\ Cardinality(Claims(t)) = 0 /\ Cardinality(Claims(t)') = 1
        /\ \A u \in Tokens \ {t} : Cardinality(Claims(u)') = Cardinality(Claims(u))
    BY <2>1, <2>2, ClaimSizes, Zenon
  <2>4. /\ usedRequests' = [usedRequests EXCEPT ![t] = @ + 1] /\ granted' = granted
        /\ usedRequests[t] < MaxRequests
    BY <1>6 DEF AuthorizeClaims, Usable
  <2>5. usedRequests \in [Tokens -> 0 .. MaxRequests] /\ granted \in [Tokens -> Nat]
    BY DEF IInv, TypeOK
  <2>6. (usedRequests \in [Tokens -> 0 .. MaxRequests])'
    BY <1>1, <2>1, <2>4, <2>3, <2>5, PairingAssumption
  <2>7. \A u \in Tokens : usedRequests'[u] = granted'[u] + Cardinality(Claims(u)')
    BY <1>1, <2>1, <2>4, <2>3, <2>5
  <2> QED
    BY <1>3, <2>6, <2>7
<1>7. ASSUME NEW c \in Clients, AuthorizeReturns(c) \/ AuthorizeRollsBack(c)
      PROVE  (usedRequests \in [Tokens -> 0 .. MaxRequests])' /\ QuotaAccounted'
  <2>. PICK t \in Tokens : t = token[c]
    BY <1>5, <1>7 DEF AuthorizeReturns, AuthorizeRollsBack, ClaimPhases
  <2>1. /\ t \in Tokens /\ Claims(t) = {c} /\ usedRequests[t] \in 0 .. MaxRequests
        /\ granted[t] \in Nat
    BY <1>5, <1>7 DEF AuthorizeReturns, AuthorizeRollsBack, ClaimPhases
  <2>2. /\ pc' = [pc EXCEPT ![c] = "idle"] /\ token' = [token EXCEPT ![c] = NoToken]
    BY <1>7 DEF AuthorizeReturns, AuthorizeRollsBack, Leave, Return, Goto
  <2>3. Claims(t)' = {} /\ \A u \in Tokens \ {t} : Claims(u)' = Claims(u)
    BY <2>1, <2>2 DEF ClaimPhases, Claims, Typed
  <2>4. /\ Cardinality(Claims(t)) = 1 /\ Cardinality(Claims(t)') = 0
        /\ \A u \in Tokens \ {t} : Cardinality(Claims(u)') = Cardinality(Claims(u))
    BY <2>1, <2>3, ClaimSizes, Zenon
  <2>5. \/ usedRequests' = usedRequests /\ granted' = [granted EXCEPT ![t] = @ + 1]
        \/ usedRequests' = [usedRequests EXCEPT ![t] = @ - 1] /\ granted' = granted
    BY <1>7 DEF AuthorizeReturns, AuthorizeRollsBack, Refund, recordVars
  <2>6. usedRequests \in [Tokens -> 0 .. MaxRequests] /\ granted \in [Tokens -> Nat]
    BY DEF IInv, TypeOK
  <2>7. usedRequests[t] = granted[t] + 1
    BY <1>1, <2>1, <2>4
  <2>8. (usedRequests \in [Tokens -> 0 .. MaxRequests])'
    BY <2>1, <2>5, <2>7, <2>6, PairingAssumption
  <2>9. \A u \in Tokens : usedRequests'[u] = granted'[u] + Cardinality(Claims(u)')
    <3>1. usedRequests'[t] = granted'[t] /\ granted'[t] \in Nat
      BY <2>1, <2>5, <2>7, <2>6
    <3>2. \A u \in Tokens \ {t} : usedRequests'[u] = usedRequests[u] /\ granted'[u] = granted[u]
      BY <2>5, <2>6
    <3> QED
      BY <1>1, <2>1, <2>4, <2>6, <3>1, <3>2
  <2> QED
    BY <1>3, <2>8, <2>9
<1> USE DEF Claims, Typed, ClaimPhases, LockedPhases, Goto, Return, Leave, recordVars, callVars
<1>8. CASE Tick \/ RetentionStatus \/ UNCHANGED vars
  <2>1. Steady
    BY <1>8 DEF Tick, RetentionStatus, vars
  <2> QED
    BY <1>4, <2>1
<1>9. ASSUME NEW c \in Clients, IssueStep(c)
      PROVE  (usedRequests \in [Tokens -> 0 .. MaxRequests])' /\ QuotaAccounted'
  <2>1. Steady
    BY <1>9 DEF IssueStep, IssueBegin, IssueRefused, IssueFails, IssueStores
  <2> QED
    BY <1>4, <2>1
<1>10. ASSUME NEW c \in Clients, RunStep(c), ~AuthorizeClaims(c)
      PROVE  (usedRequests \in [Tokens -> 0 .. MaxRequests])' /\ QuotaAccounted'
  <2>1. Steady
    BY <1>10 DEF RunStep, OperationBegin, AuthorizeDenied, AuthorizeExpired, RevokeBegin, HasLock
  <2> QED
    BY <1>4, <2>1
<1>11. ASSUME NEW c \in Clients, LeaveStep(c), ~AuthorizeReturns(c), ~AuthorizeRollsBack(c)
      PROVE  (usedRequests \in [Tokens -> 0 .. MaxRequests])' /\ QuotaAccounted'
  <2>1. Steady
    BY <1>11 DEF LeaveStep, DeniedEnds, RevokeUnknown, RevokeFails, RevokeStores, HasLock
  <2> QED
    BY <1>4, <2>1
<1> QED
  BY <1>6, <1>7, <1>8, <1>9, <1>10, <1>11, StepCases

-----------------------------------------------------------------------------
(* Nothing is issued and nobody calls in the initial state. *)
LEMMA InitInv == Init => IInv
<1> SUFFICES ASSUME Init PROVE IInv
  OBVIOUS
<1>1. KeptRecords = {} /\ \A t \in Tokens : {c \in Clients : pc[c] \in ClaimPhases /\ token[c] = t} = {}
  BY DEF Init, KeptRecords, ClaimPhases
<1>2. SizesFinite /\ QuotaAccounted
  BY <1>1, FS_EmptySet DEF Init, SizesFinite, QuotaAccounted, LockedPhases, ClaimPhases
<1>3. TypeOK
  BY <1>1, FS_EmptySet, PairingAssumption DEF Init, TypeOK, Phases, Requests
<1>4. QueueHeld /\ IssueReserved /\ RevocationDated
  BY DEF Init, QueueHeld, Queued, OperationPhases, LockedPhases, ClaimPhases, IssueReserved,
     RevocationDated
<1> QED
  BY <1>2, <1>3, <1>4 DEF IInv

(* The conjuncts hold together, so that each step lemma may use them all.  *)
LEMMA StepInv == IInv /\ [Next]_vars => IInv'
<1> SUFFICES ASSUME IInv, [Next]_vars PROVE IInv'
  OBVIOUS
<1>1. TypeOK'
  BY TypedStep, CapacityStep, QuotaStep DEF Typed, TypeOK
<1> QED
  BY <1>1, QueueStep, IssueReservedStep, CapacityStep, QuotaStep DEF IInv

(* The inductive invariant holds in every reachable state. *)
THEOREM Invariance == Spec => []IInv
BY InitInv, StepInv, PTL DEF Spec

(* The types of the authority's state; with them, the registry and the     *)
(* tokens being issued never exceed the capacity, and no record counts     *)
(* more requests than its quota.                                           *)
THEOREM TypeCorrect == Spec => []TypeOK
<1>1. IInv => TypeOK
  BY DEF IInv
<1> QED
  BY <1>1, Invariance, PTL

(* A token's count is the authorizations returned and the one in progress, *)
(* and one operation at a time runs on it (#withRecordLock).               *)
THEOREM QuotaExact == Spec => []QuotaAccounted
<1>1. IInv => QuotaAccounted
  BY DEF IInv
<1> QED
  BY <1>1, Invariance, PTL
=============================================================================

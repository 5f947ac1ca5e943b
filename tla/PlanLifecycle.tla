--------------------------- MODULE PlanLifecycle ---------------------------
(***************************************************************************)
(* What the gateway promises of a plan, seen from outside: it is offered   *)
(* for a while, it reaches the DAW at most once, an execution that started *)
(* ends with an outcome that nobody revises, and the record is forgotten   *)
(* only if the plan never ran or its outcome needs no reconciliation       *)
(* (docs/ADR-003-PROCESS-LIFETIME-RETENTION.md).                           *)
(***************************************************************************)
CONSTANT Plans

VARIABLE life

Lives == {"new", "offered", "executing", "resolved", "partial", "uncertain", "forgotten"}

(* Outcomes that stay pinned until the operator reconciles the DAW. *)
Unresolved == {"partial", "uncertain"}

Init == life = [p \in Plans |-> "new"]

Becomes(p, before, after) ==
    /\ life[p] = before
    /\ life' = [life EXCEPT ![p] = after]

Refuse(p) == Becomes(p, "new", "forgotten")
Execute(p) == Becomes(p, "offered", "executing")
Settle(p) == \E outcome \in Unresolved \cup {"resolved"} : Becomes(p, "executing", outcome)

(* Lazy cleanup forgets some plans that need no reconciliation, and makes  *)
(* room for the plan that is offered in the same step, if there is one.    *)
Forgettable == {p \in Plans : life[p] \in {"offered", "resolved"}}
Offerable == {p \in Plans : life[p] = "new"}

OfferOrForget ==
    \E gone \in SUBSET Forgettable, come \in {{}} \cup {{p} : p \in Offerable} :
        life' = [p \in Plans |-> IF p \in gone THEN "forgotten"
                                 ELSE IF p \in come THEN "offered" ELSE life[p]]

Next ==
    \/ \E p \in Plans : Refuse(p) \/ Execute(p) \/ Settle(p)
    \/ OfferOrForget

Safety == Init /\ [][Next]_life

(* An execution settles: its outcome is reported, or given up as unknown. *)
Spec == Safety /\ \A p \in Plans : WF_life(Settle(p))
=============================================================================

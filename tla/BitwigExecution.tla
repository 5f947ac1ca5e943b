-------------------------- MODULE BitwigExecution ---------------------------
(***************************************************************************)
(* A confirmed plan is written into Bitwig Studio: the Bitwig adapter      *)
(* makes its calls one after another over the local relay; the controller  *)
(* handles them in order; Bitwig carries them out later. Meanwhile the     *)
(* player selects and edits, other tools use the same controller, a call   *)
(* times out, the connection breaks, the controller is reloaded.           *)
(*                                                                         *)
(* Every plan creates a clip in one slot and writes one note, its own. The *)
(* call that authenticates is part of the inspection behind it.            *)
(***************************************************************************)
EXTENDS BitwigController

CONSTANTS Plans,
          Attempts,   \* clipReadyAttempts and BITWIG_READBACK_ATTEMPTS
          MaxEvents   \* bound: what the player, the other tools, the timers
                      \* and the connection do, all together

(* What an inspection tells. *)
Bindings == [instance : Nat, generation : Nat, slot : Slots \cup {None}]
Views ==
    [binding : Bindings, hasContent : BOOLEAN, clipExists : BOOLEAN,
     notes : SUBSET (Plans \cup {None})]

(* None is none of the values that it stands in for. *)
ASSUME ExecutionAssumption ==
    /\ Slots # {}
    /\ None \notin Slots \cup Plans \cup Views
    /\ \A notes \in SUBSET (Plans \cup {None}) : None # notes
    /\ \A s \in Slots \cup {None} : None # <<s>>
    /\ Attempts \in Nat \ {0}
    /\ MaxEvents \in Nat

VARIABLES
    clips,   \* Bitwig: the notes of each slot's clip, None when it is empty
    host,    \* Bitwig: commands that were accepted and not carried out yet
    ctl,     \* the controller
    link,    \* the controller is connected to the relay
    wire,    \* requests on their way to the controller, in order
    exec,    \* the adapter's execution of each plan
    events   \* how many events there were

vars == <<clips, host, ctl, link, wire, exec, events>>

Requests == <<"clip", "note">>
Ended == {"succeeded", "failed", "partial"}

(* step: the next request; tries: polls left; call: the number of the      *)
(* outstanding call, reply what came back. moved, wrote: what happened,    *)
(* for the properties.                                                     *)
NewExecution ==
    [pc |-> "idle", base |-> None, step |-> 1, tries |-> 0, call |-> 0, waiting |-> FALSE,
     reply |-> None, moved |-> FALSE, wrote |-> << >>]

(* Which slot is selected first is immaterial; the others may hold a clip  *)
(* that looks like the one the plan will make.                             *)
Init ==
    /\ LET s == CHOOSE s \in Slots : TRUE
       IN  /\ ctl = NewController(0, {s}, s)
           /\ clips \in [Slots -> {None, Plans}] /\ clips[s] = None
    /\ host = << >>
    /\ link = TRUE /\ wire = << >>
    /\ exec = [p \in Plans |-> NewExecution]
    /\ events = 0

(* Something happens to the execution from outside. *)
Event == events < MaxEvents /\ events' = events + 1

Failure == [ok |-> FALSE, view |-> None]
Done(view) == [ok |-> TRUE, view |-> view]

Slot(p) == exec[p].base.binding.slot

-----------------------------------------------------------------------------
(* A call: through the protocol client and the relay to the controller.    *)

Call(x) ==
    [x EXCEPT !.call = @ + 1, !.waiting = TRUE, !.reply = IF link THEN None ELSE Failure]

Requested(p, operation) ==
    wire' = IF link THEN Append(wire, [plan |-> p, call |-> exec[p].call + 1, op |-> operation])
            ELSE wire

Inspect(x, p, pc) ==
    /\ exec' = [exec EXCEPT ![p] = [Call(x) EXCEPT !.pc = pc]]
    /\ Requested(p, "inspect")

(* The next write of the plan, or the readback when there is none left.    *)
Proceed(x, p) ==
    IF x.step > Len(Requests) THEN Inspect([x EXCEPT !.tries = Attempts], p, "reading")
    ELSE /\ exec' = [exec EXCEPT ![p] = [Call(x) EXCEPT !.pc = "writing"]]
         /\ Requested(p, Requests[x.step])

(* Mutant: the call stays registered when its execution is over. *)
ReportPending(p, pc) ==
    /\ exec' = [exec EXCEPT ![p].pc = pc, ![p].reply = None]
    /\ UNCHANGED wire

Report(p, pc) ==
    /\ exec' = [exec EXCEPT ![p].pc = pc, ![p].waiting = FALSE, ![p].reply = None]
    /\ UNCHANGED wire

-----------------------------------------------------------------------------
(* The controller handles a request; a call that is not waited for any     *)
(* more has its reply dropped.                                             *)

Answered(request, c, reply) ==
    LET p == request.plan
        awaited == exec[p].waiting /\ exec[p].call = request.call /\ exec[p].reply = None
    IN  IF awaited THEN [exec EXCEPT ![p].reply = reply] ELSE exec

Wrote(x, p, slot) ==
    [x EXCEPT ![p].wrote = Append(@, [slot |-> slot, moved |-> exec[p].moved])]

HandleInspect(request) ==
    /\ request.op = "inspect"
    /\ UNCHANGED host
    /\ IF Settled(ctl)
       THEN /\ ctl' = Refreshed(ctl)
            /\ exec' = Answered(request, ctl', Done(Inspection(ctl', clips)))
       ELSE ctl' = ctl /\ exec' = Answered(request, ctl, Failure)

(* target.create_clip, which wants an empty slot; target.set_note, which   *)
(* writes through the cursor.                                              *)
Refused(c, request) ==
    LET binding == exec[request.plan].base.binding
    IN  \/ ~Current(c, binding)
        \/ request.op = "clip" /\ clips[Target(c)] # None
        \/ request.op = "note" /\ ~Writable(c, clips)

HandleWrite(request) ==
    LET p == request.plan
        c == IF Settled(ctl) THEN Refreshed(ctl) ELSE ctl
        slot == IF request.op = "note" THEN c.cursor ELSE Target(c)
        command == [op |-> request.op, slot |-> slot, plan |-> p]
    IN  /\ request.op # "inspect"
        /\ ctl' = c
        /\ IF Refused(c, request)
           THEN UNCHANGED host /\ exec' = Answered(request, c, Failure)
           ELSE /\ host' = Append(host, command)
                /\ exec' = Wrote(Answered(request, c, Done(None)), p, slot)

HandleRequest ==
    /\ wire # << >> /\ wire' = Tail(wire)
    /\ HandleInspect(Head(wire)) \/ HandleWrite(Head(wire))
    /\ UNCHANGED <<clips, link, events>>

-----------------------------------------------------------------------------
(* The adapter.                                                            *)

(* The plan is made for an inspection, whose revision it will expect.      *)
Plan(p) ==
    /\ exec[p].pc = "idle" /\ link /\ Settled(ctl)
    /\ ctl' = Refreshed(ctl)
    /\ exec' = [exec EXCEPT ![p] = [NewExecution EXCEPT !.pc = "planned",
                                                       !.base = Inspection(ctl', clips)]]
    /\ UNCHANGED <<clips, host, link, wire, events>>

Execute(p) ==
    /\ exec[p].pc = "planned"
    /\ Inspect(exec[p], p, "observing")
    /\ UNCHANGED <<clips, host, ctl, link, events>>

(* #preflight and validateBoundedPatch *)
Acceptable(x, reply) ==
    /\ reply.ok /\ reply.view = x.base
    /\ reply.view.binding.slot # None
    /\ ~reply.view.hasContent /\ ~reply.view.clipExists /\ reply.view.notes = {}

Retry(x, p) ==
    IF x.tries > 1 THEN Inspect([x EXCEPT !.tries = @ - 1], p, x.pc) ELSE Report(p, "partial")

Advance(x, p) == Proceed([x EXCEPT !.step = @ + 1], p)

(* What #executeOnce does with the outcome of its call.                    *)
Observing(x, p, reply) ==
    IF Acceptable(x, reply) THEN Inspect(x, p, "verifying") ELSE Report(p, "failed")

Verifying(x, p, reply) ==
    IF reply.ok /\ reply.view = x.base THEN Proceed(x, p) ELSE Report(p, "failed")

Writing(x, p, reply) ==
    IF ~reply.ok THEN Report(p, "partial")
    ELSE IF Requests[x.step] = "clip"
    THEN Inspect([x EXCEPT !.tries = Attempts], p, "awaiting")
    ELSE Advance(x, p)

(* #awaitCreatedClip *)
Awaiting(x, p, reply) ==
    IF ~reply.ok THEN Retry(x, p)
    ELSE IF reply.view.binding # x.base.binding THEN Report(p, "partial")
    ELSE IF reply.view.hasContent /\ reply.view.clipExists THEN Advance(x, p)
    ELSE Retry(x, p)

(* #awaitExpectedReadback *)
Reading(x, p, reply) ==
    IF ~reply.ok THEN Retry(x, p)
    ELSE IF reply.view.binding # x.base.binding THEN Report(p, "partial")
    ELSE IF reply.view.notes = {p} THEN Report(p, "succeeded")
    ELSE Retry(x, p)

Continue(p, reply) ==
    LET x == [exec[p] EXCEPT !.waiting = FALSE, !.reply = None]
    IN  \/ x.pc = "observing" /\ Observing(x, p, reply)
        \/ x.pc = "verifying" /\ Verifying(x, p, reply)
        \/ x.pc = "writing" /\ Writing(x, p, reply)
        \/ x.pc = "awaiting" /\ Awaiting(x, p, reply)
        \/ x.pc = "reading" /\ Reading(x, p, reply)

ReplyArrives(p) ==
    /\ exec[p].waiting /\ exec[p].reply # None
    /\ Continue(p, exec[p].reply)
    /\ UNCHANGED <<clips, host, ctl, link, events>>

(* The client's timer, or the relay's: the request may still be handled.   *)
TimesOut(p) ==
    /\ exec[p].waiting /\ Event
    /\ Continue(p, Failure)
    /\ UNCHANGED <<clips, host, ctl, link>>

-----------------------------------------------------------------------------
(* The connection.                                                         *)

(* Mutant: a connection that closes leaves its calls pending. *)
LeftPending == exec

(* rejectPending *)
Unanswered ==
    [p \in Plans |-> IF exec[p].waiting THEN [exec[p] EXCEPT !.reply = Failure] ELSE exec[p]]

Broken ==
    /\ link /\ Event
    /\ link' = FALSE

(* The relay fails the calls; what has reached the controller is handled.  *)
Disconnect ==
    /\ Broken /\ exec' = Unanswered
    /\ wire' \in {wire, << >>}
    /\ UNCHANGED <<clips, host, ctl>>

(* exit and init: the instance is a new one.                               *)
Reload ==
    /\ Broken /\ wire' = << >>
    /\ ctl' = NewController(ctl.instance + 1, ctl.picked, ctl.cursor)
    /\ exec' = [p \in Plans |-> [Unanswered[p] EXCEPT !.moved = TRUE]]
    /\ UNCHANGED <<clips, host>>

(* connectLocalBridge, every two seconds once the old connection is gone.  *)
Connect == ~link /\ wire = << >> /\ link' = TRUE /\ UNCHANGED <<clips, host, ctl, wire, exec, events>>

-----------------------------------------------------------------------------
(* Bitwig, its player and the other tools of the same controller.          *)

Moved == [p \in Plans |-> [exec[p] EXCEPT !.moved = TRUE]]

(* A callback of the selection or of the cursor.                           *)
Callback(c) ==
    /\ Event
    /\ ctl' = Refreshed(c)
    /\ exec' = IF Target(c) = Target(ctl) THEN exec ELSE Moved
    /\ UNCHANGED <<clips, host, link, wire>>

SlotSelected(s) ==
    Callback([ctl EXCEPT !.picked = IF s \in @ THEN @ \ {s} ELSE @ \cup {s}])

CursorMoves(s) == s # ctl.cursor /\ Callback([ctl EXCEPT !.cursor = s])

(* The player makes a clip, deletes one or draws a note, which is None.    *)
PlayerEdits(s) ==
    /\ Event
    /\ \E clip \in IF clips[s] = None THEN {{}} ELSE {None, clips[s] \cup {None}} :
           clips' = [clips EXCEPT ![s] = clip]
    /\ UNCHANGED <<host, ctl, link, wire, exec>>

(* track.bank.scroll_*: the bank will show other tracks.                   *)
Navigate ==
    /\ Event /\ link /\ Settled(ctl)
    /\ ctl' = Barred(ctl, None, FALSE) /\ exec' = Moved
    /\ UNCHANGED <<clips, host, link, wire>>

(* A construction command, here clip.delete; the host may throw.           *)
Construct(s) ==
    /\ Event /\ link /\ Settled(ctl) /\ clips[s] # None
    /\ exec' = Moved
    /\ \/ ctl' = Barred(ctl, s, FALSE)
          /\ host' = Append(host, [op |-> "delete", slot |-> s, plan |-> None])
       \/ ctl' = Barred(ctl, s, TRUE) /\ UNCHANGED host
    /\ UNCHANGED <<clips, link, wire>>

(* dispatchGlobalUi, here a delete of whatever has the focus.              *)
GlobalUi ==
    /\ Event /\ link /\ Settled(ctl)
    /\ ctl' = UiDispatched(ctl) /\ exec' = Moved
    /\ \/ UNCHANGED host
       \/ \E s \in Slots : host' = Append(host, [op |-> "delete", slot |-> s, plan |-> None])
    /\ UNCHANGED <<clips, link, wire>>

Bitwig ==
    LET command == Head(host)
        s == command.slot
    IN  /\ host # << >> /\ host' = Tail(host)
        /\ clips' = [clips EXCEPT ![s] =
               CASE command.op = "clip" -> IF @ = None THEN {} ELSE @
                 [] command.op = "note" -> IF @ = None THEN None ELSE @ \cup {command.plan}
                 [] command.op = "delete" -> None]
        /\ UNCHANGED <<ctl, link, wire, exec, events>>

(* The observer of what a barrier waits for.                               *)
BarrierNotices ==
    /\ ctl.barrier # None /\ ctl.barrier.observed # Matches(ctl, clips)
    /\ ctl' = Noticed(ctl, clips)
    /\ UNCHANGED <<clips, host, link, wire, exec, events>>

Flush ==
    /\ ctl' = Flushed(ctl, clips)
    /\ UNCHANGED <<clips, host, link, wire, exec, events>>

-----------------------------------------------------------------------------
Next ==
    \/ \E p \in Plans : Plan(p) \/ Execute(p) \/ ReplyArrives(p) \/ TimesOut(p)
    \/ HandleRequest
    \/ Disconnect \/ Reload \/ Connect
    \/ \E s \in Slots : SlotSelected(s) \/ CursorMoves(s) \/ PlayerEdits(s) \/ Construct(s)
    \/ Navigate \/ GlobalUi
    \/ Bitwig \/ BarrierNotices \/ Flush

Spec == Init /\ [][Next]_vars

(* The controller and Bitwig work, replies arrive, and the controller      *)
(* connects again. Nobody has to plan, to select or to break anything.     *)
FairSpec ==
    /\ Spec
    /\ WF_vars(HandleRequest) /\ WF_vars(Connect)
    /\ WF_vars(Bitwig) /\ WF_vars(BarrierNotices) /\ WF_vars(Flush)
    /\ \A p \in Plans : WF_vars(ReplyArrives(p))

-----------------------------------------------------------------------------
(* Properties.                                                             *)

Running(p) == exec[p].pc \notin {"idle", "planned"} \cup Ended

(* Every running execution has one call outstanding; what is on the wire   *)
(* was asked for; a binding is never of a later generation.                *)
TypeOK ==
    /\ clips \in [Slots -> {None} \cup SUBSET (Plans \cup {None})]
    /\ \A p \in Plans :
          /\ exec[p].waiting <=> Running(p)
          /\ exec[p].pc = "idle" <=> exec[p].base = None
          /\ exec[p].base # None /\ exec[p].base.binding.instance = ctl.instance
                => exec[p].base.binding.generation <= ctl.generation
    /\ \A i \in DOMAIN wire : wire[i].call <= exec[wire[i].plan].call
    /\ ctl.gui \in 0 .. 2

(* A plan is only ever written into the slot it was confirmed for, and     *)
(* only as long as that slot has been the target without interruption:     *)
(* not after another slot was selected in between, not behind a command of *)
(* another tool, not in a reloaded controller. (requireCurrentTarget,      *)
(* refreshTargetGeneration, beginBankNavigation)                           *)
ConfirmedTargetOnly ==
    \A p \in Plans : \A i \in DOMAIN exec[p].wrote :
        exec[p].wrote[i].slot = Slot(p) /\ ~exec[p].wrote[i].moved

OnWire(p) == {i \in DOMAIN wire : wire[i].plan = p /\ wire[i].op # "inspect"}

(* A report can be relied on. Failed: nothing was written and nothing will *)
(* be. Succeeded: every write was made exactly once and nothing of it is   *)
(* still to come. No write is ever made twice. (#executeOnce)              *)
ReportsHonest ==
    \A p \in Plans :
        /\ exec[p].pc = "failed" => exec[p].wrote = << >> /\ OnWire(p) = {}
        /\ exec[p].pc = "succeeded" =>
              /\ Len(exec[p].wrote) = Len(Requests) /\ OnWire(p) = {}
              /\ \A i \in DOMAIN host : host[i].plan # p
        /\ Len(exec[p].wrote) <= exec[p].step

(* A plan succeeds only when its slot holds the plan's note and no other:  *)
(* whoever wrote into the same clip is noticed, unless that came after the *)
(* last look. (compareReadback)                                            *)
SucceedsOnExactClip ==
    [][ \A p \in Plans : LET reply == exec'[p].reply IN
          /\ exec[p].pc = "reading" /\ reply # exec[p].reply /\ reply \notin {None, Failure}
          /\ reply.view.binding = exec[p].base.binding /\ reply.view.notes = {p}
          => clips[Slot(p)] = {p} ]_vars

(* Both: what a report says and what it rests on.                          *)
VerdictSound == []ReportsHonest /\ SucceedsOnExactClip

(* An execution ends, whatever breaks: its polls are counted and every     *)
(* call is answered or given up. A barrier opens again when what it waits  *)
(* for has come, and the global commands' count runs out; only a           *)
(* construction that threw stays closed until the controller is reloaded,  *)
(* and one whose clip came back.                                           *)
ExecutionsEnd ==
    /\ \A p \in Plans : Running(p) ~> exec[p].pc \in Ended
    /\ ctl.gui > 0 ~> ctl.gui = 0
    /\ ctl.barrier # None ~>
          \/ ctl.barrier = None
          \/ ctl.barrier.failed
          \/ ~Matches(ctl, clips)
=============================================================================

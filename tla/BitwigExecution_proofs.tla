---------------------- MODULE BitwigExecution_proofs -----------------------
(***************************************************************************)
(* Proofs about BitwigExecution for any slots, plans and bounds.  Two      *)
(* arguments: a binding that the controller still accepts is one whose     *)
(* slot was the target ever since, and each execution makes its writes one *)
(* by one, so that its own note tells how far Bitwig has come.             *)
(***************************************************************************)
EXTENDS BitwigExecution, TLAPS

Places == {"idle", "planned", "observing", "verifying", "writing", "awaiting", "reading"} \cup Ended

Targets == Slots \cup {None}
Barriers == [expected : Targets, observed : BOOLEAN, quiet : BOOLEAN, failed : BOOLEAN]
Controllers ==
    [instance : Nat, generation : Nat, last : {None} \cup {<<s>> : s \in Targets},
     barrier : {None} \cup Barriers, gui : 0 .. 2, picked : SUBSET Slots, cursor : Slots]

Contents == {None} \cup SUBSET (Plans \cup {None})
Replies == {None} \cup [ok : BOOLEAN, view : Views \cup {None}]
Writes == [slot : Slots, moved : BOOLEAN]
Executions ==
    [pc : Places, base : Views \cup {None}, step : 1 .. 3, tries : Nat, call : Nat,
     waiting : BOOLEAN, reply : Replies, moved : BOOLEAN, wrote : Seq(Writes)]

Operations == {"inspect", "clip", "note"}
WireRequests == [plan : Plans, call : Nat, op : Operations]
Commands == [op : {"clip", "note", "delete"}, slot : Slots, plan : Plans \cup {None}]

Typed ==
    /\ clips \in [Slots -> Contents]
    /\ host \in Seq(Commands)
    /\ ctl \in Controllers
    /\ link \in BOOLEAN
    /\ wire \in Seq(WireRequests)
    /\ exec \in [Plans -> Executions]
    /\ events \in Nat

-----------------------------------------------------------------------------
(* Sequences.                                                              *)

LEMMA AppendFacts ==
    ASSUME NEW S, NEW s \in Seq(S), NEW x \in S
    PROVE  /\ Append(s, x) \in Seq(S)
           /\ Len(Append(s, x)) = Len(s) + 1
           /\ DOMAIN Append(s, x) = DOMAIN s \cup {Len(s) + 1}
           /\ DOMAIN s = 1 .. Len(s) /\ Len(s) \in Nat
           /\ \A i \in DOMAIN s : Append(s, x)[i] = s[i]
           /\ Append(s, x)[Len(s) + 1] = x
OBVIOUS

LEMMA TailFacts ==
    ASSUME NEW S, NEW s \in Seq(S), s # << >>
    PROVE  /\ Tail(s) \in Seq(S)
           /\ Head(s) = s[1] /\ 1 \in DOMAIN s /\ Head(s) \in S
           /\ \A i \in DOMAIN Tail(s) : i + 1 \in DOMAIN s /\ Tail(s)[i] = s[i + 1]
           /\ \A i \in DOMAIN s : i = 1 \/ (i - 1 \in DOMAIN Tail(s) /\ Tail(s)[i - 1] = s[i])
           /\ DOMAIN Tail(s) \subseteq Nat /\ DOMAIN s \subseteq Nat
OBVIOUS

-----------------------------------------------------------------------------
(* The controller. *)

LEMMA TargetTyped ==
    ASSUME NEW c \in Controllers
    PROVE  Target(c) \in Targets /\ (Target(c) # None => Target(c) \in Slots)
BY DEF Target, Controllers, Targets

LEMMA UnquietTyped ==
    ASSUME NEW c \in Controllers
    PROVE  /\ Unquiet(c) \in Controllers
           /\ Unquiet(c).instance = c.instance /\ Unquiet(c).generation = c.generation
           /\ Unquiet(c).last = c.last
           /\ c.barrier = None => Unquiet(c) = c
           /\ c.barrier # None => Unquiet(c).barrier \in Barriers
BY DEF Unquiet, Controllers, Barriers

LEMMA RevokedTyped ==
    ASSUME NEW c \in Controllers
    PROVE  /\ Revoked(c) \in Controllers
           /\ Revoked(c).instance = c.instance /\ Revoked(c).generation = c.generation + 1
           /\ Revoked(c).barrier = c.barrier /\ Revoked(c).gui = c.gui
           /\ Revoked(c).cursor = c.cursor /\ Revoked(c).picked = c.picked
BY DEF Revoked, Controllers

(* A refresh never lowers the generation, and raises it when the target is *)
(* not the one that was seen last.                                         *)
LEMMA RefreshedFacts ==
    ASSUME NEW c \in Controllers
    PROVE  /\ Refreshed(c) \in Controllers
           /\ Refreshed(c).instance = c.instance
           /\ Refreshed(c).generation \in {c.generation, c.generation + 1}
           /\ c.barrier = None =>
                 /\ Refreshed(c).barrier = None /\ Refreshed(c).gui = c.gui
                 /\ Refreshed(c).cursor = c.cursor /\ Refreshed(c).picked = c.picked
                 /\ Refreshed(c).last = <<Target(c)>>
                 /\ Refreshed(c).generation = c.generation => c.last \in {None, <<Target(c)>>}
                 /\ c.last = <<Target(c)>> => Refreshed(c).generation = c.generation
<1> DEFINE d == Unquiet(c)
           e == [d EXCEPT !.last = <<Target(d)>>]
           g == Revoked(d)
           f == [g EXCEPT !.last = <<Target(d)>>]
<1>1. /\ d \in Controllers
      /\ d.instance = c.instance /\ d.generation = c.generation
      /\ c.barrier = None => d = c
  BY UnquietTyped
<1>2. <<Target(d)>> \in {<<s>> : s \in Targets}
  BY <1>1, TargetTyped
<1> HIDE DEF d
<1>3. /\ e \in Controllers /\ e.instance = d.instance /\ e.generation = d.generation
      /\ e.barrier = d.barrier /\ e.gui = d.gui /\ e.cursor = d.cursor /\ e.picked = d.picked
      /\ e.last = <<Target(d)>>
  BY <1>1, <1>2 DEF Controllers
<1>4. /\ f \in Controllers /\ f.instance = d.instance /\ f.generation = d.generation + 1
      /\ f.barrier = d.barrier /\ f.gui = d.gui /\ f.cursor = d.cursor /\ f.picked = d.picked
      /\ f.last = <<Target(d)>>
  <2>1. /\ g \in Controllers /\ g.instance = d.instance /\ g.generation = d.generation + 1
        /\ g.barrier = d.barrier /\ g.gui = d.gui /\ g.cursor = d.cursor /\ g.picked = d.picked
    BY <1>1, RevokedTyped
  <2> HIDE DEF g
  <2> QED
    BY <1>2, <2>1 DEF Controllers
<1>5. Refreshed(c) = IF d.last \in {None, <<Target(d)>>} THEN e ELSE f
  BY DEF Refreshed, d
<1>6. d.generation \in Nat
  BY <1>1 DEF Controllers
<1> HIDE DEF e, f
<1>7. CASE d.last \in {None, <<Target(d)>>}
  BY <1>1, <1>3, <1>5, <1>7
<1>8. CASE d.last \notin {None, <<Target(d)>>}
  BY <1>1, <1>4, <1>5, <1>6, <1>8
<1> QED
  BY <1>7, <1>8

(* What the target is depends on the proxies and the barriers only.        *)
LEMMA SameTarget ==
    ASSUME NEW c, NEW d, c.barrier = None, d.barrier = None, d.gui = c.gui,
           d.picked = c.picked, d.cursor = c.cursor
    PROVE  Target(d) = Target(c) /\ (Settled(d) <=> Settled(c))
BY DEF Target, Settled

(* No binding becomes current again, and one that stays current keeps its  *)
(* target.                                                                 *)
Advances(c, d) ==
    /\ d \in Controllers
    /\ \/ d.instance > c.instance
       \/ d.instance = c.instance /\ d.generation > c.generation
       \/ /\ d.instance = c.instance /\ d.generation = c.generation
          /\ Settled(c) /\ c.last = <<Target(c)>> =>
                Settled(d) /\ d.last = c.last /\ Target(d) = Target(c)

LEMMA RefreshAdvances ==
    ASSUME NEW c \in Controllers
    PROVE  Advances(c, Refreshed(c))
<1>1. c.generation \in Nat
  BY DEF Controllers
<1>2. c.barrier = None =>
         /\ Target(Refreshed(c)) = Target(c) /\ (Settled(Refreshed(c)) <=> Settled(c))
         /\ Refreshed(c).last = <<Target(c)>>
  BY RefreshedFacts, SameTarget
<1> QED
  BY <1>1, <1>2, RefreshedFacts DEF Advances, Settled

(* An observer saw the selection or the cursor change.                     *)
LEMMA ObserverAdvances ==
    ASSUME ctl \in Controllers, NEW c \in Controllers,
           c.instance = ctl.instance, c.generation = ctl.generation, c.last = ctl.last,
           c.barrier = ctl.barrier, c.gui = ctl.gui
    PROVE  /\ Advances(ctl, Refreshed(c))
           /\ Refreshed(c).instance = ctl.instance
           /\ /\ Refreshed(c).generation = ctl.generation
              /\ Settled(ctl) /\ ctl.last = <<Target(ctl)>>
              => Target(c) = Target(ctl)
<1>1. c.generation \in Nat
  BY DEF Controllers
<1>2. c.barrier = None =>
         /\ Target(Refreshed(c)) = Target(c) /\ (Settled(Refreshed(c)) <=> Settled(c))
         /\ Refreshed(c).last = <<Target(c)>>
  BY RefreshedFacts, SameTarget
<1>3. None # <<Target(ctl)>>
  BY TargetTyped, ExecutionAssumption DEF Targets
<1>4. ASSUME Refreshed(c).generation = ctl.generation, Settled(ctl), ctl.last = <<Target(ctl)>>
      PROVE  Target(c) = Target(ctl)
  <2>1. c.barrier = None /\ Refreshed(c).generation = c.generation
    BY <1>4 DEF Settled
  <2>2. c.last \in {None, <<Target(c)>>}
    BY <2>1, RefreshedFacts
  <2>3. <<Target(ctl)>> = <<Target(c)>>
    BY <1>3, <1>4, <2>2
  <2> QED
    BY <2>3
<1> QED
  BY <1>1, <1>2, <1>4, RefreshedFacts DEF Advances, Settled

(* A command of another tool revokes what was handed out.                  *)
LEMMA RevokeAdvances ==
    ASSUME NEW c \in Controllers
    PROVE  /\ \A expected \in Targets, thrown \in BOOLEAN : Advances(c, Barred(c, expected, thrown))
           /\ Advances(c, UiDispatched(c))
<1> DEFINE d == Revoked(c)
<1>1. d \in Controllers /\ d.instance = c.instance /\ d.generation = c.generation + 1
  BY RevokedTyped
<1>2. c.generation \in Nat
  BY DEF Controllers
<1> HIDE DEF d
<1>3. ASSUME NEW expected \in Targets, NEW thrown \in BOOLEAN
      PROVE  Advances(c, Barred(c, expected, thrown))
  <2> DEFINE b == [expected |-> expected, observed |-> FALSE, quiet |-> FALSE, failed |-> thrown]
  <2>1. b \in Barriers
    BY DEF Barriers
  <2>2. Barred(c, expected, thrown) = [d EXCEPT !.barrier = b]
    BY DEF Barred, d
  <2> HIDE DEF b
  <2>3. /\ [d EXCEPT !.barrier = b] \in Controllers
        /\ [d EXCEPT !.barrier = b].instance = c.instance
        /\ [d EXCEPT !.barrier = b].generation = c.generation + 1
    BY <1>1, <2>1 DEF Controllers
  <2> QED
    BY <1>2, <2>2, <2>3 DEF Advances
<1>4. Advances(c, UiDispatched(c))
  <2>1. UiDispatched(c) = [d EXCEPT !.gui = 2]
    BY DEF UiDispatched, d
  <2>2. /\ [d EXCEPT !.gui = 2] \in Controllers
        /\ [d EXCEPT !.gui = 2].instance = c.instance
        /\ [d EXCEPT !.gui = 2].generation = c.generation + 1
    BY <1>1 DEF Controllers
  <2> QED
    BY <1>2, <2>1, <2>2 DEF Advances
<1> QED
  BY <1>3, <1>4

LEMMA NoticeAdvances ==
    ASSUME NEW c \in Controllers, c.barrier # None, NEW held
    PROVE  Advances(c, Noticed(c, held))
<1> DEFINE d == Unquiet(c)
<1>1. /\ d \in Controllers /\ d.barrier \in Barriers
      /\ d.instance = c.instance /\ d.generation = c.generation
  BY UnquietTyped
<1>2. Noticed(c, held) = [d EXCEPT !.barrier.observed = Matches(c, held)] /\ Matches(c, held) \in BOOLEAN
  BY DEF Noticed, d, Matches
<1> HIDE DEF d
<1>3. [d EXCEPT !.barrier.observed = Matches(c, held)] \in Controllers
  BY <1>1, <1>2 DEF Controllers, Barriers
<1>4. /\ [d EXCEPT !.barrier.observed = Matches(c, held)].instance = c.instance
      /\ [d EXCEPT !.barrier.observed = Matches(c, held)].generation = c.generation
  BY <1>1 DEF Controllers
<1> QED
  BY <1>2, <1>3, <1>4 DEF Advances, Settled

LEMMA FlushAdvances ==
    ASSUME NEW c \in Controllers, NEW held
    PROVE  Advances(c, Flushed(c, held))
<1> DEFINE n == IF c.gui > 0 THEN c.gui - 1 ELSE 0
           d == [c EXCEPT !.gui = n]
           e == [d EXCEPT !.barrier = None]
           f == [d EXCEPT !.barrier.quiet = TRUE]
<1>1. n \in 0 .. 2 /\ (c.gui = 0 => n = 0) /\ c.generation \in Nat /\ c.gui \in Nat
  BY DEF Controllers
<1> HIDE DEF n
<1>2. /\ d \in Controllers /\ d.instance = c.instance /\ d.generation = c.generation
      /\ d.barrier = c.barrier /\ d.gui = n /\ (c.gui = 0 => d = c)
  BY <1>1 DEF Controllers
<1>3. Flushed(c, held) \in {d, Refreshed(e), f} /\ (d.barrier = None => Flushed(c, held) = d)
  BY DEF Flushed, d, e, f, n
<1> HIDE DEF d
<1>4. e \in Controllers /\ e.instance = c.instance /\ e.generation = c.generation
  BY <1>2 DEF Controllers
<1>5. d.barrier # None =>
        f \in Controllers /\ f.instance = c.instance /\ f.generation = c.generation
  BY <1>2 DEF Controllers, Barriers
<1> HIDE DEF e, f
<1>6. CASE d.barrier = None
  <2>1. Settled(c) => d = c
    BY <1>2 DEF Settled
  <2> QED
    BY <1>2, <1>3, <1>6, <2>1 DEF Advances
<1>7. CASE d.barrier # None
  <2>1. ~Settled(c)
    BY <1>2, <1>7 DEF Settled
  <2> QED
    BY <1>1, <1>2, <1>3, <1>4, <1>5, <1>7, <2>1, RefreshedFacts DEF Advances
<1> QED
  BY <1>6, <1>7

(* What an inspection tells of a settled controller. *)
LEMMA InspectionFacts ==
    ASSUME NEW c \in Controllers, NEW held \in [Slots -> Contents]
    PROVE  /\ Inspection(c, held) \in Views
           /\ Inspection(c, held).binding = Binding(c)
           /\ Inspection(c, held).hasContent <=> Target(c) # None /\ held[Target(c)] # None
           /\ \A p \in Plans : Inspection(c, held).notes = {p} =>
                 Target(c) \in Slots /\ held[Target(c)] = {p}
<1>1. Binding(c) \in Bindings
  BY TargetTyped DEF Binding, Bindings, Controllers, Targets
<1>2. TargetNotes(c, held) \in SUBSET (Plans \cup {None})
  BY TargetTyped DEF TargetNotes, CursorMatches, Contents, Targets, Controllers
<1>3. ASSUME NEW p \in Plans, TargetNotes(c, held) = {p}
      PROVE  Target(c) \in Slots /\ held[Target(c)] = {p}
  BY <1>3, TargetTyped DEF TargetNotes, CursorMatches
<1> QED
  BY <1>1, <1>2, <1>3 DEF Inspection, Views

-----------------------------------------------------------------------------
(* What the adapter does with an execution: it makes its next call, or     *)
(* reports.                                                                *)

Like(x, y) ==
    /\ x \in Executions
    /\ x.base = y.base /\ x.call = y.call /\ x.moved = y.moved /\ x.wrote = y.wrote

Same(p) ==
    /\ exec' \in [Plans -> Executions]
    /\ \A q \in Plans \ {p} : exec'[q] = exec[q]
    /\ exec'[p].base = exec[p].base
    /\ exec'[p].moved = exec[p].moved /\ exec'[p].wrote = exec[p].wrote

Issues(p, pc, step, op) ==
    /\ Same(p)
    /\ exec'[p].pc = pc /\ exec'[p].step = step /\ exec'[p].call = exec[p].call + 1
    /\ exec'[p].waiting = TRUE /\ exec'[p].reply \in {None, Failure}
    /\ wire' \in {wire, Append(wire, [plan |-> p, call |-> exec[p].call + 1, op |-> op])}

Reports(p, pc) ==
    /\ Same(p)
    /\ exec'[p].pc = pc /\ exec'[p].step = exec[p].step /\ exec'[p].call = exec[p].call
    /\ exec'[p].waiting = FALSE /\ exec'[p].reply = None
    /\ wire' = wire

LEMMA CallIssues ==
    ASSUME Typed, NEW p \in Plans, NEW x, Like(x, exec[p]), NEW pc \in Places, NEW op,
           exec' = [exec EXCEPT ![p] = [Call(x) EXCEPT !.pc = pc]], Requested(p, op)
    PROVE  Issues(p, pc, x.step, op)
<1> DEFINE y == [Call(x) EXCEPT !.pc = pc]
<1>1. Failure \in Replies /\ None \in Replies
  BY DEF Failure, Replies
<1>2. /\ Call(x) \in Executions
      /\ Call(x).step = x.step /\ Call(x).call = x.call + 1 /\ Call(x).waiting = TRUE
      /\ Call(x).reply \in {None, Failure}
      /\ Call(x).base = x.base /\ Call(x).moved = x.moved /\ Call(x).wrote = x.wrote
  <2> DEFINE r == IF link THEN None ELSE Failure
             n == x.call + 1
  <2>1. r \in Replies /\ r \in {None, Failure} /\ n \in Nat /\ x \in Executions
    BY <1>1 DEF Like, Executions
  <2>2. Call(x) = [x EXCEPT !.call = n, !.waiting = TRUE, !.reply = r]
    BY DEF Call
  <2> HIDE DEF r, n
  <2>3. /\ Call(x) \in Executions
        /\ Call(x).step = x.step /\ Call(x).call = n /\ Call(x).waiting = TRUE
        /\ Call(x).reply = r
        /\ Call(x).base = x.base /\ Call(x).moved = x.moved /\ Call(x).wrote = x.wrote
    BY <2>1, <2>2 DEF Executions
  <2> QED
    BY <2>1, <2>3 DEF n
<1>3. /\ y \in Executions /\ y.pc = pc
      /\ y.step = x.step /\ y.call = x.call + 1 /\ y.waiting = TRUE /\ y.reply \in {None, Failure}
      /\ y.base = x.base /\ y.moved = x.moved /\ y.wrote = x.wrote
  BY <1>2 DEF Executions
<1> HIDE DEF y
<1>4. exec' = [exec EXCEPT ![p] = y]
  BY DEF y
<1>5. exec'[p] = y /\ Same(p)
  BY <1>3, <1>4 DEF Typed, Same, Like
<1> QED
  BY <1>3, <1>5 DEF Issues, Requested, Like

LEMMA InspectIssues ==
    ASSUME Typed, NEW p \in Plans, NEW x, Like(x, exec[p]), NEW pc \in Places, Inspect(x, p, pc)
    PROVE  Issues(p, pc, x.step, "inspect")
BY CallIssues DEF Inspect

(* Two writes, then the readback. *)
LEMMA ProceedIssues ==
    ASSUME Typed, NEW p \in Plans, NEW x, Like(x, exec[p]), Proceed(x, p)
    PROVE  \/ x.step = 1 /\ Issues(p, "writing", 1, "clip")
           \/ x.step = 2 /\ Issues(p, "writing", 2, "note")
           \/ x.step = 3 /\ Issues(p, "reading", 3, "inspect")
<1>1. Len(Requests) = 2 /\ Requests[1] = "clip" /\ Requests[2] = "note" /\ x.step \in 1 .. 3
  BY DEF Requests, Like, Executions
<1>2. CASE x.step = 3
  <2> DEFINE y == [x EXCEPT !.tries = Attempts]
  <2>1. Like(y, exec[p]) /\ y.step = 3
    BY <1>2, ExecutionAssumption DEF Like, Executions
  <2>2. Inspect(y, p, "reading")
    BY <1>1, <1>2 DEF Proceed
  <2> HIDE DEF y
  <2> QED
    BY <1>2, <2>1, <2>2, InspectIssues DEF Places
<1>3. CASE x.step # 3
  <2>1. /\ exec' = [exec EXCEPT ![p] = [Call(x) EXCEPT !.pc = "writing"]]
        /\ Requested(p, Requests[x.step])
    BY <1>1, <1>3 DEF Proceed
  <2>2. Issues(p, "writing", x.step, Requests[x.step])
    BY <2>1, CallIssues DEF Places
  <2> QED
    BY <1>1, <1>3, <2>2
<1> QED
  BY <1>2, <1>3

LEMMA ReportReports ==
    ASSUME Typed, NEW p \in Plans, NEW pc \in Places, Report(p, pc)
    PROVE  Reports(p, pc)
<1> DEFINE y == [exec[p] EXCEPT !.pc = pc, !.waiting = FALSE, !.reply = None]
<1>1. exec[p] \in Executions
  BY DEF Typed
<1>2. /\ y \in Executions /\ y.pc = pc
      /\ y.step = exec[p].step /\ y.call = exec[p].call /\ y.waiting = FALSE /\ y.reply = None
      /\ y.base = exec[p].base /\ y.moved = exec[p].moved /\ y.wrote = exec[p].wrote
  BY <1>1 DEF Executions, Replies
<1>3. exec' = [exec EXCEPT ![p] = y] /\ wire' = wire
  BY DEF Report
<1> HIDE DEF y
<1>4. exec'[p] = y /\ Same(p)
  BY <1>2, <1>3 DEF Typed, Same
<1> QED
  BY <1>2, <1>3, <1>4 DEF Reports

(* What can follow the answer to a call, by what was awaited. A retry and  *)
(* its last attempt are told apart by the polls left.                      *)
LEMMA ContinueCases ==
    ASSUME Typed, NEW p \in Plans, NEW reply, Continue(p, reply)
    PROVE  \/ /\ exec[p].pc = "observing"
              /\ \/ Acceptable(exec[p], reply) /\ Issues(p, "verifying", exec[p].step, "inspect")
                 \/ Reports(p, "failed")
           \/ /\ exec[p].pc = "verifying"
              /\ \/ exec[p].step = 1 /\ Issues(p, "writing", 1, "clip")
                 \/ exec[p].step = 2 /\ Issues(p, "writing", 2, "note")
                 \/ exec[p].step = 3 /\ Issues(p, "reading", 3, "inspect")
                 \/ Reports(p, "failed")
           \/ /\ exec[p].pc = "writing"
              /\ \/ Reports(p, "partial")
                 \/ reply.ok /\ exec[p].step = 1 /\ Issues(p, "awaiting", 1, "inspect")
                 \/ reply.ok /\ exec[p].step = 2 /\ Issues(p, "reading", 3, "inspect")
                 \/ exec[p].step = 3
           \/ /\ exec[p].pc = "awaiting"
              /\ \/ Issues(p, "awaiting", exec[p].step, "inspect") \/ Reports(p, "partial")
                 \/ exec[p].step = 1 /\ Issues(p, "writing", 2, "note")
                 \/ exec[p].step # 1
           \/ /\ exec[p].pc = "reading"
              /\ \/ Issues(p, "reading", exec[p].step, "inspect") \/ Reports(p, "partial")
                 \/ /\ reply.ok /\ reply.view.binding = exec[p].base.binding
                    /\ reply.view.notes = {p} /\ Reports(p, "succeeded")
<1> DEFINE x == [exec[p] EXCEPT !.waiting = FALSE, !.reply = None]
<1>1. /\ Like(x, exec[p]) /\ x.pc = exec[p].pc /\ x.step = exec[p].step /\ x.tries = exec[p].tries
      /\ x.base = exec[p].base /\ exec[p] \in Executions
  <2>1. exec[p] \in Executions /\ None \in Replies
    BY DEF Typed, Replies
  <2> QED
    BY <2>1 DEF Like, Executions
<1>2. \/ x.pc = "observing" /\ Observing(x, p, reply)
      \/ x.pc = "verifying" /\ Verifying(x, p, reply)
      \/ x.pc = "writing" /\ Writing(x, p, reply)
      \/ x.pc = "awaiting" /\ Awaiting(x, p, reply)
      \/ x.pc = "reading" /\ Reading(x, p, reply)
  BY DEF Continue
<1> HIDE DEF x
<1>3. {"failed", "partial", "succeeded", "observing", "verifying", "writing", "awaiting", "reading"}
         \subseteq Places
  BY DEF Places, Ended
<1>4. ASSUME NEW pc \in {"awaiting", "reading"}, x.pc = pc, Retry(x, p)
      PROVE  Issues(p, pc, x.step, "inspect") \/ Reports(p, "partial")
  <2> DEFINE y == [x EXCEPT !.tries = @ - 1]
  <2>1. CASE x.tries > 1
    <3>1. Like(y, exec[p]) /\ y.step = x.step
      BY <1>1, <2>1 DEF Like, Executions
    <3>2. Inspect(y, p, pc)
      BY <1>4, <2>1 DEF Retry
    <3> HIDE DEF y
    <3> QED
      BY <1>3, <3>1, <3>2, InspectIssues
  <2>2. CASE ~(x.tries > 1)
    BY <1>3, <1>4, <2>2, ReportReports DEF Retry
  <2> QED
    BY <2>1, <2>2
<1>5. ASSUME Advance(x, p), x.step \in 1 .. 2
      PROVE  \/ x.step = 1 /\ Issues(p, "writing", 2, "note")
             \/ x.step = 2 /\ Issues(p, "reading", 3, "inspect")
  <2> DEFINE y == [x EXCEPT !.step = @ + 1]
  <2>1. Like(y, exec[p]) /\ y.step = x.step + 1
    BY <1>1, <1>5 DEF Like, Executions
  <2>2. Proceed(y, p)
    BY <1>5 DEF Advance
  <2> HIDE DEF y
  <2> QED
    BY <1>5, <2>1, <2>2, ProceedIssues
<1>6. x.step \in 1 .. 3
  BY <1>1 DEF Executions
<1>7. CASE x.pc = "observing" /\ Observing(x, p, reply)
  <2>1. CASE Acceptable(x, reply)
    <3>1. Issues(p, "verifying", x.step, "inspect")
      BY <1>1, <1>3, <1>7, <2>1, InspectIssues DEF Observing
    <3> QED
      BY <1>1, <1>7, <2>1, <3>1 DEF Acceptable
  <2>2. CASE ~Acceptable(x, reply)
    BY <1>1, <1>3, <1>7, <2>2, ReportReports DEF Observing
  <2> QED
    BY <2>1, <2>2
<1>8. CASE x.pc = "verifying" /\ Verifying(x, p, reply)
  <2>1. Proceed(x, p) \/ Reports(p, "failed")
    BY <1>3, <1>8, ReportReports DEF Verifying
  <2> QED
    BY <1>1, <1>8, <2>1, ProceedIssues
<1>9. CASE x.pc = "writing" /\ Writing(x, p, reply)
  <2> DEFINE y == [x EXCEPT !.tries = Attempts]
  <2>1. CASE ~reply.ok
    BY <1>1, <1>3, <1>9, <2>1, ReportReports DEF Writing
  <2>2. CASE reply.ok /\ x.step = 1
    <3>1. Like(y, exec[p]) /\ y.step = x.step
      BY <1>1, ExecutionAssumption DEF Like, Executions
    <3>2. Inspect(y, p, "awaiting")
      BY <1>9, <2>2 DEF Writing, Requests
    <3> HIDE DEF y
    <3>3. Issues(p, "awaiting", y.step, "inspect")
      BY <1>3, <3>1, <3>2, InspectIssues
    <3> QED
      BY <1>1, <1>9, <2>2, <3>1, <3>3
  <2>3. CASE reply.ok /\ x.step = 2
    <3>1. Advance(x, p)
      BY <1>9, <2>3 DEF Writing, Requests
    <3> QED
      BY <1>1, <1>5, <1>9, <2>3, <3>1
  <2> QED
    BY <1>1, <1>6, <1>9, <2>1, <2>2, <2>3
<1>10. CASE x.pc = "awaiting" /\ Awaiting(x, p, reply)
  <2>1. Retry(x, p) \/ Reports(p, "partial") \/ Advance(x, p)
    BY <1>3, <1>10, ReportReports DEF Awaiting
  <2> QED
    BY <1>1, <1>4, <1>5, <1>10, <2>1
<1>11. CASE x.pc = "reading" /\ Reading(x, p, reply)
  <2>1. \/ Retry(x, p) \/ Reports(p, "partial")
        \/ /\ reply.ok /\ reply.view.binding = x.base.binding
           /\ reply.view.notes = {p} /\ Reports(p, "succeeded")
    BY <1>3, <1>11, ReportReports DEF Reading
  <2> QED
    BY <1>1, <1>4, <1>11, <2>1
<1> QED
  BY <1>2, <1>7, <1>8, <1>9, <1>10, <1>11

-----------------------------------------------------------------------------
(* The invariant, by plan.                                                 *)

(* A binding that the controller would accept is one whose slot has been   *)
(* the target ever since it was handed out.                                *)
Stale(p) ==
    exec[p].base # None =>
        LET b == exec[p].base.binding IN
        /\ b.instance <= ctl.instance
        /\ b.instance = ctl.instance => b.generation <= ctl.generation
        /\ b.instance = ctl.instance /\ b.generation = ctl.generation =>
              /\ ~exec[p].moved /\ Settled(ctl)
              /\ ctl.last = <<b.slot>> /\ Target(ctl) = b.slot

(* The plan was made for an empty slot. *)
Clean(p) == exec[p].base # None /\ Slot(p) # None /\ ~exec[p].base.hasContent

(* How many writes were made at each place of the execution. *)
Progress(p) ==
    LET x == exec[p]
        writes == Len(x.wrote)
    IN  /\ x.pc = "idle" <=> x.base = None
        /\ x.pc = "idle" => x.call = 0
        /\ x.waiting <=> Running(p)
        /\ x.pc \in {"idle", "planned", "observing", "verifying", "failed"} =>
              x.wrote = << >> /\ x.step = 1
        /\ x.pc \in {"verifying", "writing", "awaiting", "reading", "succeeded", "partial"} => Clean(p)
        /\ x.pc = "writing" => x.step \in 1 .. 2 /\ writes \in {x.step - 1, x.step}
        /\ x.pc = "writing" /\ x.reply # None /\ x.reply.ok => writes = x.step
        /\ x.pc = "awaiting" => x.step = 1 /\ writes = 1
        /\ x.pc \in {"reading", "succeeded"} => x.step = 3 /\ writes = 2
        /\ x.pc = "partial" => writes \in {x.step - 1, x.step}

(* What is on the wire: a request that is still waited for is the one its  *)
(* place asks, and at most one write is on its way, the next one.          *)
WireExact(p) ==
    \A i \in DOMAIN wire : wire[i].plan = p =>
        /\ wire[i].call <= exec[p].call
        /\ wire[i].call = exec[p].call /\ exec[p].waiting =>
              (wire[i].op # "inspect" <=> exec[p].pc = "writing")
        /\ wire[i].op # "inspect" =>
              /\ exec[p].pc \in {"writing", "partial"}
              /\ exec[p].step \in 1 .. 2 /\ Len(exec[p].wrote) = exec[p].step - 1
              /\ wire[i].op = Requests[exec[p].step]
              /\ wire[i].call = exec[p].call
              /\ \A j \in DOMAIN wire : wire[j].plan = p /\ wire[j].op # "inspect" => i = j

IsNote(command, p) == command.plan = p /\ command.op = "note"

(* The note of the plan is still to be asked for, or to be carried out. *)
NoteDue(p) == Len(exec[p].wrote) < 2 \/ \E i \in DOMAIN host : IsNote(host[i], p)

(* What Bitwig still has to do for the plan: the clip before the note. *)
HostExact(p) ==
    \A i \in DOMAIN host : host[i].plan = p =>
        /\ host[i].op \in {"clip", "note"} /\ host[i].slot = Slot(p) /\ Len(exec[p].wrote) > 0
        /\ host[i].op = "note" =>
              Len(exec[p].wrote) = 2 /\ \A j \in DOMAIN host : IsNote(host[j], p) => i = j
        /\ host[i].op = "clip" /\ Len(exec[p].wrote) = 2 =>
              \E j \in DOMAIN host : j > i /\ IsNote(host[j], p)

(* Until then no clip in the plan's slot holds it. *)
NoteAbsent(p) == Clean(p) /\ NoteDue(p) => clips[Slot(p)] = None \/ p \notin clips[Slot(p)]

ReadExact(p) ==
    /\ /\ exec[p].pc = "reading" /\ exec[p].reply # None /\ exec[p].reply.ok
       /\ exec[p].reply.view.binding = exec[p].base.binding /\ exec[p].reply.view.notes = {p}
       => ~NoteDue(p)
    /\ exec[p].pc = "succeeded" => ~NoteDue(p)

WroteExact(p) ==
    \A i \in DOMAIN exec[p].wrote : exec[p].wrote[i].slot = Slot(p) /\ ~exec[p].wrote[i].moved

ByPlan(p) ==
    /\ Stale(p) /\ Progress(p) /\ WireExact(p)
    /\ HostExact(p) /\ NoteAbsent(p) /\ ReadExact(p) /\ WroteExact(p)

IInv == Typed /\ \A p \in Plans : ByPlan(p)

-----------------------------------------------------------------------------
(* What keeps each part.                                                   *)

(* A binding stays what it was as long as the controller only advances.    *)
LEMMA StaleKept ==
    ASSUME Typed, NEW p \in Plans, Stale(p), Advances(ctl, ctl'), exec'[p].base = exec[p].base,
           \/ exec'[p].moved = exec[p].moved
           \/ ctl'.instance # ctl.instance
           \/ ctl'.generation # ctl.generation
           \/ ~(Settled(ctl) /\ ctl.last = <<Target(ctl)>>)
    PROVE  Stale(p)'
<1>1. CASE exec[p].base = None
  BY <1>1 DEF Stale
<1>2. CASE exec[p].base # None
  <2> DEFINE b == exec[p].base.binding
  <2>1. b.instance \in Nat /\ b.generation \in Nat
    BY <1>2 DEF Typed, Executions, Views, Bindings
  <2>2. /\ ctl.instance \in Nat /\ ctl.generation \in Nat
        /\ ctl'.instance \in Nat /\ ctl'.generation \in Nat
    BY DEF Typed, Advances, Controllers
  <2>3. /\ b.instance <= ctl.instance
        /\ b.instance = ctl.instance => b.generation <= ctl.generation
        /\ b.instance = ctl.instance /\ b.generation = ctl.generation =>
              /\ ~exec[p].moved /\ Settled(ctl)
              /\ ctl.last = <<b.slot>> /\ Target(ctl) = b.slot
    BY <1>2 DEF Stale
  <2>4. exec'[p].base.binding = b /\ exec'[p].base # None
    BY <1>2
  <2>5. ASSUME b.instance = ctl'.instance, b.generation = ctl'.generation
        PROVE  /\ ~exec'[p].moved /\ Settled(ctl')
               /\ ctl'.last = <<b.slot>> /\ Target(ctl') = b.slot
    <3>1. ctl'.instance = ctl.instance /\ ctl'.generation = ctl.generation
      BY <2>1, <2>2, <2>3, <2>5 DEF Advances
    <3>2. ~exec[p].moved /\ Settled(ctl) /\ ctl.last = <<b.slot>> /\ Target(ctl) = b.slot
      BY <2>3, <2>5, <3>1
    <3>3. ctl.last = <<Target(ctl)>>
      BY <3>2
    <3>4. Settled(ctl') /\ ctl'.last = ctl.last /\ Target(ctl') = Target(ctl)
      BY <2>2, <3>1, <3>2, <3>3 DEF Advances
    <3>5. ~exec'[p].moved
      BY <3>1, <3>2, <3>3
    <3> QED
      BY <3>2, <3>4, <3>5
  <2>6. /\ b.instance <= ctl'.instance
        /\ b.instance = ctl'.instance => b.generation <= ctl'.generation
    BY <2>1, <2>2, <2>3 DEF Advances
  <2> HIDE DEF b
  <2>7. /\ Settled(ctl)' <=> Settled(ctl')
        /\ Target(ctl)' = Target(ctl')
    BY DEF Settled, Target
  <2> QED
    BY <2>4, <2>5, <2>6, <2>7 DEF Stale
<1> QED
  BY <1>1, <1>2

(* All of an execution but its reply and whether something happened. *)
Kept(p) ==
    /\ exec'[p].pc = exec[p].pc /\ exec'[p].base = exec[p].base /\ exec'[p].step = exec[p].step
    /\ exec'[p].call = exec[p].call /\ exec'[p].waiting = exec[p].waiting
    /\ exec'[p].wrote = exec[p].wrote

LEMMA ProgressKept ==
    ASSUME NEW p \in Plans, Progress(p), Kept(p), exec'[p].reply \in {exec[p].reply, Failure}
    PROVE  Progress(p)'
BY DEF Progress, Kept, Running, Clean, Slot, Failure

LEMMA WireKept ==
    ASSUME Typed, NEW p \in Plans, WireExact(p), Kept(p),
           \/ wire' = wire \/ wire' = << >>
           \/ \E x \in WireRequests : x.plan # p /\ wire' = Append(wire, x)
           \/ wire # << >> /\ wire' = Tail(wire)
    PROVE  WireExact(p)'
<1> USE DEF Kept
<1>0. wire \in Seq(WireRequests)
  BY DEF Typed
<1>1. CASE wire' = wire
  BY <1>1 DEF WireExact
<1>2. CASE wire' = << >>
  BY <1>2 DEF WireExact
<1>3. ASSUME NEW x \in WireRequests, x.plan # p, wire' = Append(wire, x)
      PROVE  WireExact(p)'
  <2>1. \A i \in DOMAIN wire' : wire'[i].plan = p => i \in DOMAIN wire /\ wire'[i] = wire[i]
    BY <1>0, <1>3, AppendFacts
  <2> QED
    BY <2>1 DEF WireExact
<1>4. CASE wire # << >> /\ wire' = Tail(wire)
  <2>1. /\ \A i \in DOMAIN wire' : i \in Nat /\ i + 1 \in DOMAIN wire /\ wire'[i] = wire[i + 1]
        /\ \A i, j \in DOMAIN wire' : i + 1 = j + 1 => i = j
    BY <1>0, <1>4, TailFacts
  <2>2. ASSUME NEW i \in DOMAIN wire', wire'[i].plan = p
        PROVE  /\ wire'[i].call <= exec'[p].call
               /\ wire'[i].call = exec'[p].call /\ exec'[p].waiting =>
                     (wire'[i].op # "inspect" <=> exec'[p].pc = "writing")
               /\ wire'[i].op # "inspect" =>
                     /\ exec'[p].pc \in {"writing", "partial"}
                     /\ exec'[p].step \in 1 .. 2 /\ Len(exec'[p].wrote) = exec'[p].step - 1
                     /\ wire'[i].op = Requests[exec'[p].step]
                     /\ wire'[i].call = exec'[p].call
                     /\ \A j \in DOMAIN wire' :
                           wire'[j].plan = p /\ wire'[j].op # "inspect" => i = j
    BY <2>1, <2>2 DEF WireExact
  <2> QED
    BY <2>2 DEF WireExact, Requests
<1> QED
  BY <1>1, <1>2, <1>3, <1>4

(* Commands of others come, the oldest command goes. *)
Others(p) ==
    \/ host' = host
    \/ \E x \in Commands : x.plan # p /\ host' = Append(host, x)
    \/ host # << >> /\ host' = Tail(host)

LEMMA HostKept ==
    ASSUME Typed, NEW p \in Plans, HostExact(p), Others(p),
           exec'[p].wrote = exec[p].wrote, exec'[p].base = exec[p].base
    PROVE  HostExact(p)' /\ (NoteDue(p)' => NoteDue(p))
<1>0. host \in Seq(Commands)
  BY DEF Typed
<1>1. CASE host' = host
  BY <1>1 DEF HostExact, NoteDue, Slot
<1>2. ASSUME NEW x \in Commands, x.plan # p, host' = Append(host, x)
      PROVE  HostExact(p)' /\ (NoteDue(p)' => NoteDue(p))
  <2>1. /\ \A i \in DOMAIN host' : host'[i].plan = p => i \in DOMAIN host
        /\ \A i \in DOMAIN host : i \in DOMAIN host' /\ host'[i] = host[i]
    BY <1>0, <1>2, AppendFacts
  <2>2. NoteDue(p)' => NoteDue(p)
    BY <2>1 DEF NoteDue, IsNote
  <2> QED
    BY <2>1, <2>2 DEF HostExact, IsNote, Slot
<1>3. CASE host # << >> /\ host' = Tail(host)
  <2>1. /\ \A i \in DOMAIN host' : i \in Nat /\ i + 1 \in DOMAIN host /\ host'[i] = host[i + 1]
        /\ \A i, j \in DOMAIN host' : i + 1 = j + 1 => i = j
        /\ \A j \in DOMAIN host : j \in Nat
    BY <1>0, <1>3, TailFacts
  <2>2. NoteDue(p)' => NoteDue(p)
    BY <2>1 DEF NoteDue, IsNote
  <2>3. ASSUME NEW i \in DOMAIN host', host'[i].plan = p
        PROVE  /\ host'[i].op \in {"clip", "note"} /\ host'[i].slot = Slot(p)
               /\ Len(exec[p].wrote) > 0
               /\ host'[i].op = "note" =>
                     Len(exec[p].wrote) = 2 /\ \A j \in DOMAIN host' : IsNote(host'[j], p) => i = j
    BY <2>1, <2>3 DEF HostExact, IsNote
  <2>4. ASSUME NEW i \in DOMAIN host', host'[i].plan = p, host'[i].op = "clip",
               Len(exec[p].wrote) = 2
        PROVE  \E j \in DOMAIN host' : j > i /\ IsNote(host'[j], p)
    <3>1. i + 1 \in DOMAIN host /\ host[i + 1].plan = p /\ host[i + 1].op = "clip" /\ i \in Nat
      BY <2>1, <2>4
    <3>2. PICK k \in DOMAIN host : k > i + 1 /\ IsNote(host[k], p)
      BY <2>4, <3>1 DEF HostExact
    <3>3. k \in Nat /\ k - 1 > i /\ k # 1
      BY <2>1, <3>1, <3>2
    <3>4. \A j \in DOMAIN host : j = 1 \/ (j - 1 \in DOMAIN Tail(host) /\ Tail(host)[j - 1] = host[j])
      BY <1>0, <1>3, TailFacts
    <3>5. k - 1 \in DOMAIN host' /\ host'[k - 1] = host[k]
      BY <1>3, <3>3, <3>4
    <3> QED
      BY <3>2, <3>3, <3>5 DEF IsNote
  <2> QED
    BY <2>2, <2>3, <2>4 DEF HostExact, IsNote, Slot
<1> QED
  BY <1>1, <1>2, <1>3 DEF Others

LEMMA NoteAbsentKept ==
    ASSUME NEW p \in Plans, NoteAbsent(p), exec'[p].base = exec[p].base,
           NoteDue(p)' => NoteDue(p), clips' = clips
    PROVE  NoteAbsent(p)'
BY DEF NoteAbsent, Clean, Slot

LEMMA ReadKept ==
    ASSUME NEW p \in Plans, ReadExact(p), Kept(p), exec'[p].reply \in {exec[p].reply, Failure},
           NoteDue(p)' => NoteDue(p)
    PROVE  ReadExact(p)'
BY DEF ReadExact, Kept, Failure

LEMMA WroteKept ==
    ASSUME NEW p \in Plans, WroteExact(p), exec'[p].base = exec[p].base,
           exec'[p].wrote = exec[p].wrote
    PROVE  WroteExact(p)'
BY DEF WroteExact, Slot

(* Most steps: the plan is not concerned, but that something may happen to *)
(* it or its call may fail.                                                *)
LEMMA Unconcerned ==
    ASSUME Typed, NEW p \in Plans, ByPlan(p), Kept(p), exec'[p].reply \in {exec[p].reply, Failure},
           Advances(ctl, ctl'),
           \/ exec'[p].moved = exec[p].moved
           \/ ctl'.instance # ctl.instance
           \/ ctl'.generation # ctl.generation
           \/ ~(Settled(ctl) /\ ctl.last = <<Target(ctl)>>),
           \/ wire' = wire \/ wire' = << >>
           \/ \E x \in WireRequests : x.plan # p /\ wire' = Append(wire, x)
           \/ wire # << >> /\ wire' = Tail(wire),
           Others(p), clips' = clips
    PROVE  ByPlan(p)'
<1>1. /\ exec'[p].base = exec[p].base /\ exec'[p].wrote = exec[p].wrote
      /\ Stale(p) /\ Progress(p) /\ WireExact(p) /\ HostExact(p)
      /\ NoteAbsent(p) /\ ReadExact(p) /\ WroteExact(p)
  BY DEF Kept, ByPlan
<1>2. Stale(p)'
  BY <1>1, StaleKept
<1>3. Progress(p)'
  BY <1>1, ProgressKept
<1>4. WireExact(p)'
  BY <1>1, WireKept
<1>5. HostExact(p)' /\ (NoteDue(p)' => NoteDue(p))
  BY <1>1, HostKept
<1>6. NoteAbsent(p)'
  BY <1>1, <1>5, NoteAbsentKept
<1>7. ReadExact(p)' /\ WroteExact(p)'
  BY <1>1, <1>5, ReadKept, WroteKept
<1> QED
  BY <1>2, <1>3, <1>4, <1>5, <1>6, <1>7 DEF ByPlan

LEMMA Standstill == ASSUME ctl \in Controllers PROVE Advances(ctl, ctl)
BY DEF Advances

-----------------------------------------------------------------------------
(* The adapter goes on. *)

(* The next call: what was asked before is answered, or nobody waits for   *)
(* its answer any more, and no write is left on the wire.                  *)
LEMMA IssueWire ==
    ASSUME Typed, NEW p \in Plans, WireExact(p),
           NEW pc \in {"observing", "verifying", "writing", "awaiting", "reading"},
           NEW step \in 1 .. 3, NEW op \in Operations, Issues(p, pc, step, op),
           op # "inspect" <=> pc = "writing",
           pc = "writing" => /\ step \in 1 .. 2 /\ op = Requests[step]
                             /\ Len(exec[p].wrote) = step - 1,
           \/ exec[p].pc \notin {"writing", "partial"}
           \/ Len(exec[p].wrote) # exec[p].step - 1
    PROVE  WireExact(p)'
<1> DEFINE x == [plan |-> p, call |-> exec[p].call + 1, op |-> op]
<1>1. /\ wire \in Seq(WireRequests) /\ exec[p].call \in Nat
      /\ \A i \in DOMAIN wire : wire[i].call \in Nat
  <2>1. wire \in Seq(WireRequests) /\ exec[p].call \in Nat
    BY DEF Typed, Executions
  <2>2. \A i \in DOMAIN wire : wire[i] \in WireRequests
    BY <2>1
  <2> QED
    BY <2>1, <2>2 DEF WireRequests
<1>2. x \in WireRequests /\ x.plan = p /\ x.call = exec[p].call + 1 /\ x.op = op
  BY <1>1 DEF WireRequests
<1>3. \A i \in DOMAIN wire : wire[i].plan = p => wire[i].op = "inspect" /\ wire[i].call <= exec[p].call
  BY DEF WireExact
<1>4. /\ exec'[p].pc = pc /\ exec'[p].step = step /\ exec'[p].call = exec[p].call + 1
      /\ exec'[p].waiting = TRUE /\ exec'[p].wrote = exec[p].wrote
      /\ wire' = wire \/ wire' = Append(wire, x)
  BY DEF Issues, Same
<1> HIDE DEF x
<1>5. CASE wire' = wire
  BY <1>1, <1>3, <1>4, <1>5 DEF WireExact
<1>6. CASE wire' = Append(wire, x)
  <2>1. /\ DOMAIN wire' = DOMAIN wire \cup {Len(wire) + 1}
        /\ \A i \in DOMAIN wire : wire'[i] = wire[i]
        /\ wire'[Len(wire) + 1] = x
    BY <1>1, <1>2, <1>6, AppendFacts
  <2>2. ASSUME NEW i \in DOMAIN wire', wire'[i].plan = p
        PROVE  /\ wire'[i].call <= exec'[p].call
               /\ wire'[i].call = exec'[p].call => i = Len(wire) + 1
               /\ wire'[i].op # "inspect" => i = Len(wire) + 1
    BY <1>1, <1>2, <1>3, <1>4, <2>1, <2>2
  <2>3. wire'[Len(wire) + 1].call = exec'[p].call /\ wire'[Len(wire) + 1].op = op
    BY <1>2, <1>4, <2>1
  <2> QED
    BY <1>4, <2>2, <2>3 DEF WireExact
<1> QED
  BY <1>4, <1>5, <1>6

LEMMA ReportWire ==
    ASSUME Typed, NEW p \in Plans, WireExact(p), NEW pc \in Ended, Reports(p, pc),
           \/ exec[p].pc \notin {"writing", "partial"}
           \/ pc = "partial"
    PROVE  WireExact(p)'
BY DEF WireExact, Reports, Same

LEMMA IssueProgress ==
    ASSUME Typed, NEW p \in Plans, Progress(p),
           NEW pc \in {"observing", "verifying", "writing", "awaiting", "reading"},
           NEW step, NEW op, Issues(p, pc, step, op),
           exec[p].pc # "idle", pc # "observing" => Clean(p),
           pc \in {"observing", "verifying"} => step = 1 /\ exec[p].wrote = << >>,
           pc = "writing" => step \in 1 .. 2 /\ Len(exec[p].wrote) = step - 1,
           pc = "awaiting" => step = 1 /\ Len(exec[p].wrote) = 1,
           pc = "reading" => step = 3 /\ Len(exec[p].wrote) = 2
    PROVE  Progress(p)'
BY DEF Progress, Issues, Same, Running, Clean, Slot, Ended, Failure

LEMMA ReportProgress ==
    ASSUME Typed, NEW p \in Plans, Progress(p), NEW pc \in Ended, Reports(p, pc),
           exec[p].pc # "idle",
           pc = "failed" => exec[p].pc \in {"observing", "verifying"},
           pc = "partial" => exec[p].pc \in {"writing", "awaiting", "reading"},
           pc = "succeeded" => exec[p].pc = "reading"
    PROVE  Progress(p)'
<1>1. /\ exec'[p].pc = pc /\ exec'[p].step = exec[p].step /\ exec'[p].waiting = FALSE
      /\ exec'[p].reply = None /\ exec'[p].base = exec[p].base /\ exec'[p].wrote = exec[p].wrote
  BY DEF Reports, Same
<1>2. exec[p].base # None
  BY DEF Progress
<1>3. CASE pc = "failed"
  <2>1. exec[p].wrote = << >> /\ exec[p].step = 1
    BY <1>3 DEF Progress
  <2> QED
    BY <1>1, <1>2, <1>3, <2>1 DEF Progress, Running, Ended
<1>4. CASE pc = "partial"
  <2>1. Clean(p) /\ Len(exec[p].wrote) \in {exec[p].step - 1, exec[p].step}
    <3>1. exec[p].pc \in {"writing", "awaiting", "reading"}
      BY <1>4
    <3>2. Clean(p)
      BY <3>1 DEF Progress
    <3>3. exec[p].pc = "writing" => Len(exec[p].wrote) \in {exec[p].step - 1, exec[p].step}
      BY DEF Progress
    <3>4. exec[p].pc = "awaiting" => exec[p].step = 1 /\ Len(exec[p].wrote) = 1
      BY DEF Progress
    <3>5. exec[p].pc = "reading" => exec[p].step = 3 /\ Len(exec[p].wrote) = 2
      BY DEF Progress
    <3>6. 1 \in {1 - 1, 1} /\ 2 \in {3 - 1, 3}
      OBVIOUS
    <3>7. CASE exec[p].pc = "writing"
      BY <3>2, <3>3, <3>7
    <3>8. CASE exec[p].pc = "awaiting"
      BY <3>2, <3>4, <3>6, <3>8, Zenon
    <3>9. CASE exec[p].pc = "reading"
      BY <3>2, <3>5, <3>6, <3>9, Zenon
    <3> QED
      BY <3>1, <3>7, <3>8, <3>9
  <2> QED
    BY <1>1, <1>2, <1>4, <2>1 DEF Progress, Running, Ended, Clean, Slot
<1>5. CASE pc = "succeeded"
  <2>1. Clean(p) /\ exec[p].step = 3 /\ Len(exec[p].wrote) = 2
    BY <1>5 DEF Progress
  <2> QED
    BY <1>1, <1>2, <1>5, <2>1 DEF Progress, Running, Ended, Clean, Slot
<1> QED
  BY <1>3, <1>4, <1>5 DEF Ended

LEMMA OwnKept ==
    ASSUME Typed, NEW p \in Plans, ByPlan(p), Same(p), UNCHANGED <<clips, host, ctl>>
    PROVE  /\ Stale(p)' /\ HostExact(p)' /\ NoteAbsent(p)' /\ WroteExact(p)'
           /\ NoteDue(p)' => NoteDue(p)
<1>1. /\ exec'[p].base = exec[p].base /\ exec'[p].moved = exec[p].moved
      /\ exec'[p].wrote = exec[p].wrote
      /\ Stale(p) /\ HostExact(p) /\ NoteAbsent(p) /\ WroteExact(p)
  BY DEF Same, ByPlan
<1>2. Stale(p)'
  <2>1. Advances(ctl, ctl')
    BY Standstill DEF Typed
  <2> QED
    BY <1>1, <2>1, StaleKept
<1>3. HostExact(p)' /\ (NoteDue(p)' => NoteDue(p))
  BY <1>1, HostKept DEF Others
<1>4. NoteAbsent(p)' /\ WroteExact(p)'
  BY <1>1, <1>3, NoteAbsentKept, WroteKept
<1> QED
  BY <1>2, <1>3, <1>4

(* What the adapter does to the others: nothing but a request on the wire. *)
Going(p) ==
    /\ Same(p) /\ exec'[p].reply \in {None, Failure}
    /\ wire' = wire \/ \E x \in WireRequests : x.plan = p /\ wire' = Append(wire, x)

LEMMA Issued ==
    ASSUME Typed, NEW p \in Plans, ByPlan(p), UNCHANGED <<clips, host, ctl>>,
           NEW pc \in {"observing", "verifying", "writing", "awaiting", "reading"},
           NEW step \in 1 .. 3, NEW op \in Operations, Issues(p, pc, step, op),
           op # "inspect" <=> pc = "writing",
           exec[p].pc # "idle", pc # "observing" => Clean(p),
           pc \in {"observing", "verifying"} => step = 1 /\ exec[p].wrote = << >>,
           pc = "writing" => /\ step \in 1 .. 2 /\ op = Requests[step]
                             /\ Len(exec[p].wrote) = step - 1,
           pc = "awaiting" => step = 1 /\ Len(exec[p].wrote) = 1,
           pc = "reading" => step = 3 /\ Len(exec[p].wrote) = 2,
           \/ exec[p].pc \notin {"writing", "partial"}
           \/ Len(exec[p].wrote) # exec[p].step - 1
    PROVE  ByPlan(p)' /\ Going(p)
<1>1. WireExact(p) /\ Progress(p)
  BY DEF ByPlan
<1>2. Same(p)
  BY DEF Issues
<1>3. WireExact(p)'
  BY <1>1, IssueWire
<1>4. Progress(p)'
  BY <1>1, IssueProgress
<1>5. ReadExact(p)'
  BY DEF Issues, ReadExact, Failure
<1>6. Going(p)
  <2> DEFINE x == [plan |-> p, call |-> exec[p].call + 1, op |-> op]
  <2>1. x \in WireRequests /\ x.plan = p
    BY DEF Typed, Executions, WireRequests
  <2>2. wire' = wire \/ wire' = Append(wire, x)
    BY DEF Issues
  <2> HIDE DEF x
  <2> QED
    BY <1>2, <2>1, <2>2 DEF Going, Issues
<1> QED
  BY <1>2, <1>3, <1>4, <1>5, <1>6, OwnKept DEF ByPlan

LEMMA Reported ==
    ASSUME Typed, NEW p \in Plans, ByPlan(p), UNCHANGED <<clips, host, ctl>>,
           NEW pc \in Ended, Reports(p, pc),
           pc = "failed" => exec[p].pc \in {"observing", "verifying"},
           pc = "partial" => exec[p].pc \in {"writing", "awaiting", "reading"},
           pc = "succeeded" => exec[p].pc = "reading" /\ ~NoteDue(p)
    PROVE  ByPlan(p)' /\ Going(p)
<1>1. WireExact(p) /\ Progress(p)
  BY DEF ByPlan
<1>2. Same(p)
  BY DEF Reports
<1>3. exec[p].pc # "idle" /\ (exec[p].pc \notin {"writing", "partial"} \/ pc = "partial")
  BY DEF Ended
<1>4. WireExact(p)'
  BY <1>1, <1>3, ReportWire
<1>5. Progress(p)'
  BY <1>1, <1>3, ReportProgress
<1>6. NoteDue(p)' => NoteDue(p)
  BY <1>2, OwnKept
<1>7. ReadExact(p)'
  BY <1>6 DEF Reports, ReadExact
<1>8. Going(p)
  BY <1>2 DEF Going, Reports
<1> QED
  BY <1>2, <1>4, <1>5, <1>7, <1>8, OwnKept DEF ByPlan

(* The outcome of a call, whatever it is.                                  *)
LEMMA ContinueKeeps ==
    ASSUME Typed, NEW p \in Plans, ByPlan(p), UNCHANGED <<clips, host, ctl>>,
           NEW reply, reply = Failure \/ (exec[p].reply # None /\ reply = exec[p].reply),
           Continue(p, reply)
    PROVE  ByPlan(p)' /\ Going(p)
<1>1. Progress(p) /\ ReadExact(p)
  BY DEF ByPlan
<1>2. exec[p].step \in 1 .. 3 /\ Len(exec[p].wrote) \in Nat
  BY DEF Typed, Executions
<1>3. /\ Requests[1] = "clip" /\ Requests[2] = "note"
      /\ "inspect" \in Operations /\ "clip" \in Operations /\ "note" \in Operations
      /\ {"failed", "partial", "succeeded"} = Ended
  BY DEF Requests, Operations, Ended
<1>4. CASE exec[p].pc = "observing"
  <2>1. exec[p].step = 1 /\ exec[p].wrote = << >>
    BY <1>1, <1>4 DEF Progress
  <2>2. CASE Acceptable(exec[p], reply) /\ Issues(p, "verifying", exec[p].step, "inspect")
    <3>1. Clean(p)
      <4>1. exec[p].base # None
        BY <1>1, <1>4 DEF Progress
      <4> QED
        BY <2>2, <4>1 DEF Acceptable, Clean, Slot
    <3> QED
      BY <1>3, <1>4, <2>1, <2>2, <3>1, Issued
  <2>3. CASE Reports(p, "failed")
    BY <1>3, <1>4, <2>3, Reported
  <2> QED
    BY <1>4, <2>2, <2>3, ContinueCases
<1>5. CASE exec[p].pc = "verifying"
  <2>1. exec[p].step = 1 /\ Len(exec[p].wrote) = 0 /\ Clean(p)
    BY <1>1, <1>5 DEF Progress
  <2>2. CASE Issues(p, "writing", 1, "clip")
    BY <1>3, <1>5, <2>1, <2>2, Issued
  <2>3. CASE Reports(p, "failed")
    BY <1>3, <1>5, <2>3, Reported
  <2> QED
    BY <1>5, <2>1, <2>2, <2>3, ContinueCases
<1>6. CASE exec[p].pc = "writing"
  <2>1. exec[p].step \in 1 .. 2 /\ Clean(p)
    BY <1>1, <1>6 DEF Progress
  <2>2. reply.ok => Len(exec[p].wrote) = exec[p].step
    BY <1>1, <1>6 DEF Progress, Failure
  <2>3. CASE Reports(p, "partial")
    BY <1>3, <1>6, <2>3, Reported
  <2>4. CASE reply.ok /\ exec[p].step = 1 /\ Issues(p, "awaiting", 1, "inspect")
    <3>1. Len(exec[p].wrote) = 1 /\ Len(exec[p].wrote) # exec[p].step - 1 /\ 1 \in 1 .. 3
      BY <2>2, <2>4
    <3>2. exec[p].pc # "idle" /\ Clean(p) /\ Issues(p, "awaiting", 1, "inspect")
      BY <1>6, <2>1, <2>4
    <3> QED
      BY <1>3, <3>1, <3>2, Issued
  <2>5. CASE reply.ok /\ exec[p].step = 2 /\ Issues(p, "reading", 3, "inspect")
    <3>1. Len(exec[p].wrote) = 2 /\ Len(exec[p].wrote) # exec[p].step - 1 /\ 3 \in 1 .. 3
      BY <2>2, <2>5
    <3>2. exec[p].pc # "idle" /\ Clean(p) /\ Issues(p, "reading", 3, "inspect")
      BY <1>6, <2>1, <2>5
    <3> QED
      BY <1>3, <3>1, <3>2, Issued
  <2> QED
    BY <1>6, <2>1, <2>3, <2>4, <2>5, ContinueCases
<1>7. CASE exec[p].pc = "awaiting"
  <2>1. exec[p].step = 1 /\ Len(exec[p].wrote) = 1 /\ Clean(p)
    BY <1>1, <1>7 DEF Progress
  <2>2. CASE Reports(p, "partial")
    BY <1>3, <1>7, <2>2, Reported
  <2>3. CASE Issues(p, "awaiting", exec[p].step, "inspect")
    BY <1>3, <1>7, <2>1, <2>3, Issued
  <2>4. CASE Issues(p, "writing", 2, "note")
    <3>1. Len(exec[p].wrote) = 2 - 1 /\ 2 \in 1 .. 3 /\ 2 \in 1 .. 2
      BY <2>1
    <3> QED
      BY <1>3, <1>7, <2>1, <2>4, <3>1, Issued
  <2> QED
    BY <1>7, <2>1, <2>2, <2>3, <2>4, ContinueCases
<1>8. CASE exec[p].pc = "reading"
  <2>1. exec[p].step = 3 /\ Len(exec[p].wrote) = 2 /\ Clean(p)
    BY <1>1, <1>8 DEF Progress
  <2>2. CASE Reports(p, "partial")
    BY <1>3, <1>8, <2>2, Reported
  <2>3. CASE Issues(p, "reading", exec[p].step, "inspect")
    BY <1>3, <1>8, <2>1, <2>3, Issued
  <2>4. CASE /\ reply.ok /\ reply.view.binding = exec[p].base.binding
             /\ reply.view.notes = {p} /\ Reports(p, "succeeded")
    <3>1. ~NoteDue(p)
      BY <1>1, <1>8, <2>4 DEF ReadExact, Failure
    <3> QED
      BY <1>3, <1>8, <2>4, <3>1, Reported
  <2> QED
    BY <1>8, <2>2, <2>3, <2>4, ContinueCases
<1> QED
  BY <1>4, <1>5, <1>6, <1>7, <1>8, ContinueCases
LEMMA AdapterStep ==
    ASSUME IInv, NEW p \in Plans, ByPlan(p)', Going(p), UNCHANGED <<clips, host, ctl, link>>,
           events' \in Nat
    PROVE  IInv'
<1>1. Typed'
  <2>1. wire' \in Seq(WireRequests)
    BY AppendFacts DEF IInv, Typed, Going
  <2> QED
    BY <2>1 DEF IInv, Typed, Going, Same
<1>2. ASSUME NEW q \in Plans \ {p}
      PROVE  ByPlan(q)'
  <2>1. /\ exec'[q] = exec[q]
        /\ wire' = wire \/ \E x \in WireRequests : x.plan # q /\ wire' = Append(wire, x)
    BY DEF Going, Same
  <2>2. Typed /\ ByPlan(q) /\ Advances(ctl, ctl') /\ Others(q)
    BY Standstill DEF IInv, Typed, Others
  <2> QED
    BY <2>1, <2>2, Unconcerned DEF Kept
<1> QED
  BY <1>1, <1>2 DEF IInv

LEMMA ExecuteKeeps ==
    ASSUME IInv, NEW p \in Plans, Execute(p)
    PROVE  IInv' /\ Going(p)
<1>1. Typed /\ ByPlan(p) /\ Progress(p)
  BY DEF IInv, ByPlan
<1>2. exec[p].pc = "planned" /\ exec[p].step = 1 /\ exec[p].wrote = << >>
  BY <1>1 DEF Execute, Progress
<1>3. Issues(p, "observing", 1, "inspect")
  <2>1. Like(exec[p], exec[p]) /\ "observing" \in Places
    BY <1>1 DEF Like, Typed, Places
  <2> QED
    BY <1>1, <1>2, <2>1, InspectIssues DEF Execute
<1>4. UNCHANGED <<clips, host, ctl, link, events>>
  BY DEF Execute
<1>5. ByPlan(p)' /\ Going(p)
  BY <1>1, <1>2, <1>3, <1>4, Issued DEF Operations
<1> QED
  BY <1>4, <1>5, AdapterStep DEF IInv, Typed

LEMMA ReplyKeeps ==
    ASSUME IInv, NEW p \in Plans, ReplyArrives(p)
    PROVE  IInv' /\ Going(p)
<1>1. Typed /\ ByPlan(p)
  BY DEF IInv
<1>2. exec[p].reply # None /\ Continue(p, exec[p].reply) /\ UNCHANGED <<clips, host, ctl, link, events>>
  BY DEF ReplyArrives
<1>3. ByPlan(p)' /\ Going(p)
  BY <1>1, <1>2, ContinueKeeps
<1> QED
  BY <1>2, <1>3, AdapterStep DEF IInv, Typed

LEMMA TimeoutKeeps ==
    ASSUME IInv, NEW p \in Plans, TimesOut(p)
    PROVE  IInv' /\ Going(p)
<1>1. Typed /\ ByPlan(p)
  BY DEF IInv
<1>2. Continue(p, Failure) /\ UNCHANGED <<clips, host, ctl, link>> /\ events' = events + 1
  BY DEF TimesOut, Event
<1>3. ByPlan(p)' /\ Going(p)
  BY <1>1, <1>2, ContinueKeeps
<1> QED
  BY <1>1, <1>2, <1>3, AdapterStep DEF Typed

(* The plan rests on what an inspection of the settled controller told.    *)
LEMMA PlanKeeps ==
    ASSUME IInv, NEW p \in Plans, Plan(p)
    PROVE  IInv'
<1> DEFINE base == Inspection(ctl', clips)
           x == [NewExecution EXCEPT !.pc = "planned", !.base = base]
<1>1. /\ Typed /\ Settled(ctl) /\ ctl' = Refreshed(ctl) /\ ctl \in Controllers
      /\ exec[p].pc = "idle" /\ exec' = [exec EXCEPT ![p] = x]
      /\ UNCHANGED <<clips, host, link, wire, events>>
  BY DEF Plan, IInv, Typed
<1>2. /\ Advances(ctl, ctl') /\ ctl' \in Controllers /\ ctl'.last = <<Target(ctl')>> /\ Settled(ctl')
  <2>1. ctl.barrier = None
    BY <1>1 DEF Settled
  <2> QED
    BY <1>1, <2>1, RefreshAdvances, RefreshedFacts, SameTarget
<1>3. /\ base \in Views /\ base # None /\ base.binding = Binding(ctl')
      /\ base.hasContent <=> Target(ctl') # None /\ clips[Target(ctl')] # None
  BY <1>1, <1>2, InspectionFacts, ExecutionAssumption DEF Typed
<1> HIDE DEF base
<1>4. /\ x.pc = "planned" /\ x.base = base /\ x.step = 1 /\ x.call = 0 /\ x.waiting = FALSE
      /\ x.reply = None /\ x.moved = FALSE /\ x.wrote = << >> /\ x \in Executions
  <2>1. << >> \in Seq(Writes) /\ None \in Replies /\ "planned" \in Places
    BY DEF Replies, Places
  <2> DEFINE n == NewExecution
  <2>2. n \in Executions /\ n.step = 1 /\ n.call = 0 /\ n.waiting = FALSE /\ n.reply = None
        /\ n.moved = FALSE /\ n.wrote = << >>
    BY <2>1 DEF NewExecution, Executions, Places
  <2>3. x = [n EXCEPT !.pc = "planned", !.base = base]
    OBVIOUS
  <2> HIDE DEF n, x
  <2> QED
    BY <1>3, <2>1, <2>2, <2>3 DEF Executions
<1> HIDE DEF x
<1>5. /\ exec'[p] = x /\ exec' \in [Plans -> Executions]
      /\ \A q \in Plans \ {p} : exec'[q] = exec[q]
  BY <1>1, <1>4 DEF Typed
<1>6. Typed'
  BY <1>1, <1>2, <1>5 DEF Typed
<1>7. ASSUME NEW q \in Plans \ {p}
      PROVE  ByPlan(q)'
  <2>1. ByPlan(q) /\ exec'[q] = exec[q] /\ Others(q)
    BY <1>1, <1>5 DEF IInv, Others
  <2> QED
    BY <1>1, <1>2, <2>1, Unconcerned DEF Kept
<1>8. ByPlan(p)'
  <2>1. Binding(ctl').instance = ctl'.instance /\ Binding(ctl').generation = ctl'.generation
        /\ Binding(ctl').slot = Target(ctl')
    BY DEF Binding
  <2>2. ctl'.instance \in Nat /\ ctl'.generation \in Nat
    BY <1>2 DEF Controllers
  <2>3. Stale(p)'
    <3>1. (Settled(ctl)' <=> Settled(ctl')) /\ Target(ctl)' = Target(ctl')
      BY DEF Settled, Target
    <3> QED
      BY <1>2, <1>3, <1>4, <1>5, <2>1, <2>2, <3>1 DEF Stale
  <2>4. Progress(p)'
    BY <1>3, <1>4, <1>5 DEF Progress, Running
  <2>5. WireExact(p) /\ HostExact(p) /\ exec[p].wrote = << >> /\ Progress(p)
    BY <1>1 DEF IInv, ByPlan, Progress
  <2>6. \A i \in DOMAIN host : host[i].plan # p
    BY <2>5 DEF HostExact
  <2>7. HostExact(p)'
    BY <1>1, <2>6 DEF HostExact
  <2>8. NoteAbsent(p)'
    BY <1>1, <1>3, <1>4, <1>5, <2>1 DEF NoteAbsent, Clean, Slot
  <2>9. ReadExact(p)' /\ WroteExact(p)'
    BY <1>4, <1>5 DEF ReadExact, WroteExact
  <2>10. WireExact(p)'
    <3>1. exec[p].call = 0
      BY <1>1, <2>5 DEF Progress
    <3>2. \A i \in DOMAIN wire : wire[i].plan = p => wire[i].call <= 0 /\ wire[i].op = "inspect"
      BY <1>1, <2>5, <3>1 DEF WireExact
    <3> QED
      BY <1>1, <1>4, <1>5, <3>2 DEF WireExact
  <2> QED
    BY <2>3, <2>4, <2>7, <2>8, <2>9, <2>10 DEF ByPlan
<1> QED
  BY <1>6, <1>7, <1>8 DEF IInv

-----------------------------------------------------------------------------
(* The connection, the player and the other tools.                         *)

LEMMA WorldKeeps ==
    ASSUME IInv, Typed', Advances(ctl, ctl'), clips' = clips, wire' = wire \/ wire' = << >>,
           \A p \in Plans : /\ Kept(p) /\ Others(p)
                            /\ exec'[p].reply \in {exec[p].reply, Failure},
           \/ \A p \in Plans : exec'[p].moved = exec[p].moved
           \/ ctl'.instance # ctl.instance
           \/ ctl'.generation # ctl.generation
           \/ ~(Settled(ctl) /\ ctl.last = <<Target(ctl)>>)
    PROVE  IInv'
<1>1. ASSUME NEW p \in Plans
      PROVE  ByPlan(p)'
  <2>1. Typed /\ ByPlan(p) /\ Kept(p) /\ Others(p) /\ exec'[p].reply \in {exec[p].reply, Failure}
    BY DEF IInv
  <2> QED
    BY <2>1, Unconcerned
<1> QED
  BY <1>1 DEF IInv

LEMMA MovedFacts ==
    ASSUME exec \in [Plans -> Executions], exec' = Moved
    PROVE  /\ exec' \in [Plans -> Executions]
           /\ \A p \in Plans : Kept(p) /\ exec'[p].reply = exec[p].reply
<1>1. ASSUME NEW p \in Plans
      PROVE  /\ exec'[p] \in Executions /\ Kept(p) /\ exec'[p].reply = exec[p].reply
  <2>1. exec'[p] = [exec[p] EXCEPT !.moved = TRUE] /\ exec[p] \in Executions
    BY DEF Moved
  <2> QED
    BY <2>1 DEF Executions, Kept
<1>2. exec' = [p \in Plans |-> exec'[p]]
  BY DEF Moved
<1> QED
  BY <1>1, <1>2

LEMMA UnansweredFacts ==
    ASSUME exec \in [Plans -> Executions]
    PROVE  /\ Unanswered \in [Plans -> Executions]
           /\ exec' = Unanswered => \A p \in Plans :
                 Kept(p) /\ exec'[p].moved = exec[p].moved /\ exec'[p].reply \in {exec[p].reply, Failure}
<1>1. Failure \in Replies
  BY DEF Failure, Replies
<1>2. ASSUME NEW p \in Plans
      PROVE  /\ Unanswered[p] \in Executions
             /\ exec' = Unanswered =>
                   Kept(p) /\ exec'[p].moved = exec[p].moved /\ exec'[p].reply \in {exec[p].reply, Failure}
  <2>1. /\ Unanswered[p] = IF exec[p].waiting THEN [exec[p] EXCEPT !.reply = Failure] ELSE exec[p]
        /\ exec[p] \in Executions
    BY DEF Unanswered
  <2> QED
    BY <1>1, <2>1 DEF Executions, Kept
<1> QED
  BY <1>2 DEF Unanswered

LEMMA DisconnectKeeps == ASSUME IInv, Disconnect PROVE IInv'
<1>1. /\ exec' = Unanswered /\ wire' \in {wire, << >>} /\ link' = FALSE /\ events' = events + 1
      /\ UNCHANGED <<clips, host, ctl>>
  BY DEF Disconnect, Broken, Event
<1>2. Typed
  BY DEF IInv
<1>3. /\ Typed'
      /\ \A p \in Plans :
            Kept(p) /\ exec'[p].moved = exec[p].moved /\ exec'[p].reply \in {exec[p].reply, Failure}
  <2>1. << >> \in Seq(WireRequests)
    OBVIOUS
  <2> QED
    <3>0. wire \in Seq(WireRequests) /\ exec \in [Plans -> Executions] /\ events \in Nat
      BY <1>2 DEF Typed
    <3>1. wire' \in Seq(WireRequests) /\ exec \in [Plans -> Executions] /\ events' \in Nat
      <4>1. CASE wire' = wire
        BY <1>1, <3>0, <4>1
      <4>2. CASE wire' = << >>
        BY <1>1, <2>1, <3>0, <4>2
      <4> QED
        BY <1>1, <4>1, <4>2
    <3>2. exec' \in [Plans -> Executions]
      BY <1>1, <3>1, UnansweredFacts
    <3>3. Typed'
      BY <1>1, <1>2, <3>1, <3>2 DEF Typed
    <3> QED
      BY <1>1, <3>1, <3>3, UnansweredFacts
<1>4. Advances(ctl, ctl') /\ \A p \in Plans : Others(p)
  BY <1>1, <1>2, Standstill DEF Typed, Others
<1> QED
  BY <1>1, <1>3, <1>4, WorldKeeps

LEMMA ReloadKeeps == ASSUME IInv, Reload PROVE IInv'
<1>1. /\ wire' = << >> /\ link' = FALSE /\ events' = events + 1
      /\ ctl' = NewController(ctl.instance + 1, ctl.picked, ctl.cursor)
      /\ exec' = [p \in Plans |-> [Unanswered[p] EXCEPT !.moved = TRUE]]
      /\ UNCHANGED <<clips, host>>
  BY DEF Reload, Broken, Event
<1>2. Typed
  BY DEF IInv
<1>3. ctl' \in Controllers /\ ctl'.instance = ctl.instance + 1 /\ ctl.instance \in Nat
  BY <1>1, <1>2 DEF Typed, Controllers, NewController
<1>4. ASSUME NEW p \in Plans
      PROVE  exec'[p] \in Executions /\ Kept(p) /\ exec'[p].reply \in {exec[p].reply, Failure}
  <2>1. exec[p] \in Executions /\ Failure \in Replies
    BY <1>2 DEF Typed, Failure, Replies
  <2> DEFINE x == IF exec[p].waiting THEN [exec[p] EXCEPT !.reply = Failure] ELSE exec[p]
  <2>2. /\ x \in Executions /\ x.reply \in {exec[p].reply, Failure}
        /\ x.pc = exec[p].pc /\ x.base = exec[p].base /\ x.step = exec[p].step
        /\ x.call = exec[p].call /\ x.waiting = exec[p].waiting /\ x.wrote = exec[p].wrote
    BY <2>1 DEF Executions
  <2>3. Unanswered[p] = x
    BY DEF Unanswered
  <2> HIDE DEF x
  <2>4. exec'[p] = [x EXCEPT !.moved = TRUE]
    BY <1>1, <2>3
  <2> QED
    BY <2>2, <2>4 DEF Executions, Kept
<1>5. exec' \in [Plans -> Executions]
  BY <1>1, <1>4
<1>6. Typed'
  <2>1. << >> \in Seq(WireRequests)
    OBVIOUS
  <2> QED
    <3>1. wire' \in Seq(WireRequests) /\ events' \in Nat
      BY <1>1, <1>2, <2>1 DEF Typed
    <3> QED
      BY <1>1, <1>2, <1>3, <1>5, <3>1 DEF Typed
<1>7. Advances(ctl, ctl') /\ ctl'.instance # ctl.instance /\ \A p \in Plans : Others(p)
  BY <1>1, <1>3 DEF Advances, Others
<1> QED
  BY <1>1, <1>4, <1>6, <1>7, WorldKeeps

LEMMA ConnectKeeps == ASSUME IInv, Connect PROVE IInv'
<1>1. link' = TRUE /\ UNCHANGED <<clips, host, ctl, wire, exec, events>> /\ Typed
  BY DEF Connect, IInv
<1>2. Typed' /\ Advances(ctl, ctl')
  BY <1>1, Standstill DEF Typed
<1> QED
  BY <1>1, <1>2, WorldKeeps DEF Kept, Others

LEMMA CallbackKeeps ==
    ASSUME IInv, NEW c \in Controllers,
           c.instance = ctl.instance, c.generation = ctl.generation, c.last = ctl.last,
           c.barrier = ctl.barrier, c.gui = ctl.gui, Callback(c)
    PROVE  IInv'
<1>1. /\ ctl' = Refreshed(c) /\ events' = events + 1
      /\ exec' = IF Target(c) = Target(ctl) THEN exec ELSE Moved
      /\ UNCHANGED <<clips, host, link, wire>>
  BY DEF Callback, Event
<1>2. Typed
  BY DEF IInv
<1>3. /\ Advances(ctl, ctl') /\ ctl' \in Controllers
      /\ /\ ctl'.generation = ctl.generation /\ Settled(ctl) /\ ctl.last = <<Target(ctl)>>
         => Target(c) = Target(ctl)
  BY <1>1, <1>2, ObserverAdvances, RefreshedFacts DEF Typed
<1>4. /\ exec' \in [Plans -> Executions]
      /\ \A p \in Plans : Kept(p) /\ exec'[p].reply = exec[p].reply
      /\ Target(c) = Target(ctl) => exec' = exec
  BY <1>1, <1>2, MovedFacts DEF Typed, Kept
<1>5. Typed' /\ \A p \in Plans : Others(p)
  BY <1>1, <1>2, <1>3, <1>4 DEF Typed, Others
<1> QED
  BY <1>1, <1>3, <1>4, <1>5, WorldKeeps

LEMMA SelectionKeeps ==
    ASSUME IInv, NEW s \in Slots, SlotSelected(s) \/ CursorMoves(s)
    PROVE  IInv'
<1>1. ctl \in Controllers
  BY DEF IInv, Typed
<1>2. CASE SlotSelected(s)
  <2> DEFINE picked == IF s \in ctl.picked THEN ctl.picked \ {s} ELSE ctl.picked \cup {s}
             c == [ctl EXCEPT !.picked = picked]
  <2>1. picked \in SUBSET Slots /\ Callback(c)
    BY <1>1, <1>2 DEF SlotSelected, Controllers
  <2> HIDE DEF picked
  <2>2. /\ c \in Controllers /\ c.instance = ctl.instance /\ c.generation = ctl.generation
        /\ c.last = ctl.last /\ c.barrier = ctl.barrier /\ c.gui = ctl.gui
    BY <1>1, <2>1 DEF Controllers
  <2> HIDE DEF c
  <2> QED
    BY <2>1, <2>2, CallbackKeeps
<1>3. CASE CursorMoves(s)
  <2> DEFINE c == [ctl EXCEPT !.cursor = s]
  <2>1. Callback(c)
    BY <1>3 DEF CursorMoves
  <2>2. /\ c \in Controllers /\ c.instance = ctl.instance /\ c.generation = ctl.generation
        /\ c.last = ctl.last /\ c.barrier = ctl.barrier /\ c.gui = ctl.gui
    BY <1>1 DEF Controllers
  <2> HIDE DEF c
  <2> QED
    BY <2>1, <2>2, CallbackKeeps
<1> QED
  BY <1>2, <1>3

(* A command of another tool: it revokes the bindings, and Bitwig may have *)
(* something to do that is of no plan.                                     *)
LEMMA ToolKeeps ==
    ASSUME IInv, Advances(ctl, ctl'), ctl'.generation # ctl.generation, exec' = Moved,
           \/ host' = host
           \/ \E s \in Slots : host' = Append(host, [op |-> "delete", slot |-> s, plan |-> None]),
           events' = events + 1, UNCHANGED <<clips, link, wire>>
    PROVE  IInv'
<1>1. Typed
  BY DEF IInv
<1>2. host' = host \/ \E x \in Commands : x.plan = None /\ host' = Append(host, x)
  <2>1. \A s \in Slots : [op |-> "delete", slot |-> s, plan |-> None] \in Commands
    BY DEF Commands
  <2> QED
    BY <2>1
<1>3. host' \in Seq(Commands) /\ \A p \in Plans : Others(p)
  <2>1. \A p \in Plans : p # None
    BY ExecutionAssumption
  <2>2. host \in Seq(Commands)
    BY <1>1 DEF Typed
  <2>3. CASE host' = host
    BY <2>2, <2>3 DEF Others
  <2>4. ASSUME NEW x \in Commands, x.plan = None, host' = Append(host, x)
        PROVE  host' \in Seq(Commands) /\ \A p \in Plans : Others(p)
    BY <2>1, <2>2, <2>4, AppendFacts DEF Others
  <2> QED
    BY <1>2, <2>3, <2>4
<1>4. exec' \in [Plans -> Executions] /\ \A p \in Plans : Kept(p) /\ exec'[p].reply = exec[p].reply
  BY <1>1, MovedFacts DEF Typed
<1>5. Typed'
  BY <1>1, <1>3, <1>4 DEF Typed, Advances
<1> QED
  BY <1>3, <1>4, <1>5, WorldKeeps

LEMMA ToolsKeep ==
    ASSUME IInv, Navigate \/ GlobalUi \/ \E s \in Slots : Construct(s)
    PROVE  IInv'
<1>1. ctl \in Controllers /\ ctl.generation \in Nat
  BY DEF IInv, Typed, Controllers
<1>2. Revoked(ctl).generation = ctl.generation + 1
  BY <1>1, RevokedTyped
<1>3. /\ \A expected, thrown : Barred(ctl, expected, thrown).generation = Revoked(ctl).generation
      /\ UiDispatched(ctl).generation = Revoked(ctl).generation
  <2> DEFINE d == Revoked(ctl)
  <2>1. d \in Controllers
    BY <1>1, RevokedTyped
  <2>2. /\ \A b : [d EXCEPT !.barrier = b].generation = d.generation
        /\ [d EXCEPT !.gui = 2].generation = d.generation
    <3> HIDE DEF d
    <3> QED
      BY <2>1 DEF Controllers
  <2> QED
    BY <2>2 DEF Barred, UiDispatched
<1>4. CASE Navigate
  <2>1. /\ ctl' = Barred(ctl, None, FALSE) /\ exec' = Moved /\ events' = events + 1
        /\ UNCHANGED <<clips, host, link, wire>>
    BY <1>4 DEF Navigate, Event
  <2>2. Advances(ctl, ctl') /\ ctl'.generation # ctl.generation
    <3>1. None \in Targets /\ FALSE \in BOOLEAN
      BY DEF Targets
    <3>2. Advances(ctl, ctl')
      BY <1>1, <2>1, <3>1, RevokeAdvances
    <3>3. ctl'.generation = Revoked(ctl).generation
      BY <1>3, <2>1, Zenon
    <3> QED
      BY <1>1, <1>2, <3>2, <3>3
  <2> QED
    BY <2>1, <2>2, ToolKeeps
<1>5. CASE GlobalUi
  <2>1. /\ ctl' = UiDispatched(ctl) /\ exec' = Moved /\ events' = events + 1
        /\ UNCHANGED <<clips, link, wire>>
        /\ \/ host' = host
           \/ \E s \in Slots : host' = Append(host, [op |-> "delete", slot |-> s, plan |-> None])
    BY <1>5 DEF GlobalUi, Event
  <2>2. Advances(ctl, ctl') /\ ctl'.generation # ctl.generation
    BY <1>1, <1>2, <1>3, <2>1, RevokeAdvances
  <2> QED
    BY <2>1, <2>2, ToolKeeps
<1>6. ASSUME NEW s \in Slots, Construct(s)
      PROVE  IInv'
  <2>1. /\ exec' = Moved /\ events' = events + 1 /\ UNCHANGED <<clips, link, wire>>
        /\ \E thrown \in BOOLEAN : ctl' = Barred(ctl, s, thrown)
        /\ \/ host' = host
           \/ host' = Append(host, [op |-> "delete", slot |-> s, plan |-> None])
    BY <1>6 DEF Construct, Event
  <2>2. Advances(ctl, ctl') /\ ctl'.generation # ctl.generation
    <3>1. PICK thrown \in BOOLEAN : ctl' = Barred(ctl, s, thrown)
      BY <2>1
    <3>2. s \in Targets
      BY DEF Targets
    <3>3. Advances(ctl, ctl')
      BY <1>1, <3>1, <3>2, RevokeAdvances
    <3> QED
      BY <1>1, <1>2, <1>3, <3>1, <3>3
  <2> QED
    BY <2>1, <2>2, ToolKeeps
<1> QED
  BY <1>4, <1>5, <1>6

LEMMA BarrierKeeps ==
    ASSUME IInv, BarrierNotices \/ Flush
    PROVE  IInv'
<1>1. UNCHANGED <<clips, host, link, wire, exec, events>> /\ Typed
  BY DEF BarrierNotices, Flush, IInv
<1>2. Advances(ctl, ctl')
  BY <1>1, NoticeAdvances, FlushAdvances DEF BarrierNotices, Flush, Typed
<1>3. Typed'
  BY <1>1, <1>2 DEF Typed, Advances
<1> QED
  BY <1>1, <1>2, <1>3, WorldKeeps DEF Kept, Others

-----------------------------------------------------------------------------
(* What the clips hold.                                                    *)

LEMMA ClipsKeep ==
    ASSUME IInv, Typed', UNCHANGED <<ctl, wire, exec>>,
           \A p \in Plans : Others(p) /\ (NoteAbsent(p) /\ HostExact(p) => NoteAbsent(p)')
    PROVE  IInv'
<1>1. ASSUME NEW p \in Plans
      PROVE  ByPlan(p)'
  <2>1. /\ Typed /\ Stale(p) /\ Progress(p) /\ WireExact(p) /\ HostExact(p)
        /\ ReadExact(p) /\ WroteExact(p) /\ NoteAbsent(p)
    BY DEF IInv, ByPlan
  <2>2. Kept(p) /\ Others(p) /\ exec'[p].reply = exec[p].reply /\ Advances(ctl, ctl')
    BY <2>1, Standstill DEF Kept, Typed
  <2>3. HostExact(p)' /\ (NoteDue(p)' => NoteDue(p))
    BY <2>1, <2>2, HostKept DEF Kept
  <2>4. Stale(p)'
    BY <2>1, <2>2, StaleKept DEF Kept
  <2>5. WireExact(p)' /\ Progress(p)' /\ ReadExact(p)' /\ WroteExact(p)'
    BY <2>1, <2>2, <2>3, WireKept, ProgressKept, ReadKept, WroteKept DEF Kept
  <2> QED
    BY <2>1, <2>3, <2>4, <2>5 DEF ByPlan
<1> QED
  BY <1>1 DEF IInv

LEMMA EditKeeps ==
    ASSUME IInv, NEW s \in Slots, PlayerEdits(s)
    PROVE  IInv'
<1>1. Typed
  BY DEF IInv
<1>2. PICK clip \in IF clips[s] = None THEN {{}} ELSE {None, clips[s] \cup {None}} :
         clips' = [clips EXCEPT ![s] = clip]
  BY DEF PlayerEdits
<1>3. UNCHANGED <<host, ctl, link, wire, exec>> /\ events' = events + 1
  BY DEF PlayerEdits, Event
<1>4. /\ clip \in Contents
      /\ \A p \in Plans : clips[s] = None \/ p \notin clips[s] => clip = None \/ p \notin clip
  BY <1>1, <1>2, ExecutionAssumption DEF Typed, Contents
<1>5. Typed'
  BY <1>1, <1>2, <1>3, <1>4 DEF Typed
<1>6. ASSUME NEW p \in Plans, NoteAbsent(p)
      PROVE  NoteAbsent(p)'
  <2>1. Clean(p)' /\ NoteDue(p)' => Clean(p) /\ NoteDue(p) /\ Slot(p)' = Slot(p)
    BY <1>3 DEF Clean, NoteDue, Slot
  <2> QED
    BY <1>1, <1>2, <1>4, <1>6, <2>1 DEF NoteAbsent, Typed
<1> QED
  BY <1>3, <1>5, <1>6, ClipsKeep DEF Others

LEMMA BitwigKeeps == ASSUME IInv, Bitwig PROVE IInv'
<1> DEFINE command == Head(host)
           s == command.slot
           clip == CASE command.op = "clip" -> IF clips[s] = None THEN {} ELSE clips[s]
                     [] command.op = "note" ->
                            IF clips[s] = None THEN None ELSE clips[s] \cup {command.plan}
                     [] command.op = "delete" -> None
<1>1. /\ Typed /\ host # << >> /\ host' = Tail(host) /\ clips' = [clips EXCEPT ![s] = clip]
      /\ UNCHANGED <<ctl, link, wire, exec, events>>
  BY DEF IInv, Bitwig
<1>2. /\ host' \in Seq(Commands) /\ command \in Commands /\ command = host[1] /\ 1 \in DOMAIN host
      /\ \A i \in DOMAIN host' : i \in Nat /\ i + 1 \in DOMAIN host /\ host'[i] = host[i + 1]
  BY <1>1, TailFacts DEF Typed
<1>3. s \in Slots /\ command.op \in {"clip", "note", "delete"} /\ command.plan \in Plans \cup {None}
  BY <1>2 DEF Commands
<1>4. /\ clip \in Contents
      /\ \A p \in Plans : /\ clips[s] = None \/ p \notin clips[s]
                          /\ ~(command.op = "note" /\ command.plan = p)
                          => clip = None \/ p \notin clip
  <2> HIDE DEF command
  <2>1. clips[s] \in Contents
    BY <1>1, <1>3 DEF Typed
  <2>2. CASE command.op = "clip"
    BY <2>1, <2>2 DEF Contents
  <2>3. CASE command.op = "note"
    BY <1>3, <2>1, <2>3 DEF Contents
  <2>4. CASE command.op = "delete"
    BY <2>1, <2>4 DEF Contents
  <2> QED
    BY <1>3, <2>2, <2>3, <2>4
<1> HIDE DEF clip
<1>5. Typed'
  BY <1>1, <1>2, <1>3, <1>4 DEF Typed
<1>6. ASSUME NEW p \in Plans, NoteAbsent(p), HostExact(p), Clean(p)', NoteDue(p)'
      PROVE  clips'[Slot(p)] = None \/ p \notin clips'[Slot(p)]
  <2>1. Clean(p) /\ NoteDue(p)
    BY <1>1, <1>2, <1>6 DEF Clean, NoteDue, Slot
  <2>2. ~(command.op = "note" /\ command.plan = p)
    <3>1. SUFFICES ASSUME command.op = "note", command.plan = p
                   PROVE  FALSE
      OBVIOUS
    <3>2. Len(exec[p].wrote) = 2 /\ \A j \in DOMAIN host : IsNote(host[j], p) => j = 1
      BY <1>2, <1>6, <3>1 DEF HostExact
    <3>3. PICK i \in DOMAIN host' : IsNote(host'[i], p)
      BY <1>1, <1>6, <3>2 DEF NoteDue
    <3>4. i \in Nat /\ i + 1 = 1
      BY <1>2, <3>2, <3>3
    <3>5. i # 0
      BY <1>2, <3>3
    <3> QED
      BY <3>4, <3>5
  <2>3. clips[Slot(p)] = None \/ p \notin clips[Slot(p)]
    BY <1>6, <2>1 DEF NoteAbsent
  <2>4. clips' = [clips EXCEPT ![s] = clip] /\ clips \in [Slots -> Contents]
    BY <1>1 DEF Typed
  <2>5. Slot(p) \in Slots
    BY <1>1, <2>1 DEF Typed, Clean, Slot, Executions, Views, Bindings
  <2>6. CASE Slot(p) = s
    BY <1>3, <1>4, <2>2, <2>3, <2>4, <2>6
  <2>7. CASE Slot(p) # s
    BY <2>3, <2>4, <2>5, <2>7
  <2> QED
    BY <2>6, <2>7
<1>7. \A p \in Plans : NoteAbsent(p) /\ HostExact(p) => NoteAbsent(p)'
  BY <1>1, <1>6 DEF NoteAbsent, Slot
<1> QED
  BY <1>1, <1>5, <1>7, ClipsKeep DEF Others

-----------------------------------------------------------------------------
(* The controller handles a request.                                       *)

LEMMA AnsweredFacts ==
    ASSUME exec \in [Plans -> Executions], NEW request \in WireRequests, NEW c,
           NEW reply \in Replies, NEW answered, answered = Answered(request, c, reply)
    PROVE  /\ answered \in [Plans -> Executions]
           /\ \A q \in Plans \ {request.plan} : answered[q] = exec[q]
           /\ LET x == exec[request.plan]
                  y == answered[request.plan]
              IN  /\ y.pc = x.pc /\ y.base = x.base /\ y.step = x.step /\ y.call = x.call
                  /\ y.waiting = x.waiting /\ y.wrote = x.wrote /\ y.moved = x.moved
                  /\ \/ y.reply = x.reply
                     \/ y.reply = reply /\ x.waiting /\ x.call = request.call /\ x.reply = None
<1> DEFINE p == request.plan
           y == [exec[p] EXCEPT !.reply = reply]
<1>1. p \in Plans /\ exec[p] \in Executions
  BY DEF WireRequests
<1> HIDE DEF p
<1>2. /\ y \in Executions /\ y.reply = reply
      /\ y.pc = exec[p].pc /\ y.base = exec[p].base /\ y.step = exec[p].step
      /\ y.call = exec[p].call /\ y.waiting = exec[p].waiting /\ y.wrote = exec[p].wrote
      /\ y.moved = exec[p].moved
  BY <1>1 DEF Executions
<1>3. answered = IF exec[p].waiting /\ exec[p].call = request.call /\ exec[p].reply = None
                 THEN [exec EXCEPT ![p] = y] ELSE exec
  BY DEF Answered, p
<1> HIDE DEF y
<1>4. CASE exec[p].waiting /\ exec[p].call = request.call /\ exec[p].reply = None
  <2>1. answered = [exec EXCEPT ![p] = y]
    BY <1>3, <1>4
  <2>2. answered[p] = y /\ answered \in [Plans -> Executions]
        /\ \A q \in Plans \ {p} : answered[q] = exec[q]
    BY <1>1, <1>2, <2>1
  <2> QED
    BY <1>2, <1>4, <2>2 DEF p
<1>5. CASE ~(exec[p].waiting /\ exec[p].call = request.call /\ exec[p].reply = None)
  BY <1>3, <1>5
<1> QED
  BY <1>4, <1>5

(* A request that has no effect but a refusal. *)
LEMMA RefusalKeeps ==
    ASSUME IInv, wire # << >>, wire' = Tail(wire), Advances(ctl, ctl'),
           exec' = Answered(Head(wire), ctl, Failure), UNCHANGED <<clips, host, link, events>>
    PROVE  IInv'
<1>1. Typed /\ Head(wire) \in WireRequests /\ wire' \in Seq(WireRequests)
  BY TailFacts DEF IInv, Typed
<1>2. Failure \in Replies
  BY DEF Failure, Replies
<1>3. /\ exec' \in [Plans -> Executions]
      /\ \A p \in Plans : /\ Kept(p) /\ exec'[p].moved = exec[p].moved
                          /\ exec'[p].reply \in {exec[p].reply, Failure}
  <2>1. exec \in [Plans -> Executions]
    BY <1>1 DEF Typed
  <2> QED
    BY <1>1, <1>2, <2>1, AnsweredFacts DEF Kept
<1>4. Typed'
  BY <1>1, <1>3 DEF Typed, Advances
<1>5. ASSUME NEW p \in Plans
      PROVE  ByPlan(p)'
  <2>1. ByPlan(p) /\ Others(p)
    BY DEF IInv, Others
  <2> QED
    BY <1>1, <1>3, <2>1, Unconcerned
<1> QED
  BY <1>4, <1>5 DEF IInv

(* What an inspection answers: when it shows the plan's note alone, Bitwig *)
(* has nothing left to do for the plan.                                    *)
LEMMA AnswerKeeps ==
    ASSUME IInv, NEW request \in WireRequests, NEW p \in Plans, NEW view,
           wire # << >>, wire' = Tail(wire), request = Head(wire), p = request.plan,
           request.op = "inspect", ctl' = Refreshed(ctl), view = Inspection(ctl', clips),
           exec' = Answered(request, ctl', Done(view)), UNCHANGED <<clips, host, link, events>>
    PROVE  IInv'
<1>1. /\ Typed /\ wire' \in Seq(WireRequests)
      /\ request = wire[1] /\ 1 \in DOMAIN wire
  <2>1. Typed /\ wire \in Seq(WireRequests)
    BY DEF IInv, Typed
  <2> QED
    BY <2>1, TailFacts
<1>2. Advances(ctl, ctl') /\ ctl' \in Controllers
  BY <1>1, RefreshAdvances DEF Typed, Advances
<1>3. /\ view \in Views /\ view.binding = Binding(ctl')
      /\ view.notes = {p} => Target(ctl') \in Slots /\ clips[Target(ctl')] = {p}
  BY <1>1, <1>2, InspectionFacts DEF Typed
<1>4. Done(view) \in Replies /\ Done(view).view = view
  BY <1>3 DEF Done, Replies
<1>5. /\ exec' \in [Plans -> Executions]
      /\ \A q \in Plans \ {p} : exec'[q] = exec[q]
      /\ Kept(p) /\ exec'[p].moved = exec[p].moved
      /\ \/ exec'[p].reply = exec[p].reply
         \/ /\ exec'[p].reply = Done(view) /\ exec[p].waiting
            /\ exec[p].call = request.call /\ exec[p].reply = None
  <2>1. exec \in [Plans -> Executions]
    BY <1>1 DEF Typed
  <2> QED
    BY <1>4, <2>1, AnsweredFacts DEF Kept
<1>6. Typed'
  BY <1>1, <1>2, <1>5 DEF Typed
<1>7. ASSUME NEW q \in Plans, q # p \/ exec'[q].reply = exec[q].reply
      PROVE  ByPlan(q)'
  <2>1. /\ ByPlan(q) /\ Others(q) /\ Kept(q) /\ exec'[q].moved = exec[q].moved
        /\ exec'[q].reply = exec[q].reply
    BY <1>5, <1>7 DEF IInv, Others, Kept
  <2> QED
    BY <1>1, <1>2, <2>1, Unconcerned
<1>8. ASSUME exec'[p].reply # exec[p].reply
      PROVE  ByPlan(p)'
  <2>1. /\ exec'[p].reply = Done(view) /\ exec[p].waiting /\ exec[p].call = request.call
        /\ Kept(p) /\ exec'[p].moved = exec[p].moved
        /\ exec'[p].base = exec[p].base /\ exec'[p].wrote = exec[p].wrote
    BY <1>5, <1>8 DEF Kept
  <2>2. /\ Stale(p) /\ Progress(p) /\ WireExact(p) /\ HostExact(p)
        /\ NoteAbsent(p) /\ ReadExact(p) /\ WroteExact(p)
    BY <1>1 DEF IInv, ByPlan
  <2>3. exec[p].pc # "writing"
    BY <1>1, <2>1, <2>2 DEF WireExact
  <2>4. Stale(p)'
    BY <1>1, <1>2, <2>1, <2>2, StaleKept
  <2>5. Progress(p)'
    BY <2>1, <2>2, <2>3 DEF Progress, Kept, Running, Clean, Slot
  <2>6. WireExact(p)'
    BY <1>1, <2>1, <2>2, WireKept
  <2>7. HostExact(p)' /\ (NoteDue(p)' => NoteDue(p))
    BY <1>1, <2>1, <2>2, HostKept DEF Others
  <2>8. NoteAbsent(p)' /\ WroteExact(p)'
    BY <1>1, <2>1, <2>2, <2>7, NoteAbsentKept, WroteKept
  <2>9. ASSUME exec[p].pc = "reading", view.binding = exec[p].base.binding, view.notes = {p}
        PROVE  ~NoteDue(p)
    <3>1. Clean(p)
      BY <2>2, <2>9 DEF Progress
    <3>2. Slot(p) = Target(ctl')
      BY <1>3, <2>9 DEF Slot, Binding
    <3>3. clips[Slot(p)] = {p} /\ None # {p}
      BY <1>1, <1>3, <2>9, <3>2, ExecutionAssumption
    <3> QED
      BY <2>2, <3>1, <3>3 DEF NoteAbsent
  <2>10. exec[p].pc # "succeeded"
    BY <2>1, <2>2 DEF Progress, Running, Ended
  <2>11. ReadExact(p)'
    BY <1>4, <2>1, <2>7, <2>9, <2>10 DEF ReadExact, Kept
  <2> QED
    BY <2>4, <2>5, <2>6, <2>7, <2>8, <2>11 DEF ByPlan
<1> QED
  BY <1>6, <1>7, <1>8 DEF IInv

(* A write that is made: the binding is still current, so that its slot is *)
(* the target; it is the plan's next write and the only one on its way.    *)
LEMMA AcceptedKeeps ==
    ASSUME IInv, NEW request \in WireRequests, NEW p \in Plans, NEW slot, NEW answered,
           wire # << >>, wire' = Tail(wire), request = Head(wire), p = request.plan,
           request.op # "inspect", Advances(ctl, ctl'), ~Refused(ctl', request),
           slot = IF request.op = "note" THEN ctl'.cursor ELSE Target(ctl'),
           host' = Append(host, [op |-> request.op, slot |-> slot, plan |-> p]),
           answered = Answered(request, ctl', Done(None)),
           exec' = Wrote(answered, p, slot), UNCHANGED <<clips, link, events>>
    PROVE  IInv'
<1> DEFINE write == [slot |-> slot, moved |-> exec[p].moved]
           command == [op |-> request.op, slot |-> slot, plan |-> p]
           y == [answered[p] EXCEPT !.wrote = Append(@, write)]
<1>1. /\ Typed /\ wire' \in Seq(WireRequests) /\ wire \in Seq(WireRequests)
      /\ request = wire[1] /\ 1 \in DOMAIN wire
      /\ \A i \in DOMAIN wire' : i \in Nat /\ i + 1 \in DOMAIN wire /\ wire'[i] = wire[i + 1]
  <2>1. Typed /\ wire \in Seq(WireRequests)
    BY DEF IInv, Typed
  <2> QED
    BY <2>1, TailFacts
<1>2. /\ Stale(p) /\ Progress(p) /\ WireExact(p) /\ HostExact(p)
      /\ NoteAbsent(p) /\ ReadExact(p) /\ WroteExact(p)
  BY DEF IInv, ByPlan
(* The state of the plan. *)
<1>3. /\ exec[p].pc \in {"writing", "partial"} /\ exec[p].step \in 1 .. 2
      /\ Len(exec[p].wrote) = exec[p].step - 1
      /\ request.op = Requests[exec[p].step]
      /\ \A j \in DOMAIN wire : wire[j].plan = p /\ wire[j].op # "inspect" => 1 = j
  BY <1>1, <1>2 DEF WireExact
<1>4. Clean(p) /\ exec[p].base # None
  BY <1>2, <1>3 DEF Progress, Clean
<1>5. \/ exec[p].step = 1 /\ request.op = "clip"
      \/ exec[p].step = 2 /\ request.op = "note"
  <2>1. exec[p].step \in 1 .. 2 /\ request.op = Requests[exec[p].step]
    BY <1>3
  <2>2. exec[p].step = 1 \/ exec[p].step = 2
    BY <2>1
  <2>3. Requests[1] = "clip" /\ Requests[2] = "note"
    BY DEF Requests
  <2>4. exec[p].step = 1 => request.op = "clip"
    BY <2>1, <2>3
  <2>5. exec[p].step = 2 => request.op = "note"
    BY <2>1, <2>3
  <2> QED
    BY <2>2, <2>4, <2>5
(* The target. *)
<1>6. /\ Current(ctl', exec[p].base.binding) /\ ctl' \in Controllers
      /\ request.op = "note" => CursorMatches(ctl')
  BY DEF Refused, Advances, Writable
<1>7. slot = Target(ctl') /\ slot \in Slots /\ slot = Slot(p)
  <2>1. Target(ctl') # None /\ exec[p].base.binding = Binding(ctl')
    BY <1>6 DEF Current
  <2>2. slot = Target(ctl')
    BY <1>6 DEF CursorMatches
  <2> QED
    BY <1>6, <2>1, <2>2, TargetTyped DEF Binding, Slot
(* The execution, with the write. *)
<1>8. /\ answered \in [Plans -> Executions]
      /\ \A q \in Plans \ {p} : answered[q] = exec[q]
      /\ answered[p].pc = exec[p].pc /\ answered[p].base = exec[p].base
      /\ answered[p].step = exec[p].step /\ answered[p].call = exec[p].call
      /\ answered[p].waiting = exec[p].waiting /\ answered[p].wrote = exec[p].wrote
      /\ answered[p].moved = exec[p].moved
      /\ answered[p].reply \in {exec[p].reply, Done(None)}
  <2>1. exec \in [Plans -> Executions] /\ Done(None) \in Replies
    BY <1>1 DEF Typed, Done, Replies
  <2> QED
    BY <2>1, AnsweredFacts
<1>9. /\ exec[p] \in Executions /\ exec[p].wrote \in Seq(Writes) /\ write \in Writes
      /\ write.slot = slot /\ write.moved = exec[p].moved
  BY <1>1, <1>7 DEF Typed, Executions, Writes
<1> HIDE DEF write
<1>10. /\ y \in Executions /\ y.wrote = Append(exec[p].wrote, write)
       /\ y.pc = exec[p].pc /\ y.base = exec[p].base /\ y.step = exec[p].step
       /\ y.call = exec[p].call /\ y.waiting = exec[p].waiting /\ y.moved = exec[p].moved
       /\ y.reply \in {exec[p].reply, Done(None)}
  <2>1. Append(exec[p].wrote, write) \in Seq(Writes)
    BY <1>9, AppendFacts
  <2>2. answered[p] \in Executions /\ answered[p].wrote = exec[p].wrote
    BY <1>8
  <2>3. y = [answered[p] EXCEPT !.wrote = Append(exec[p].wrote, write)]
    BY <2>2
  <2> HIDE DEF y
  <2> QED
    BY <1>8, <2>1, <2>2, <2>3 DEF Executions
<1>11. exec' = [answered EXCEPT ![p] = y]
  BY DEF Wrote, y, write
<1> HIDE DEF y
<1>12. /\ exec'[p] = y /\ exec' \in [Plans -> Executions]
       /\ \A q \in Plans \ {p} : exec'[q] = exec[q]
  BY <1>8, <1>10, <1>11
<1>13. /\ Len(y.wrote) = exec[p].step /\ DOMAIN y.wrote = DOMAIN exec[p].wrote \cup {exec[p].step}
       /\ \A i \in DOMAIN exec[p].wrote : y.wrote[i] = exec[p].wrote[i]
       /\ y.wrote[exec[p].step] = write
  <2>1. exec[p].step = Len(exec[p].wrote) + 1
    BY <1>3
  <2> QED
    BY <1>9, <1>10, <2>1, AppendFacts
<1>14. /\ command \in Commands /\ command.plan = p /\ command.op = request.op /\ command.slot = slot
  BY <1>5, <1>7 DEF Commands
<1> HIDE DEF command
<1>15. /\ host \in Seq(Commands) /\ host' \in Seq(Commands)
       /\ DOMAIN host' = DOMAIN host \cup {Len(host) + 1}
       /\ DOMAIN host = 1 .. Len(host) /\ Len(host) \in Nat
       /\ \A i \in DOMAIN host : host'[i] = host[i]
       /\ host'[Len(host) + 1] = command
  BY <1>1, <1>14, AppendFacts DEF Typed, command
<1>16. Typed'
  BY <1>1, <1>6, <1>12, <1>15 DEF Typed
<1>17. ASSUME NEW q \in Plans \ {p}
       PROVE  ByPlan(q)'
  <2>1. ByPlan(q) /\ exec'[q] = exec[q] /\ Others(q)
    BY <1>12, <1>14 DEF IInv, Others, command
  <2> QED
    BY <1>1, <2>1, Unconcerned DEF Kept
(* The parts of the invariant. *)
<1>18. Stale(p)'
  BY <1>1, <1>2, <1>10, <1>12, StaleKept
<1>19. ~exec[p].moved
  <2>1. exec'[p].base.binding.instance = ctl'.instance /\ exec'[p].base # None
        /\ exec'[p].base.binding.generation = ctl'.generation
    BY <1>4, <1>6, <1>10, <1>12 DEF Current, Binding
  <2> QED
    BY <1>10, <1>12, <1>18, <2>1 DEF Stale
<1>20. Progress(p)'
  <2>1. /\ exec[p].pc # "idle" /\ (exec[p].waiting <=> Running(p))
        /\ Len(y.wrote) \in {exec[p].step - 1, exec[p].step}
    BY <1>2, <1>3, <1>13 DEF Progress
  <2> QED
    BY <1>3, <1>4, <1>10, <1>12, <1>13, <2>1 DEF Progress, Running, Clean, Slot
<1>21. WireExact(p)'
  <2>1. ASSUME NEW i \in DOMAIN wire', wire'[i].plan = p
        PROVE  /\ wire'[i].op = "inspect" /\ wire'[i].call <= exec[p].call
               /\ wire'[i].call = exec[p].call /\ exec[p].waiting =>
                     (wire'[i].op # "inspect" <=> exec[p].pc = "writing")
    <3>1. i \in Nat /\ i + 1 \in DOMAIN wire /\ wire'[i] = wire[i + 1]
      BY <1>1, <2>1
    <3>2. i # 0 /\ i + 1 # 1
      BY <1>1, <2>1, <3>1
    <3>3. wire'[i].op = "inspect"
      BY <1>3, <2>1, <3>1, <3>2
    <3>4. /\ wire'[i].call <= exec[p].call
          /\ wire'[i].call = exec[p].call /\ exec[p].waiting =>
                (wire'[i].op # "inspect" <=> exec[p].pc = "writing")
      BY <1>2, <2>1, <3>1 DEF WireExact
    <3> QED
      BY <3>3, <3>4
  <2> QED
    BY <1>10, <1>12, <2>1 DEF WireExact
<1>22. /\ exec[p].step = 1 => \A i \in DOMAIN host : host[i].plan # p
       /\ \A i \in DOMAIN host : ~IsNote(host[i], p)
  BY <1>2, <1>3 DEF HostExact, IsNote
<1>23. HostExact(p)' /\ (NoteDue(p)' => NoteDue(p))
  <2>1. NoteDue(p)
    BY <1>3 DEF NoteDue
  <2>2. ASSUME NEW i \in DOMAIN host', host'[i].plan = p
        PROVE  /\ host'[i].op \in {"clip", "note"} /\ host'[i].slot = Slot(p)
               /\ Len(y.wrote) > 0
               /\ host'[i].op = "note" =>
                     Len(y.wrote) = 2 /\ \A j \in DOMAIN host' : IsNote(host'[j], p) => i = j
               /\ host'[i].op = "clip" /\ Len(y.wrote) = 2 =>
                     \E j \in DOMAIN host' : j > i /\ IsNote(host'[j], p)
    <3>1. \A j \in DOMAIN host' : IsNote(host'[j], p) => j = Len(host) + 1 /\ command.op = "note"
      <4>1. SUFFICES ASSUME NEW j \in DOMAIN host', IsNote(host'[j], p)
                     PROVE  j = Len(host) + 1 /\ command.op = "note"
        OBVIOUS
      <4>2. j \notin DOMAIN host
        BY <1>15, <1>22, <4>1
      <4>3. j = Len(host) + 1
        BY <1>15, <4>2
      <4> QED
        BY <1>15, <4>1, <4>3 DEF IsNote
    <3>2. CASE i = Len(host) + 1
      <4>1. host'[i] = command
        BY <1>15, <3>2
      <4> QED
        BY <1>5, <1>7, <1>13, <1>14, <3>1, <3>2, <4>1 DEF IsNote
    <3>3. CASE i \in DOMAIN host
      <4>1. host'[i] = host[i] /\ exec[p].step = 2 /\ ~IsNote(host[i], p) /\ i < Len(host) + 1
        BY <1>5, <1>15, <1>22, <2>2, <3>3
      <4>2. host[i].op \in {"clip", "note"} /\ host[i].slot = Slot(p)
        BY <1>2, <2>2, <3>3, <4>1 DEF HostExact
      <4>3. IsNote(host'[Len(host) + 1], p) /\ Len(host) + 1 \in DOMAIN host'
        BY <1>5, <1>14, <1>15, <4>1 DEF IsNote
      <4>4. host[i].op # "note"
        BY <2>2, <4>1 DEF IsNote
      <4> QED
        BY <1>13, <1>15, <3>3, <4>1, <4>2, <4>3, <4>4
    <3> QED
      BY <1>15, <3>2, <3>3
  <2>3. Slot(p)' = Slot(p)
    BY <1>10, <1>12 DEF Slot
  <2> QED
    BY <1>12, <2>1, <2>2, <2>3 DEF HostExact, IsNote
<1>24. NoteAbsent(p)'
  BY <1>2, <1>10, <1>12, <1>23, NoteAbsentKept
<1>25. ReadExact(p)'
  BY <1>3, <1>10, <1>12 DEF ReadExact
<1>26. WroteExact(p)'
  <2>1. /\ exec'[p].wrote = y.wrote /\ Slot(p)' = Slot(p)
        /\ write.slot = Slot(p) /\ ~write.moved
    BY <1>7, <1>9, <1>10, <1>12, <1>19 DEF Slot
  <2>2. ASSUME NEW i \in DOMAIN y.wrote
        PROVE  y.wrote[i].slot = Slot(p) /\ ~y.wrote[i].moved
    <3>1. CASE i \in DOMAIN exec[p].wrote
      BY <1>2, <1>13, <3>1 DEF WroteExact
    <3>2. CASE i = exec[p].step
      BY <1>13, <2>1, <3>2
    <3> QED
      BY <1>13, <3>1, <3>2
  <2> QED
    BY <2>1, <2>2 DEF WroteExact
<1> QED
  BY <1>16, <1>17, <1>18, <1>20, <1>21, <1>23, <1>24, <1>25, <1>26 DEF IInv, ByPlan
LEMMA RequestKeeps == ASSUME IInv, HandleRequest PROVE IInv'
<1>1. /\ wire # << >> /\ wire' = Tail(wire) /\ UNCHANGED <<clips, link, events>>
      /\ HandleInspect(Head(wire)) \/ HandleWrite(Head(wire))
  BY DEF HandleRequest
<1>2. PICK request \in WireRequests : request = Head(wire)
  BY <1>1, TailFacts DEF IInv, Typed
<1>3. PICK p \in Plans : p = request.plan
  BY <1>2 DEF WireRequests
<1>4. ctl \in Controllers
  BY DEF IInv, Typed
<1>5. CASE HandleInspect(request) /\ Settled(ctl)
  <2>1. PICK view : view = Inspection(ctl', clips)
    OBVIOUS
  <2>2. /\ request.op = "inspect" /\ host' = host /\ ctl' = Refreshed(ctl)
        /\ exec' = Answered(request, ctl', Done(view))
    BY <1>5, <2>1 DEF HandleInspect
  <2> QED
    BY <1>1, <1>2, <1>3, <2>1, <2>2, AnswerKeeps
<1>6. CASE HandleInspect(request) /\ ~Settled(ctl)
  <2>1. host' = host /\ ctl' = ctl /\ exec' = Answered(request, ctl, Failure)
    BY <1>6 DEF HandleInspect
  <2> QED
    BY <1>1, <1>2, <1>4, <2>1, Standstill, RefusalKeeps
<1>7. CASE HandleWrite(request)
  <2>1. /\ request.op # "inspect"
        /\ ctl' = IF Settled(ctl) THEN Refreshed(ctl) ELSE ctl
    BY <1>7 DEF HandleWrite
  <2>2. Advances(ctl, ctl')
    BY <1>4, <2>1, Standstill, RefreshAdvances
  <2>3. CASE Refused(ctl', request)
    <3>1. host' = host /\ exec' = Answered(request, ctl', Failure)
      BY <1>7, <2>1, <2>3 DEF HandleWrite
    <3>2. Answered(request, ctl', Failure) = Answered(request, ctl, Failure)
      BY DEF Answered
    <3> QED
      BY <1>1, <1>2, <2>2, <3>1, <3>2, RefusalKeeps
  <2>4. CASE ~Refused(ctl', request)
    <3>1. PICK slot : slot = IF request.op = "note" THEN ctl'.cursor ELSE Target(ctl')
      OBVIOUS
    <3>2. PICK answered : answered = Answered(request, ctl', Done(None))
      OBVIOUS
    <3>3. /\ host' = Append(host, [op |-> request.op, slot |-> slot, plan |-> p])
          /\ exec' = Wrote(answered, p, slot)
      BY <1>3, <1>7, <2>1, <2>4, <3>1, <3>2 DEF HandleWrite
    <3> QED
      BY <1>1, <1>2, <1>3, <2>1, <2>2, <2>4, <3>1, <3>2, <3>3, AcceptedKeeps
  <2> QED
    BY <2>3, <2>4
<1> QED
  BY <1>1, <1>2, <1>5, <1>6, <1>7

-----------------------------------------------------------------------------
(* The invariant of every specification. *)

LEMMA InitHolds == ASSUME Init PROVE IInv
<1> DEFINE s == CHOOSE s \in Slots : TRUE
<1>1. /\ ctl = NewController(0, {s}, s) /\ clips \in [Slots -> {None, Plans}]
      /\ host = << >> /\ link = TRUE /\ wire = << >> /\ events = 0
      /\ exec = [p \in Plans |-> NewExecution]
  BY DEF Init
<1>2. s \in Slots
  BY ExecutionAssumption
<1> HIDE DEF s
<1>3. ctl \in Controllers
  BY <1>1, <1>2 DEF Controllers, NewController
<1>4. NewExecution \in Executions
  <2>1. << >> \in Seq(Writes) /\ None \in Replies
    BY DEF Replies
  <2> QED
    BY <2>1 DEF NewExecution, Executions, Places
<1>5. Typed
  <2>1. << >> \in Seq(Commands) /\ << >> \in Seq(WireRequests) /\ {None, Plans} \subseteq Contents
    BY DEF Contents
  <2> QED
    BY <1>1, <1>3, <1>4, <2>1 DEF Typed
<1>6. ASSUME NEW p \in Plans
      PROVE  ByPlan(p)
  <2>1. exec[p] = NewExecution
    BY <1>1
  <2>2. /\ exec[p].pc = "idle" /\ exec[p].base = None /\ exec[p].step = 1 /\ exec[p].call = 0
        /\ exec[p].waiting = FALSE /\ exec[p].reply = None /\ exec[p].wrote = << >>
    BY <2>1 DEF NewExecution
  <2>3. Progress(p)
    BY <2>2 DEF Progress, Running, Ended
  <2>4. WireExact(p) /\ HostExact(p)
    BY <1>1 DEF WireExact, HostExact
  <2>5. Stale(p) /\ NoteAbsent(p) /\ ReadExact(p) /\ WroteExact(p)
    BY <2>2 DEF Stale, NoteAbsent, Clean, ReadExact, WroteExact
  <2> QED
    BY <2>3, <2>4, <2>5 DEF ByPlan
<1> QED
  BY <1>5, <1>6 DEF IInv

LEMMA StutterKeeps == ASSUME IInv, UNCHANGED vars PROVE IInv'
<1>1. /\ clips' = clips /\ host' = host /\ ctl' = ctl /\ link' = link /\ wire' = wire
      /\ exec' = exec /\ events' = events /\ Typed
  BY DEF vars, IInv
<1>2. Typed' /\ Advances(ctl, ctl')
  BY <1>1, Standstill DEF Typed
<1> QED
  BY <1>1, <1>2, WorldKeeps DEF Kept, Others

LEMMA NextKeeps == ASSUME IInv, Next PROVE IInv'
BY ExecuteKeeps, ReplyKeeps, TimeoutKeeps, PlanKeeps, DisconnectKeeps, ReloadKeeps, ConnectKeeps,
   SelectionKeeps, ToolsKeep, BarrierKeeps, EditKeeps, BitwigKeeps, RequestKeeps DEF Next

(* Every state that the program reaches is one of the invariant.           *)
THEOREM Invariance == Spec => []IInv
<1>1. Init => IInv
  BY InitHolds
<1>2. IInv /\ [Next]_vars => IInv'
  BY NextKeeps, StutterKeeps
<1> QED
  BY <1>1, <1>2, PTL DEF Spec

(* Every running execution has one call outstanding, the wire carries      *)
(* nothing that was not asked for, and no binding is of a later generation *)
(* than the controller's.                                                  *)
THEOREM TypeCorrect == Spec => []TypeOK
<1>1. IInv => TypeOK
  <2>1. SUFFICES ASSUME IInv PROVE TypeOK
    OBVIOUS
  <2>2. clips \in [Slots -> {None} \cup SUBSET (Plans \cup {None})] /\ ctl.gui \in 0 .. 2
    BY <2>1 DEF IInv, Typed, Contents, Controllers
  <2>3. ASSUME NEW p \in Plans
        PROVE  /\ exec[p].waiting <=> Running(p)
               /\ exec[p].pc = "idle" <=> exec[p].base = None
               /\ exec[p].base # None /\ exec[p].base.binding.instance = ctl.instance
                     => exec[p].base.binding.generation <= ctl.generation
    BY <2>1 DEF IInv, ByPlan, Progress, Stale
  <2>4. ASSUME NEW i \in DOMAIN wire
        PROVE  wire[i].call <= exec[wire[i].plan].call
    <3>1. wire \in Seq(WireRequests)
      BY <2>1 DEF IInv, Typed
    <3>2. wire[i] \in WireRequests
      BY <3>1
    <3>3. wire[i].plan \in Plans
      BY <3>2 DEF WireRequests
    <3> QED
      BY <2>1, <3>3 DEF IInv, ByPlan, WireExact
  <2> QED
    BY <2>2, <2>3, <2>4 DEF TypeOK
<1> QED
  BY <1>1, Invariance, PTL

(* A plan is only ever written into the slot it was confirmed for, and     *)
(* only as long as nothing happened to that slot as the target: what       *)
(* requireCurrentTarget promises to the adapter.                           *)
THEOREM WritesTheConfirmedTarget == Spec => []ConfirmedTargetOnly
<1>1. IInv => ConfirmedTargetOnly
  BY DEF IInv, ByPlan, WroteExact, ConfirmedTargetOnly
<1> QED
  BY <1>1, Invariance, PTL

LEMMA HonestReports == ASSUME IInv PROVE ReportsHonest
<1>1. ASSUME NEW p \in Plans
      PROVE  /\ exec[p].pc = "failed" => exec[p].wrote = << >> /\ OnWire(p) = {}
             /\ exec[p].pc = "succeeded" =>
                   /\ Len(exec[p].wrote) = Len(Requests) /\ OnWire(p) = {}
                   /\ \A i \in DOMAIN host : host[i].plan # p
             /\ Len(exec[p].wrote) <= exec[p].step
  <2>1. /\ Progress(p) /\ WireExact(p) /\ HostExact(p) /\ ReadExact(p)
        /\ exec[p].pc \in Places /\ exec[p].step \in 1 .. 3
    BY DEF IInv, ByPlan, Typed, Executions
  <2>2. exec[p].pc \notin {"writing", "partial"} => OnWire(p) = {}
    BY <2>1 DEF WireExact, OnWire
  <2>3. CASE exec[p].pc = "succeeded"
    <3>1. exec[p].step = 3 /\ Len(exec[p].wrote) = 2 /\ Len(Requests) = 2
      BY <2>1, <2>3 DEF Progress, Requests
    <3>2. \A i \in DOMAIN host : ~IsNote(host[i], p)
      BY <2>1, <2>3 DEF ReadExact, NoteDue
    <3>3. \A i \in DOMAIN host : host[i].plan # p
      BY <2>1, <3>1, <3>2 DEF HostExact, IsNote
    <3> QED
      BY <2>2, <2>3, <3>1, <3>3
  <2>4. CASE exec[p].pc \in {"idle", "planned", "observing", "verifying", "failed"}
    <3>1. exec[p].wrote = << >> /\ exec[p].step = 1
      BY <2>1, <2>4 DEF Progress
    <3> QED
      BY <2>2, <2>4, <3>1
  <2>5. CASE exec[p].pc \in {"writing", "awaiting", "reading", "partial"}
    <3>1. exec[p].pc \in {"writing", "partial"} => Len(exec[p].wrote) \in {exec[p].step - 1, exec[p].step}
      BY <2>1 DEF Progress
    <3>2. exec[p].pc = "awaiting" => exec[p].step = 1 /\ Len(exec[p].wrote) = 1
      BY <2>1 DEF Progress
    <3>3. exec[p].pc = "reading" => exec[p].step = 3 /\ Len(exec[p].wrote) = 2
      BY <2>1 DEF Progress
    <3>4. Len(exec[p].wrote) <= exec[p].step
      <4>1. CASE exec[p].pc \in {"writing", "partial"}
        BY <2>1, <3>1, <4>1
      <4>2. CASE exec[p].pc = "awaiting"
        <5>1. exec[p].step = 1 /\ Len(exec[p].wrote) = 1
          BY <3>2, <4>2
        <5> QED
          BY <5>1
      <4>3. CASE exec[p].pc = "reading"
        <5>1. exec[p].step = 3 /\ Len(exec[p].wrote) = 2
          BY <3>3, <4>3
        <5> QED
          BY <5>1
      <4> QED
        BY <2>5, <4>1, <4>2, <4>3
    <3> QED
      BY <2>2, <2>5, <3>4, <2>1
  <2> QED
    BY <2>1, <2>3, <2>4, <2>5 DEF Places, Ended
<1> QED
  BY <1>1 DEF ReportsHonest

(* What changes the reply to a plan: its own step clears it, a broken      *)
(* connection fails it, the controller answers.                            *)
LEMMA RepliesOf ==
    ASSUME IInv, Next, NEW p \in Plans, exec[p].pc = "reading",
           exec'[p].reply \notin {exec[p].reply, None, Failure}
    PROVE  HandleRequest
<1>1. exec \in [Plans -> Executions]
  BY DEF IInv, Typed
<1>2. ASSUME NEW q \in Plans, Plan(q) \/ Execute(q) \/ ReplyArrives(q) \/ TimesOut(q)
      PROVE  FALSE
  <2>1. CASE Plan(q)
    <3>1. q # p
      BY <2>1 DEF Plan
    <3>2. exec'[p] = exec[p]
      BY <1>1, <2>1, <3>1 DEF Plan
    <3> QED
      BY <3>2
  <2>2. CASE Going(q)
    BY <2>2 DEF Going, Same
  <2> QED
    BY <1>2, <2>1, <2>2, ExecuteKeeps, ReplyKeeps, TimeoutKeeps
<1>3. exec' # exec /\ exec' # Moved /\ exec' # Unanswered
  BY <1>1, MovedFacts, UnansweredFacts
<1>4. ~Reload
  <2>1. SUFFICES ASSUME Reload PROVE FALSE
    OBVIOUS
  <2> DEFINE x == Unanswered[p]
  <2>2. x \in Executions /\ x.reply \in {exec[p].reply, Failure}
    <3>1. x = IF exec[p].waiting THEN [exec[p] EXCEPT !.reply = Failure] ELSE exec[p]
      BY DEF Unanswered
    <3>2. exec[p] \in Executions /\ Failure \in Replies
      BY <1>1 DEF Failure, Replies
    <3> QED
      BY <3>1, <3>2 DEF Executions
  <2>3. exec'[p] = [x EXCEPT !.moved = TRUE]
    BY <2>1 DEF Reload
  <2> HIDE DEF x
  <2>4. exec'[p].reply = x.reply
    BY <2>2, <2>3 DEF Executions
  <2> QED
    BY <2>2, <2>4
<1>5. ~Disconnect /\ ~Connect /\ ~Navigate /\ ~GlobalUi /\ ~Bitwig /\ ~BarrierNotices /\ ~Flush
  BY <1>3 DEF Disconnect, Connect, Navigate, GlobalUi, Bitwig, BarrierNotices, Flush
<1>6. \A s \in Slots : ~SlotSelected(s) /\ ~CursorMoves(s) /\ ~PlayerEdits(s) /\ ~Construct(s)
  BY <1>3 DEF SlotSelected, CursorMoves, Callback, PlayerEdits, Construct
<1> QED
  BY <1>2, <1>4, <1>5, <1>6 DEF Next

LEMMA ExactClip ==
    ASSUME IInv, HandleRequest, NEW p \in Plans, exec[p].pc = "reading",
           exec'[p].reply \notin {exec[p].reply, None, Failure},
           exec'[p].reply.view.binding = exec[p].base.binding, exec'[p].reply.view.notes = {p}
    PROVE  clips[Slot(p)] = {p}
<1>1. /\ wire # << >>
      /\ HandleInspect(Head(wire)) \/ HandleWrite(Head(wire))
      /\ Typed /\ WireExact(p) /\ exec \in [Plans -> Executions] /\ ctl \in Controllers
  BY DEF HandleRequest, IInv, Typed, ByPlan
<1>2. PICK request \in WireRequests : request = Head(wire) /\ request = wire[1] /\ 1 \in DOMAIN wire
  <2>1. wire \in Seq(WireRequests) /\ wire # << >>
    BY <1>1 DEF Typed
  <2>2. Head(wire) \in WireRequests /\ Head(wire) = wire[1] /\ 1 \in DOMAIN wire
    BY <2>1, TailFacts
  <2> QED
    BY <2>2
<1>3. {None, Failure} \subseteq Replies /\ Done(None) \in Replies
  BY DEF Failure, Replies, Done
<1>4. ASSUME NEW reply \in Replies, NEW c, exec' = Answered(request, c, reply)
      PROVE  /\ exec'[p].reply = reply /\ request.plan = p
             /\ exec[p].waiting /\ exec[p].call = request.call
  BY <1>1, <1>4, AnsweredFacts
<1>5. CASE HandleInspect(request)
  <2> DEFINE view == Inspection(ctl', clips)
  <2>1. CASE Settled(ctl)
    <3>1. ctl' \in Controllers
      BY <1>1, <1>5, <2>1, RefreshedFacts DEF HandleInspect
    <3>2. /\ view \in Views /\ view.binding = Binding(ctl')
          /\ view.notes = {p} => clips[Target(ctl')] = {p}
      BY <1>1, <3>1, InspectionFacts DEF Typed
    <3>3. exec' = Answered(request, ctl', Done(view))
      BY <1>5, <2>1 DEF HandleInspect
    <3> HIDE DEF view
    <3>4. Done(view) \in Replies /\ Done(view).view = view
      BY <3>2 DEF Done, Replies
    <3>5. exec'[p].reply = Done(view)
      BY <1>4, <3>3, <3>4
    <3>6. view.notes = {p} /\ Slot(p) = Target(ctl')
      BY <3>2, <3>4, <3>5 DEF Slot, Binding
    <3> QED
      BY <3>2, <3>6
  <2>2. CASE ~Settled(ctl)
    <3>1. exec' = Answered(request, ctl, Failure)
      BY <1>5, <2>2 DEF HandleInspect
    <3> QED
      BY <1>3, <1>4, <3>1
  <2> QED
    BY <2>1, <2>2
<1>6. CASE HandleWrite(request)
  <2>1. request.op # "inspect"
    BY <1>6 DEF HandleWrite
  <2>2. ~(request.plan = p /\ exec[p].waiting /\ exec[p].call = request.call)
    BY <1>1, <1>2, <2>1 DEF WireExact
  <2>3. ~(\E c : exec' = Answered(request, c, Failure))
    BY <1>3, <1>4, <2>2
  <2>4. PICK c, slot : exec' = Wrote(Answered(request, c, Done(None)), request.plan, slot)
    BY <1>6, <2>3 DEF HandleWrite
  <2>5. PICK answered : answered = Answered(request, c, Done(None))
    OBVIOUS
  <2>6. /\ answered \in [Plans -> Executions]
        /\ answered[p].reply = exec[p].reply
    BY <1>1, <1>3, <2>2, <2>5, AnsweredFacts
  <2> DEFINE wrote == Append(answered[p].wrote, [slot |-> slot, moved |-> exec[p].moved])
  <2>7. exec'[p] = answered[p] \/ exec'[p] = [answered[p] EXCEPT !.wrote = wrote]
    BY <2>4, <2>5, <2>6 DEF Wrote
  <2> HIDE DEF wrote
  <2>8. exec'[p].reply = answered[p].reply
    BY <2>6, <2>7 DEF Executions
  <2> QED
    BY <2>6, <2>8
<1> QED
  BY <1>1, <1>2, <1>5, <1>6

(* A report can be relied on, and a plan succeeds only when the readback   *)
(* found its note and no other in its slot, whoever else wrote there:      *)
(* #executeOnce and compareReadback.                                       *)
THEOREM VerdictsAreSound == Spec => VerdictSound
<1>1. IInv => ReportsHonest
  BY HonestReports
<1>2. ASSUME IInv, [Next]_vars
      PROVE  [ \A p \in Plans : LET reply == exec'[p].reply IN
                /\ exec[p].pc = "reading" /\ reply # exec[p].reply /\ reply \notin {None, Failure}
                /\ reply.view.binding = exec[p].base.binding /\ reply.view.notes = {p}
                => clips[Slot(p)] = {p} ]_vars
  BY <1>2, RepliesOf, ExactClip
<1> QED
  BY <1>1, <1>2, Invariance, PTL DEF Spec, VerdictSound, SucceedsOnExactClip
=============================================================================

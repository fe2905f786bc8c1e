----------------------------- MODULE ZoneGates -----------------------------
(***************************************************************************)
(* The two gates of a zone: opened per car, closed behind it, held by      *)
(* staff or for a car that must not leave, broken and repaired; and the    *)
(* zone maintenance that takes both gates out of service together.         *)
(*                                                                         *)
(* Gates are operated, and fail, while other things go on: a leg, a        *)
(* release and a closing sweep wait for the simulator's answer, and a leg  *)
(* and a release for the gate's own report.                                *)
(*                                                                         *)
(* Abstracted: the other zones (they share no gate with this one) and the  *)
(* gates outside zones; the predictor, which may find any sound gate due;  *)
(* the count of a task's attempts, which may end at any of them.  Car      *)
(* webhooks are handled at once (module Bays has their order), and so are  *)
(* the answers to staff, to holds, to repair commands and to the close     *)
(* that follows a repair.  Any command may fail, once in a behaviour, be   *)
(* it not done or done with its answer lost ("lost").  Any other answer    *)
(* comes before the movement or the repair it announces ends.  One sweep   *)
(* runs at a time, and what a handler does after the sweep it awaits is    *)
(* done as the sweep begins.  The way out round a blocked gate is free,    *)
(* and there is no sync.                                                   *)
(***************************************************************************)
EXTENDS Naturals, Sequences, FiniteSets

CONSTANTS
  Cars,      \* cars, numbered as they are let in, each for one visit
  Troubles   \* bound: the sets of Rare events that happen in one behaviour, once each

Gates == {"entry", "exit"}
Rare == {"break", "stuck", "due", "staff", "shut", "suspect", "lost", "slow", "neglect",
         "behind", "crowd"}

ASSUME GatesAssumption == Cars \subseteq Nat /\ Troubles \subseteq SUBSET Rare

VARIABLES
  \* The simulator:
  door,       \* door[g]: where gate g is
  health,     \* health[g]: "fine", "broken", "inRepair", or "stuck" in repair for good
  reports,    \* reports[g]: webhooks about gate g, oldest first
  going,      \* cars that have a route through the gate in front of them
  \* The dispatcher:
  gate,       \* state.barriers
  work,       \* pending_repairs, zone_maintenance, stuck_repairs, maintenance_queue
  car,        \* where the sessions are
  released,   \* sessions released: told to leave
  leg,        \* leg[p]: the task that gets p in
  rel,        \* rel[p]: the one that lets p out
  holding,    \* _holding_gate, cars the entry gate was opened for
  sweep,      \* _close_idle_gates under way
  sweepDue,   \* another is to begin
  used        \* the Rare events that have happened

simulator == <<door, health, reports, going>>
traffic == <<car, released, leg, rel, holding>>
sweeping == <<sweep, sweepDue>>
vars == <<door, health, reports, going, gate, work, car, released,
          leg, rel, holding, sweep, sweepDue, used>>

Positions == {"Closed", "Opening", "Open", "Closing"}
\* Waiting for the answer to an open command, or for the gate's report.
Steps == {"none", "start", "asked", "waits"}
Barrier == [pos : Positions, broken : BOOLEAN, maint : BOOLEAN,
            open : BOOLEAN,    \* operator_open
            shut : BOOLEAN,    \* operator_override
            worn : BOOLEAN,    \* opens_since_repair is not below GATE_REPAIR_MIN_OPENS
            held : SUBSET Cars]
Work == [pending : SUBSET Gates, jobs : [Gates -> Nat], stuck : SUBSET Gates,
         on : BOOLEAN, todo : SUBSET Gates, reopened : BOOLEAN]

TypeOK ==
  /\ door \in [Gates -> Positions]
  /\ health \in [Gates -> {"fine", "broken", "inRepair", "stuck"}]
  /\ reports \in [Gates -> Seq({"Open", "Closed", "broken", "fixed"})]
  /\ gate \in [Gates -> Barrier] /\ work \in Work
  /\ car \in [Cars -> {"away", "entry", "driving", "parked", "paid", "out"}]
  /\ released \subseteq Cars /\ going \subseteq Cars /\ holding \subseteq Cars
  /\ leg \in [Cars -> Steps] /\ rel \in [Cars -> Steps]
  /\ sweep \in [busy : SUBSET Gates, left : SUBSET Gates, now : Gates \cup {"none", "lost"}]
  /\ sweepDue \in BOOLEAN
  /\ used \subseteq Rare

Quiet == [busy |-> {}, left |-> {}, now |-> "none"]
Init ==
  /\ door = [g \in Gates |-> "Closed"] /\ health = [g \in Gates |-> "fine"]
  /\ reports = [g \in Gates |-> <<>>] /\ going = {}
  /\ gate = [g \in Gates |-> [pos |-> "Closed", broken |-> FALSE, maint |-> FALSE,
                              open |-> FALSE, shut |-> FALSE, worn |-> FALSE, held |-> {}]]
  /\ work = [pending |-> {}, jobs |-> [g \in Gates |-> 0], stuck |-> {},
             on |-> FALSE, todo |-> {}, reopened |-> FALSE]
  /\ car = [p \in Cars |-> "away"] /\ released = {}
  /\ leg = [p \in Cars |-> "none"] /\ rel = [p \in Cars |-> "none"] /\ holding = {}
  /\ sweep = Quiet /\ sweepDue = FALSE
  /\ used = {}

\* A step with the Rare events ks.
Costs(ks) ==
  /\ used' = used \cup ks /\ ks \cap used = {}
  /\ \E t \in Troubles : used' \subseteq t

-----------------------------------------------------------------------------
(* The simulator (external).                                               *)

Outside == UNCHANGED <<gate, work, car, released, leg, rel, holding,
                       sweep, sweepDue>>
\* A report that comes before the one ahead of it was taken is a Rare event.
Says(g, what, ks) ==
  /\ reports' = [reports EXCEPT ![g] = Append(@, what)]
  /\ Costs(IF reports[g] = <<>> THEN ks ELSE ks \cup {"behind"})

\* A gate that works obeys; operating another is fined and does nothing.
Obeyed(d, g, movement) ==
  [d EXCEPT ![g] = IF health[g] # "fine" THEN @
                   ELSE IF movement = "Opening" /\ @ \in {"Closed", "Closing"} THEN "Opening"
                   ELSE IF movement = "Closing" /\ @ \in {"Open", "Opening"} THEN "Closing"
                   ELSE @]

\* Some answer to a command for gate g is still on its way.
Unanswered(g) ==
  \/ sweep.now = g
  \/ g = "entry" /\ \E p \in Cars : leg[p] = "asked"
  \/ g = "exit" /\ \E p \in Cars : rel[p] = "asked"

Move(g) ==
  /\ health[g] = "fine" /\ ~Unanswered(g)
  /\ door[g] \in {"Opening", "Closing"}
  /\ LET to == IF door[g] = "Opening" THEN "Open" ELSE "Closed"
     IN  door' = [door EXCEPT ![g] = to] /\ Says(g, to, {})
  /\ Outside /\ UNCHANGED <<health, going>>

Break(g) ==
  /\ health[g] = "fine"
  /\ health' = [health EXCEPT ![g] = "broken"] /\ Says(g, "broken", {"break"})
  /\ Outside /\ UNCHANGED <<door, going>>

\* "The simulator does not always report the gate's position after a repair."
Mend(g) ==
  /\ health[g] = "inRepair"
  /\ health' = [health EXCEPT ![g] = "fine"] /\ Says(g, "fixed", {})
  /\ \E d \in {"Open", "Closed"} : door' = [door EXCEPT ![g] = d]
  /\ Outside /\ UNCHANGED going

\* Accepted, and never finished.
Jam(g) ==
  /\ health[g] = "inRepair" /\ Costs({"stuck"})
  /\ health' = [health EXCEPT ![g] = "stuck"]
  /\ Outside /\ UNCHANGED <<door, reports, going>>

\* POST cars/{plate}/goto answers 201, but the route is planned at once and a
\* gate that is not open is a wall.
Routed(p, g) ==
  going' = IF door[g] = "Open" /\ (g = "entry" => car[p] = "entry") THEN going \cup {p} ELSE going

-----------------------------------------------------------------------------
(* _gate_usable, _gates_in_use, _zone_inbound_clear; and act.              *)

\* update_barrier_state, of the gate b: opening it wears it.
At(b, position) ==
  [b EXCEPT !.pos = position,
            !.worn = @ \/ position = "Opening"
                       \/ (position = "Open" /\ b.pos \in {"Closed", "Closing"})]
Moved(g, position) == gate' = [gate EXCEPT ![g] = At(gate[g], position)]

\* A command to gate g that is obeyed; or one that fails: the simulator may have done it.
Sends(g, movement) == door' = Obeyed(door, g, movement) /\ Costs({})
Loses(g, movement) == door' \in {door, Obeyed(door, g, movement)} /\ Costs({"lost"})

\* Gate g, which is b now, is told to move if it must be; the answer is part of the
\* step.  A command that fails changes nothing else, and is not repeated.
Tells(g, b, must, movement, ks) ==
  \/ /\ ~must /\ ks = {}
     /\ gate' = [gate EXCEPT ![g] = b] /\ UNCHANGED door
  \/ /\ must /\ ks = {}
     /\ gate' = [gate EXCEPT ![g] = At(b, movement)]
     /\ door' = Obeyed(door, g, movement)
  \/ /\ must /\ ks = {"lost"}
     /\ gate' = [gate EXCEPT ![g] = b]
     /\ door' \in {door, Obeyed(door, g, movement)}
Outcomes == {{}, {"lost"}}

Staffed(b) == b.open \/ b.shut
UsableBut(b, pending) == ~(b.shut \/ b.held # {} \/ b.broken \/ b.maint \/ pending)
Usable(g) == UsableBut(gate[g], g \in work.pending)
Inbound(p) == car[p] = "entry"
InUse ==
  (IF holding # {} \/ \E p \in Cars : Inbound(p) THEN {"entry"} ELSE {})
    \cup (IF \E p \in Cars : car[p] = "paid" THEN {"exit"} ELSE {})
InboundClear == holding = {} /\ \A p \in Cars : car[p] \notin {"entry", "driving"}

-----------------------------------------------------------------------------
(* Zone maintenance, as functions of the record w that work is.            *)

\* _queue_repair, with via_zone or of broken gates, of the gates gs.
Queued(w, gs) ==
  LET new == {g \in gs : /\ g \notin w.pending /\ ~gate'[g].maint
                         /\ gate'[g].broken \/ ~Staffed(gate'[g])}
  IN  [w EXCEPT !.pending = @ \cup new,
               !.jobs = [g \in Gates |-> IF g \in new THEN @[g] + 1 ELSE @[g]]]

\* _start_zone_maintenance.
Started(w) == IF w.on THEN w ELSE [w EXCEPT !.on = TRUE, !.todo = Gates, !.reopened = FALSE]
\* Nothing left to do ends it.
Ended(w) == IF w.todo = {} THEN [w EXCEPT !.on = FALSE, !.reopened = FALSE] ELSE w
Reopened(w) == [w EXCEPT !.on = FALSE, !.todo = {}, !.reopened = FALSE]

\* _mark_repair_stuck, of the gates gs.
\* Deliberately wrong: the zone goes on waiting for them.
GivenUpQuietly(w, gs) == [w EXCEPT !.stuck = @ \cup gs, !.pending = @ \ gs]
GivenUp(w, gs) ==
  IF gs = {} THEN w
  ELSE Ended([w EXCEPT !.stuck = @ \cup gs, !.pending = @ \ gs, !.todo = @ \ gs])

\* _queue_repair of those of the gates gs that are broken: their zone closes.
WithBroken(w, gs) ==
  LET broken == {g \in gs : gate'[g].broken /\ g \notin w.pending /\ ~gate'[g].maint}
  IN  IF broken = {} THEN w ELSE Queued(Started(w), broken)

\* The gates a zone in maintenance may have repaired now: the entry once no car is
\* still driving in, the exit unless a car is let out through it.
Ready(w) ==
  {g \in w.todo : IF g = "entry" THEN InboundClear' ELSE g \notin InUse'}
\* _advance_zone_maintenance queues them, unless staff hold a gate ...
\* Deliberately wrong: a gate is taken out of service with cars on their way through it.
AdvancedHasty(w) ==
  IF ~w.on THEN w
  ELSE IF \E g \in Gates : Staffed(gate'[g]) THEN Reopened(w) ELSE Queued(w, w.todo)
Advanced(w) ==
  IF ~w.on THEN w
  ELSE IF \E g \in Gates : Staffed(gate'[g]) THEN Reopened(w) ELSE Queued(w, Ready(w))
\* ... and the zone takes cars again once its entry gate can be used.
TakingCars(w) ==
  IF w.on /\ UsableBut(gate'["entry"], "entry" \in w.pending)
  THEN [w EXCEPT !.reopened = TRUE] ELSE w

\* _gate_due_for_repair, of some gate: predicted to fail soon.
MayBeDue(w) ==
  /\ ~w.on /\ \A g \in Gates : ~Staffed(gate'[g])
  /\ \E g \in Gates : /\ gate'[g].worn /\ ~gate'[g].broken /\ ~gate'[g].maint
                     /\ g \notin w.pending

Overdue(w) == {g \in Gates : gate'[g].maint /\ g \notin w.stuck}
\* _schedule_gate_repairs, from w, in a step with the Rare events ks: gates that have
\* been in repair for too long are given up on, and a gate may be found due.
Scheduled(w, ks) ==
  \E late \in SUBSET Overdue(w) :
    LET slow == IF \E g \in late : health[g] # "stuck" THEN {"slow"} ELSE {}
    IN  \E w1 \in {GivenUp(w, late)} : \E w2 \in {WithBroken(w1, Gates)} :
        \E w3 \in {Advanced(w2)} : \E w4 \in {TakingCars(w3)} :
          \/ work' = w4 /\ Costs(ks \cup slow)
          \/ /\ MayBeDue(w4) /\ Costs(ks \cup slow \cup {"due"})
             /\ \E w5 \in {Advanced(Started(w4))} : work' = TakingCars(w5)

\* _ensure_barriers_open, which gets the waiting cars going again.
\* Deliberately wrong: only those on their way out, or in.
RestartedReleases ==
  /\ rel' = [p \in Cars |-> IF car[p] = "paid" /\ p \notin released /\ rel[p] = "none"
                           THEN "start" ELSE rel[p]]
  /\ UNCHANGED leg
RestartedLegs ==
  /\ leg' = [p \in Cars |-> IF car[p] = "entry" /\ leg[p] = "none" THEN "start" ELSE leg[p]]
  /\ UNCHANGED rel
Restarted ==
  /\ leg' = [p \in Cars |-> IF car[p] = "entry" /\ leg[p] = "none" THEN "start" ELSE leg[p]]
  /\ rel' = [p \in Cars |-> IF car[p] = "paid" /\ p \notin released /\ rel[p] = "none"
                           THEN "start" ELSE rel[p]]

-----------------------------------------------------------------------------
(* Cars on their way in: dispatch, _resend_if_still_at_entry,              *)
(* _open_gate_and_wait.                                                    *)

\* p drives off: its leg has nothing more to do than to take an answer.
OffEntry(p) ==
  /\ going' = going \ {p} /\ holding' = holding \ {p}
  /\ leg' = [leg EXCEPT ![p] = IF @ = "asked" THEN @ ELSE "none"]
  /\ sweepDue' = TRUE
NotGates == UNCHANGED <<door, health, reports, gate, work>>

Dispatch(p) ==
  /\ car[p] = "away" /\ \A q \in Cars : q < p => car[q] # "away"
  /\ (work.on => work.reopened) /\ Usable("entry")
  /\ car' = [car EXCEPT ![p] = "entry"]
  /\ leg' = [leg EXCEPT ![p] = "start"]
  /\ Costs(IF \E q \in Cars : q < p THEN {"crowd"} ELSE {})
  /\ NotGates /\ UNCHANGED <<going, released, rel, holding, sweeping>>

LegUnchanged == UNCHANGED <<health, reports, work, car, released, rel, sweeping>>
LegChecks(p) ==
  /\ leg[p] = "start"
  /\ IF car[p] # "entry" \/ ~Usable("entry")
     THEN leg' = [leg EXCEPT ![p] = "none"] /\ UNCHANGED <<door, holding, used>>
     ELSE /\ holding' = holding \cup {p}
          /\ IF gate["entry"].pos \in {"Open", "Opening"}
             THEN leg' = [leg EXCEPT ![p] = "waits"] /\ UNCHANGED <<door, used>>
             ELSE \/ Sends("entry", "Opening") /\ leg' = [leg EXCEPT ![p] = "asked"]
                  \/ Loses("entry", "Opening") /\ leg' = [leg EXCEPT ![p] = "waits"]
  /\ LegUnchanged /\ UNCHANGED <<gate, going>>

LegAnswered(p) ==
  /\ leg[p] = "asked" /\ Moved("entry", "Opening")
  /\ leg' = [leg EXCEPT ![p] = IF car[p] = "entry" THEN "waits" ELSE "none"]
  /\ LegUnchanged /\ UNCHANGED <<door, going, holding, used>>

\* No report about gate g is to be expected.
Settled(g) ==
  reports[g] = <<>> /\ (health[g] # "fine" \/ door[g] \in {"Open", "Closed"})
\* The wait for the gate ends with its report, or after GATE_OPEN_WAIT_S; sooner
\* than the gate opens once in a while only.
Waited(g, ks) ==
  IF \/ gate[g].pos = "Open" \/ gate[g].broken \/ gate[g].maint
     \/ health[g] # "fine"
     \/ door[g] # "Opening" /\ \A i \in DOMAIN reports[g] : reports[g][i] # "Open"
  THEN Costs(ks) ELSE Costs(ks \cup {"slow"})

\* The car is told to drive; the leg looks again, until its attempts are used up.
LegSends(p) ==
  /\ leg[p] = "waits"
  /\ \/ Waited("entry", {}) /\ Routed(p, "entry") /\ leg' = [leg EXCEPT ![p] = "start"]
     \/ Waited("entry", {"lost"}) /\ UNCHANGED going /\ leg' = [leg EXCEPT ![p] = "start"]
     \/ Waited("entry", {"slow"}) /\ Routed(p, "entry") /\ leg' = [leg EXCEPT ![p] = "none"]
  /\ LegUnchanged /\ UNCHANGED <<door, gate, holding>>

\* _handle_car_spot_action: out of the box in front of the gate.
DriveIn(p) ==
  /\ car[p] = "entry" /\ p \in going /\ door["entry"] = "Open"
  /\ car' = [car EXCEPT ![p] = "driving"] /\ OffEntry(p)
  /\ NotGates /\ UNCHANGED <<released, rel, sweep, used>>

Park(p) ==
  /\ car[p] = "driving"
  /\ car' = [car EXCEPT ![p] = "parked"]
  /\ holding' = holding \ {p} /\ sweepDue' = TRUE /\ UNCHANGED gate
  /\ Scheduled(work, {})
  /\ UNCHANGED <<simulator, released, leg, rel, sweep>>

\* reap_orphans.
Neglect(p) ==
  /\ car[p] = "entry" /\ Costs({"neglect"})
  /\ car' = [car EXCEPT ![p] = "out"] /\ OffEntry(p)
  /\ NotGates /\ UNCHANGED <<released, rel, sweep>>

-----------------------------------------------------------------------------
(* Cars on their way out: _hold_exit, _send_paid_release,                  *)
(* _reroute_to_other_exit.                                                 *)

\* A ghost car, or a payment that is not right.
HoldExit(p) ==
  LET b == gate["exit"]
      close == /\ ~b.broken /\ ~b.maint /\ "exit" \notin work.pending
               /\ b.pos \notin {"Closed", "Closing"}
  IN  /\ car[p] = "parked" /\ p \notin released /\ ~b.open /\ p \notin b.held
      /\ \E ks \in Outcomes :
           /\ Tells("exit", [b EXCEPT !.held = @ \cup {p}], close, "Closing", ks)
           /\ Costs({"suspect"} \cup ks)
      /\ UNCHANGED <<health, reports, going, work, traffic, sweeping>>

\* Accepted, by itself or by staff.
Pay(p) ==
  /\ car[p] = "parked"
  /\ car' = [car EXCEPT ![p] = "paid"]
  /\ rel' = IF p \in released \/ rel[p] # "none" THEN rel ELSE [rel EXCEPT ![p] = "start"]
  /\ NotGates /\ UNCHANGED <<going, released, leg, holding, sweeping, used>>

RelUnchanged == UNCHANGED <<health, reports, work, leg, holding, sweeping>>
RelEnds(p) == rel' = [rel EXCEPT ![p] = "none"]
\* Out by the gate of another zone, when a way can be found.
Rerouted(p) ==
  /\ RelEnds(p) /\ UNCHANGED door
  /\ \/ /\ car' = [car EXCEPT ![p] = "out"]
        /\ released' = released \cup {p} /\ Costs({})
     \/ /\ car' \in {car, [car EXCEPT ![p] = "out"]}
        /\ UNCHANGED released /\ Costs({"lost"})
RelChecks(p) ==
  LET b == gate["exit"]
      others == b.held \ {p}
  IN  /\ rel[p] = "start"
      /\ gate' = [gate EXCEPT !["exit"].held = others]
      /\ IF b.shut \/ others # {}
         THEN RelEnds(p) /\ UNCHANGED <<door, car, released, used>>
         ELSE IF b.broken \/ b.maint \/ "exit" \in work.pending
         THEN Rerouted(p)
         ELSE /\ UNCHANGED <<car, released>>
              /\ IF b.pos \in {"Open", "Opening"}
                 THEN rel' = [rel EXCEPT ![p] = "waits"] /\ UNCHANGED <<door, used>>
                 ELSE \/ Sends("exit", "Opening") /\ rel' = [rel EXCEPT ![p] = "asked"]
                      \/ Loses("exit", "Opening") /\ RelEnds(p)
      /\ RelUnchanged /\ UNCHANGED going

RelAnswered(p) ==
  /\ rel[p] = "asked" /\ Moved("exit", "Opening")
  /\ rel' = [rel EXCEPT ![p] = "waits"]
  /\ RelUnchanged /\ UNCHANGED <<door, going, car, released, used>>

\* The car counts as released also when the gate is not open.
RelSends(p) ==
  /\ rel[p] = "waits" /\ RelEnds(p)
  /\ \/ Waited("exit", {}) /\ Routed(p, "exit") /\ released' = released \cup {p}
     \/ Waited("exit", {"lost"}) /\ (UNCHANGED going \/ Routed(p, "exit")) /\ UNCHANGED released
  /\ RelUnchanged /\ UNCHANGED <<door, gate, car>>

\* _handle_car_spot_action, _archive: it has left the facility.
DriveOut(p) ==
  /\ car[p] \in {"parked", "paid"} /\ p \in going /\ door["exit"] = "Open"
  /\ car' = [car EXCEPT ![p] = "out"] /\ going' = going \ {p}
  /\ sweepDue' = TRUE
  /\ UNCHANGED <<gate, holding>> /\ Scheduled(work, {})
  /\ UNCHANGED <<door, health, reports, released, leg, rel, sweep>>

-----------------------------------------------------------------------------
(* _close_idle_gates.                                                      *)

\* Deliberately wrong: also gates staff hold open, or the ones in use.
ClosableHeldOpen(g, busy) ==
  LET b == gate[g]
  IN  /\ g \notin busy /\ b.pos \in {"Open", "Opening"}
      /\ ~b.broken /\ ~b.maint /\ g \notin work.pending
Closable(g, busy) ==
  LET b == gate[g]
  IN  /\ g \notin busy /\ ~b.open /\ b.pos \in {"Open", "Opening"}
      /\ ~b.broken /\ ~b.maint /\ g \notin work.pending

\* The sweep s goes on to a gate it can close, in no particular order, or ends.  It waits
\* for an answer also when none will come.
SweepGoesOn(s) ==
  IF \E g \in s.left : Closable(g, s.busy)
  THEN \E g \in s.left :
         /\ Closable(g, s.busy)
         /\ \/ /\ sweep' = [s EXCEPT !.left = @ \ {g}, !.now = g]
               /\ Sends(g, "Closing")
            \/ /\ sweep' = [s EXCEPT !.left = @ \ {g}, !.now = "lost"]
               /\ Loses(g, "Closing")
  ELSE sweep' = Quiet /\ UNCHANGED <<door, used>>
SweepUnchanged == UNCHANGED <<health, reports, going, work, traffic>>
SweepBegins ==
  /\ sweepDue /\ sweep = Quiet
  /\ sweepDue' = FALSE /\ UNCHANGED gate
  /\ SweepGoesOn([busy |-> InUse, left |-> Gates, now |-> "none"])
  /\ SweepUnchanged

SweepAnswered(g) ==
  /\ sweep.now = g /\ Moved(g, "Closing")
  /\ SweepGoesOn([sweep EXCEPT !.now = "none"])
  /\ SweepUnchanged /\ UNCHANGED sweepDue

SweepFails ==
  /\ sweep.now = "lost" /\ UNCHANGED gate
  /\ SweepGoesOn([sweep EXCEPT !.now = "none"])
  /\ SweepUnchanged /\ UNCHANGED sweepDue

-----------------------------------------------------------------------------
(* Webhooks about gates: _handle_gate_action, _handle_component_broken,    *)
(* _handle_component_fixed.                                                *)

\* Two workers may take two of them in either order: _key does not look at Name.
Takes(g, what) ==
  \E i \in DOMAIN reports[g] :
    /\ reports[g][i] = what
    /\ reports' = [reports EXCEPT ![g] = SubSeq(@, 1, i - 1) \o SubSeq(@, i + 1, Len(@))]
WebhookUnchanged == UNCHANGED <<health, going, car, released, holding, sweeping>>

\* Deliberately wrong: a held gate is left as it is; the hold is taken as done.
GateMovedUnheld(g, to) ==
  /\ Takes(g, to) /\ Moved(g, to)
  /\ WebhookUnchanged /\ UNCHANGED <<door, work, leg, rel, used>>
\* "Open" of a gate that is held: the hold is enforced.
GateMoved(g, to) ==
  LET b == gate[g]
      enforce == /\ to = "Open" /\ (b.shut \/ b.held # {})
                 /\ ~b.broken /\ ~b.maint /\ g \notin work.pending
  IN  /\ Takes(g, to)
      /\ \E ks \in Outcomes : Tells(g, At(b, to), enforce, "Closing", ks) /\ Costs(ks)
      /\ WebhookUnchanged /\ UNCHANGED <<work, leg, rel>>

GateBroken(g) ==
  /\ Takes(g, "broken")
  /\ gate' = [gate EXCEPT ![g].broken = TRUE]
  /\ WebhookUnchanged /\ UNCHANGED <<door, leg, rel>>
  /\ Scheduled(WithBroken(work, {g}), {})

\* The gate is shut, wherever it is, unless it is in use; then its zone goes on.
GateFixed(g) ==
  LET b == [gate[g] EXCEPT !.broken = FALSE, !.maint = FALSE, !.worn = FALSE]
      close == ~b.open /\ g \notin InUse
      w == [work EXCEPT !.pending = @ \ {g}, !.stuck = @ \ {g}, !.todo = @ \ {g}]
  IN  /\ Takes(g, "fixed") /\ WebhookUnchanged
      /\ \E ks \in Outcomes :
           Tells(g, b, close, "Closing", ks) /\ Scheduled(Ended(w), ks)
      /\ Restarted

-----------------------------------------------------------------------------
(* Staff: manual_barrier_open, _close and _auto, auto_all_gates,           *)
(* manual_repair.                                                          *)

\* _staff_takes_gate cancels a repair that is queued: its task stays queued.  That a gate
\* is shut is one Rare event, all else that staff do is another.
StaffTakes(g) ==
  /\ ~gate[g].broken /\ ~gate[g].maint
  /\ work' = [work EXCEPT !.pending = @ \ {g}]
StaffUnchanged ==
  UNCHANGED <<health, reports, going, car, released, holding, sweeping>>

\* The cars held at it are let out.
StaffOpens(g) ==
  LET send == gate[g].pos \notin {"Open", "Opening"}
  IN  /\ StaffTakes(g)
      /\ \E ks \in Outcomes :
           /\ Tells(g, [gate[g] EXCEPT !.open = TRUE, !.shut = FALSE, !.held = {}],
                    send, "Opening", ks)
           /\ Costs({"staff"} \cup ks)
      /\ leg' = [p \in Cars |-> IF car[p] = "entry" /\ leg[p] = "none" THEN "start" ELSE leg[p]]
      /\ rel' = [p \in Cars |-> IF /\ rel[p] = "none"
                                   /\ p \in gate[g].held \/ (car[p] = "paid" /\ p \notin released)
                               THEN "start" ELSE rel[p]]
      /\ StaffUnchanged

StaffCloses(g) ==
  LET send == gate[g].pos \notin {"Closed", "Closing"}
  IN  /\ StaffTakes(g)
      /\ \E ks \in Outcomes :
           /\ Tells(g, [gate[g] EXCEPT !.open = FALSE, !.shut = TRUE], send, "Closing", ks)
           /\ Costs({"shut"} \cup ks)
      /\ StaffUnchanged /\ UNCHANGED <<leg, rel>>

\* One gate, or all.  Letting go of a gate they took is no Rare event.
StaffAuto(gs) ==
  /\ gs = Gates \/ \E g \in gs : gs = {g}
  /\ gate' = [g \in Gates |-> IF g \in gs THEN [gate[g] EXCEPT !.open = FALSE, !.shut = FALSE]
                               ELSE gate[g]]
  /\ sweepDue' = TRUE /\ Restarted
  /\ UNCHANGED <<simulator, car, released, holding, sweep>>
  /\ Scheduled(work, IF \E g \in Gates : Staffed(gate[g]) THEN {} ELSE {"staff"})

\* _queue_repair, of a gate that may be sound: its whole zone is repaired.
StaffRepairs(g) ==
  /\ g \notin work.pending /\ ~gate[g].maint
  /\ UNCHANGED <<simulator, gate, traffic, sweeping>>
  /\ IF gate[g].broken THEN work' = Queued(Started(work), {g}) /\ Costs({"staff"})
     ELSE Scheduled(Started(work), {"staff"})

-----------------------------------------------------------------------------
(* The maintenance queue's worker: guarded_repair; and the wear check.     *)

RepairUnchanged == UNCHANGED <<door, reports, going, traffic, sweeping>>
Dropped(g) == [work EXCEPT !.jobs[g] = @ - 1, !.pending = @ \ {g}]
\* The simulator accepts the repair of g; one that got stuck stays so.
Repaired(g) == [health EXCEPT ![g] = IF @ = "stuck" THEN @ ELSE "inRepair"]

RepairNeedless(g) ==
  /\ work.jobs[g] > 0 /\ gate[g].maint
  /\ work' = Dropped(g)
  /\ RepairUnchanged /\ UNCHANGED <<health, gate, used>>

\* A sound gate is not repaired while it moves, or is held.
Postponed(g) ==
  LET b == gate[g]
  IN  ~b.broken /\ (b.pos \in {"Opening", "Closing"} \/ Staffed(b) \/ b.held # {})

\* Deliberately wrong: sent again after it was sent.
RepairSentAgain(g) ==
  /\ ~gate[g].maint /\ ~Postponed(g)
  /\ health' = Repaired(g)
  /\ gate' = [gate EXCEPT ![g].maint = TRUE]
  /\ work' = Dropped(g)
  /\ RepairUnchanged /\ UNCHANGED used
RepairSent(g) ==
  /\ work.jobs[g] > 0 /\ ~gate[g].maint /\ ~Postponed(g)
  /\ health' = Repaired(g)
  /\ gate' = [gate EXCEPT ![g].maint = TRUE]
  /\ work' = Dropped(g)
  /\ RepairUnchanged /\ UNCHANGED used

\* All attempts failed, though the simulator may have accepted one of them.  A movement
\* is over before that, unless it is slow.
RepairDropped(g) ==
  /\ work.jobs[g] > 0 /\ ~gate[g].maint
  /\ work' = Dropped(g)
  /\ IF ~Postponed(g) THEN health' \in {health, Repaired(g)} /\ Costs({"lost"})
     ELSE /\ UNCHANGED health
          /\ IF Staffed(gate[g]) \/ gate[g].held # {} \/ Settled(g) THEN Costs({})
             ELSE Costs({"slow"})
  /\ RepairUnchanged /\ UNCHANGED gate

\* check_wear.
WearCheck ==
  /\ UNCHANGED <<simulator, gate, traffic, sweeping>>
  /\ Scheduled(work, {})

-----------------------------------------------------------------------------
Simulator(g) == Move(g) \/ Break(g) \/ Mend(g) \/ Jam(g)
GateWebhook(g) ==
  \/ \E to \in {"Open", "Closed"} : GateMoved(g, to)
  \/ GateBroken(g) \/ GateFixed(g)
Leg(p) == LegChecks(p) \/ LegAnswered(p) \/ LegSends(p)
Release(p) == RelChecks(p) \/ RelAnswered(p) \/ RelSends(p)
Drive(p) == DriveIn(p) \/ Park(p) \/ DriveOut(p)
Sweeping == SweepBegins \/ SweepFails \/ \E g \in Gates : SweepAnswered(g)
Staff ==
  \/ \E g \in Gates : StaffOpens(g) \/ StaffCloses(g) \/ StaffRepairs(g)
  \/ \E gs \in SUBSET Gates : StaffAuto(gs)
Worker(g) == RepairNeedless(g) \/ RepairSent(g) \/ RepairDropped(g)

Next ==
  \/ \E g \in Gates : Simulator(g) \/ GateWebhook(g) \/ Worker(g)
  \/ \E p \in Cars : Dispatch(p) \/ Leg(p) \/ Neglect(p) \/ Drive(p)
                      \/ HoldExit(p) \/ Pay(p) \/ Release(p)
  \/ Sweeping \/ Staff \/ WearCheck

Spec == Init /\ [][Next]_vars

\* Gates move and are mended; webhooks, legs, releases, sweeps, the queue and the
\* wear check are scheduled, and the wear check gives up on a repair in the end;
\* cars that may drive do.
Fairness ==
  /\ \A g \in Gates : /\ WF_vars(Move(g) \/ Mend(g) \/ Jam(g))
                       /\ WF_vars(GateWebhook(g)) /\ WF_vars(Worker(g))
  /\ \A p \in Cars : WF_vars(Leg(p)) /\ WF_vars(Release(p)) /\ WF_vars(Drive(p))
  /\ WF_vars(Sweeping)
  /\ WF_vars(WearCheck /\ UNCHANGED used)
FairSpec == Spec /\ Fairness

-----------------------------------------------------------------------------
(* Properties.                                                             *)

\* A car that was let into gate g, or is being let in.
Passing(g) ==
  IF g = "entry" THEN holding # {}
  ELSE \E p \in Cars : car[p] = "paid" /\ (rel[p] \in {"asked", "waits"} \/ p \in released)
\* "A gate a car is driving through right now waits for that car" (main.py:372): no
\* repair of a gate that works is sent, unless staff had cancelled it.  Not so at the
\* exit once a car was held and staff opened a gate: a car they let out may still pay on
\* its way (main.py:1394), and only cars that paid keep a repair from being queued.
RepairSparesCars ==
  [][\A g \in Gates :
       /\ gate'[g].maint /\ ~gate[g].maint /\ ~gate[g].broken /\ g \in work.pending
       /\ g = "exit" => ~({"staff", "suspect"} \subseteq used)
       => ~Passing(g)]_vars

\* Nothing automatic closes a gate that staff hold open: not a sweep, not the hold of
\* a car, not the end of a repair (4.33).
StaffOpenStands ==
  [][\A g \in Gates :
       gate[g].open /\ gate'[g].open /\ door'[g] = "Closing" => door[g] = "Closing"]_vars

\* The dispatcher waits in vain for a gate's movement to end: a repaired gate that is
\* told to go where it is already makes no report (main.py:2595).
Mistaken(g) == Settled(g) /\ health[g] = "fine" /\ gate[g].pos # door[g]
\* A zone does not stay closed for maintenance, though repairs get stuck and staff
\* hold its gates, unless a car that paid is left in it or a gate seems to move for
\* ever: "a zone waiting for that repair would stay shut to new cars for the rest of
\* the run" (main.py:330).
ZoneReopens ==
  <>[](work.on /\ ~work.reopened) => <>[]("exit" \in InUse \/ \E g \in Gates : Mistaken(g))

\* In a repair, which the dispatcher need not know of: its answer may have been lost.
Mending(g) ==
  health[g] \in {"inRepair", "stuck"} \/ \E i \in DOMAIN reports[g] : reports[g][i] = "fixed"
InService(g) ==
  ~gate[g].broken /\ ~gate[g].maint /\ g \notin work.pending /\ ~Mending(g)
\* It is open though it works and is to be held closed, and the dispatcher knows it.
LeftOpen(g) ==
  /\ door[g] = "Open" /\ gate[g].pos = "Open" /\ health[g] = "fine" /\ reports[g] = <<>>
  /\ gate[g].shut \/ gate[g].held # {}
\* A gate in service that is held closed, by staff or for a car, does not come to be
\* left open by a dispatcher that knows that it is: also when it was held on its way
\* up, or while another car passed, and when its reports are taken late (main.py:2670).
\* Not so for a gate out of service: a hold put on it closes nothing (main.py:2437),
\* and the end of its repair does not look at the hold (main.py:2597); nor in the step
\* whose close fails, which nothing repeats (main.py:2439, 2671 and 1421).
HeldGateShuts ==
  [][\A g \in Gates :
       InService(g) /\ InService(g)' /\ LeftOpen(g)'
         => LeftOpen(g) \/ "lost" \in used' \ used]_vars

\* A car in front of the entry gate is let in, or the gate stays unusable: legs that
\* met a gate out of use are begun anew (main.py:842), and one lost command is made
\* good.  Not so once the gate was slow, as a leg gives up after entry_max_attempts
\* (main.py:662), nor while the gate is taken for open and is shut, as it may be when the
\* close after its repair failed (main.py:2597), nor once a gate broke or its reports
\* were taken late: what the dispatcher believes of it may then be wrong for good.
CarGetsIn ==
  \A p \in Cars :
    <>[](car[p] = "entry")
      => <>[](~Usable("entry") \/ Mistaken("entry")
             \/ used \cap {"slow", "break", "behind"} # {})

\* A car that has paid is told to leave, whatever happens to the gate meanwhile,
\* unless a command got lost, or staff hold the gate shut; a car turned back because
\* of another may wait until something else happens (main.py:2862).
PaidIsReleased ==
  \A p \in Cars :
    <>[](car[p] = "paid" /\ p \notin released)
      => <>[](gate["exit"].shut \/ "lost" \in used
             \/ (Cars # {p} /\ "suspect" \in used))
=============================================================================

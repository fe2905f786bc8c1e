------------------------------- MODULE Bays --------------------------------
(***************************************************************************)
(* Bays and the cars that are sent to them: dispatch and reservation, the  *)
(* loop that resends a car, parking in the promised bay or another,        *)
(* neglect, the occupied-bay penalty, the repair of bays and the sync with *)
(* the simulator's own list.                                               *)
(*                                                                         *)
(* A plate's webhooks are handled in order, one at a time (NoOvertaking of *)
(* module Ingress).  Component and penalty webhooks, staff, the wear check *)
(* and the sync run between them.  dispatch_entry gives up control when it *)
(* has archived somebody, a leg while it waits for its gate, a repair and  *)
(* a sync while they wait for the simulator; nothing else does.            *)
(*                                                                         *)
(* Not represented: the choice among the free bays (any of them), the way  *)
(* by a zone's own sensor, and what happens at the exits: reaching the     *)
(* last sensor is one webhook, "gone".                                     *)
(***************************************************************************)
EXTENDS Naturals, Sequences, FiniteSets

CONSTANTS
  Plates,     \* number plates
  BayNames,   \* the bays
  MaxVisits,  \* bound: visits of each plate
  MaxIds,     \* bound: sessions made
  Limit       \* bound: how often each of the Rare events, and any, happens

\* "break": that a bay breaks, or that it is worn and repaired before it does.
Rare == {"break", "astray", "neglect", "staff", "sync", "noGate", "repairLost", "slow",
         "all"}
Places == {"away", "entry", "road"}

ASSUME BaysAssumption ==
  /\ (Plates \cup BayNames) \cap (Places \cup {"none", "unknown"}) = {}
  /\ Plates \cap BayNames = {}
  /\ MaxVisits \in Nat /\ MaxIds \in Nat
  /\ Limit \in [Rare -> Nat]

VARIABLES
  \* The simulator:
  pos,        \* pos[p]: where car p is
  goal,       \* goal[p]: the bay it was told to go to, and was let in for
  visits,     \* visits[p]: how often plate p has come
  faulty,     \* faulty[b]: "fine", "broken" or "inRepair"
  \* Webhooks on their way:
  inbox,      \* inbox[p]: those of plate p, oldest first
  news,       \* component and penalty webhooks, in no order
  \* The dispatcher:
  bay,        \* state.spots
  pending,    \* state.pending_repairs
  deferred,   \* state.deferred_repairs
  sess,       \* state.sessions; id 0 when there is none
  active,     \* state.active_dispatches
  leg,        \* _dispatch_tasks: the task that gets p from its entrance
  calls,      \* dispatch_entry calls under way
  repair,     \* repair[b]: the bay's task in the maintenance queue
  listed,     \* what a sync under way has read of the bays, or {}
  ids,        \* sessions made
  used        \* counts of the Rare events

simulator == <<pos, goal, visits, faulty>>
parking == <<bay, sess, active>>
vars == <<pos, goal, visits, faulty, inbox, news, bay, pending, deferred,
          sess, active, leg, calls, repair, listed, ids, used>>

Spot ==
  [status : {"available", "reserved", "occupied", "broken", "maintenance"},
   who : Plates \cup {"none", "unknown"}, broken : BOOLEAN, maint : BOOLEAN]
FreeSpot == [status |-> "available", who |-> "none", broken |-> FALSE, maint |-> FALSE]

\* phase is SessionPhase as far as the entrance goes; stay tells parked_at and
\* left_spot_at, gone that an exit was reached (exit_confirmed).
Session ==
  [id : 0..MaxIds, spot : BayNames \cup {"none"},
   phase : {"arrived", "assigned", "parked"},
   stay : {"driving", "parked", "left"}, departed : BOOLEAN]
Nobody ==
  [id |-> 0, spot |-> "none", phase |-> "arrived", stay |-> "driving", departed |-> FALSE]

NoLeg == [id |-> 0, spot |-> "none", step |-> "none"]
Leg == [id : 0..MaxIds, spot : BayNames \cup {"none"}, step : {"none", "asleep", "gate"}]
Webhook == [kind : {"entry", "entryOut", "park", "left", "gone"}, bay : BayNames \cup {"none"}]
News == [kind : {"broken", "fixed", "collision", "neglect"},
         bay : BayNames \cup {"none"}, plate : Plates \cup {"none"}]
\* A call of dispatch_entry: to begin, going on at once, or having given up control.
Call == [plate : Plates, striped : BOOLEAN, wish : BayNames \cup {"none"},
         step : {"begin", "goesOn", "waits"}]
Dispatch(p, striped, wish) ==
  calls \cup {[plate |-> p, striped |-> striped, wish |-> wish, step |-> "begin"]}
Listed == [BayNames -> [full : BOOLEAN, broken : BOOLEAN, maint : BOOLEAN]]

TypeOK ==
  /\ pos \in [Plates -> Places \cup BayNames]
  /\ goal \in [Plates -> BayNames \cup {"none"}]
  /\ visits \in [Plates -> 0..MaxVisits]
  /\ faulty \in [BayNames -> {"fine", "broken", "inRepair"}]
  /\ inbox \in [Plates -> Seq(Webhook)]
  /\ news \subseteq News
  /\ bay \in [BayNames -> Spot]
  /\ pending \subseteq BayNames /\ deferred \subseteq BayNames
  /\ sess \in [Plates -> Session]
  /\ active \in [Plates -> BayNames \cup {"none"}]
  /\ leg \in [Plates -> Leg]
  /\ calls \subseteq Call
  /\ repair \in [BayNames -> {"none", "queued", "sent"}]
  /\ listed = {} \/ \E l \in Listed : listed = {l}
  /\ ids \in 0..MaxIds
  /\ used \in [Rare -> Nat]

Init ==
  /\ pos = [p \in Plates |-> "away"] /\ goal = [p \in Plates |-> "none"]
  /\ visits = [p \in Plates |-> 0]
  /\ faulty = [b \in BayNames |-> "fine"]
  /\ inbox = [p \in Plates |-> <<>>] /\ news = {}
  /\ bay = [b \in BayNames |-> FreeSpot] /\ pending = {} /\ deferred = {}
  /\ sess = [p \in Plates |-> Nobody] /\ active = [p \in Plates |-> "none"]
  /\ leg = [p \in Plates |-> NoLeg] /\ calls = {}
  /\ repair = [b \in BayNames |-> "none"] /\ listed = {} /\ ids = 0
  /\ used = [k \in Rare |-> 0]

Rarely(k) ==
  /\ used[k] < Limit[k] /\ used["all"] < Limit["all"]
  /\ used' = [used EXCEPT ![k] = @ + 1, !["all"] = @ + 1]

-----------------------------------------------------------------------------
(* The simulator (external).                                               *)

Event(kind, b) == [kind |-> kind, bay |-> b]
Report(kind, b, p) == [kind |-> kind, bay |-> b, plate |-> p]

Post(p, ws) == inbox' = [inbox EXCEPT ![p] = @ \o ws]
Empty(b) == \A p \in Plates : pos[p] # b

Outside == UNCHANGED <<bay, pending, deferred, sess, active, leg, calls, repair, listed, ids>>

\* No webhook of plate p is left.
Settled(p) == inbox[p] = <<>> /\ \A n \in news : n.plate # p

\* A plate is used again long after its last visit.
Arrive(p) ==
  /\ pos[p] = "away" /\ visits[p] < MaxVisits
  /\ Settled(p) /\ leg[p] = NoLeg
  /\ pos' = [pos EXCEPT ![p] = "entry"]
  /\ goal' = [goal EXCEPT ![p] = "none"]
  /\ visits' = [visits EXCEPT ![p] = @ + 1]
  /\ Post(p, <<Event("entry", "none")>>)
  /\ Outside /\ UNCHANGED <<faulty, news, used>>

DriveIn(p) ==
  /\ pos[p] = "entry" /\ goal[p] # "none"
  /\ pos' = [pos EXCEPT ![p] = "road"]
  /\ Post(p, <<Event("entryOut", "none")>>)
  /\ Outside /\ UNCHANGED <<goal, visits, faulty, news, used>>

\* Nobody sent it on: it leaves, and that is fined.
Neglect(p) ==
  /\ pos[p] = "entry" /\ goal[p] = "none"
  /\ Rarely("neglect")
  /\ pos' = [pos EXCEPT ![p] = "away"]
  /\ Post(p, <<Event("entryOut", "none")>>)
  /\ news' = news \cup {Report("neglect", "none", p)}
  /\ Outside /\ UNCHANGED <<goal, visits, faulty>>

\* Cars park where they were sent, and now and then elsewhere.
ParkAt(p, b) ==
  /\ pos[p] = "road" /\ goal[p] # "none" /\ Empty(b)
  /\ IF b = goal[p] THEN UNCHANGED used ELSE Rarely("astray")
  /\ pos' = [pos EXCEPT ![p] = b]
  /\ goal' = [goal EXCEPT ![p] = "none"]
  /\ Post(p, <<Event("park", b)>>)
  /\ Outside /\ UNCHANGED <<visits, faulty, news>>

\* A parked car is detected in a second bay; of the first nothing is heard again.
Straddle(p, b) ==
  /\ pos[p] \in BayNames /\ Empty(b) /\ Rarely("astray")
  /\ pos' = [pos EXCEPT ![p] = b]
  /\ Post(p, <<Event("park", b)>>)
  /\ Outside /\ UNCHANGED <<goal, visits, faulty, news>>

\* "attempted to park in an occupied spot".
Collide(p) ==
  /\ pos[p] = "road" /\ goal[p] # "none" /\ ~Empty(goal[p])
  /\ goal' = [goal EXCEPT ![p] = "none"]
  /\ news' = news \cup {Report("collision", goal[p], p)}
  /\ Outside /\ UNCHANGED <<pos, visits, faulty, inbox, used>>

\* It drives about and out; the exit of a car that never parked changes no bay.
GiveUp(p) ==
  /\ pos[p] = "road" /\ goal[p] = "none" /\ Settled(p)
  /\ pos' = [pos EXCEPT ![p] = "away"]
  /\ Outside /\ UNCHANGED <<goal, visits, faulty, inbox, news, used>>

Leave(p) ==
  /\ pos[p] \in BayNames
  /\ pos' = [pos EXCEPT ![p] = "away"]
  /\ Post(p, <<Event("left", pos[p]), Event("gone", "none")>>)
  /\ Outside /\ UNCHANGED <<goal, visits, faulty, news, used>>

Break(b) ==
  /\ faulty[b] = "fine" /\ Rarely("break")
  /\ faulty' = [faulty EXCEPT ![b] = "broken"]
  /\ news' = news \cup {Report("broken", b, "none")}
  /\ Outside /\ UNCHANGED <<pos, goal, visits, inbox>>

\* A repair takes longer than the answer to its command.
Mend(b) ==
  /\ faulty[b] = "inRepair" /\ repair[b] # "sent"
  /\ faulty' = [faulty EXCEPT ![b] = "fine"]
  /\ news' = news \cup {Report("fixed", b, "none")}
  /\ Outside /\ UNCHANGED <<pos, goal, visits, inbox, used>>

\* POST cars/{plate}/goto is obeyed at the entrance only.
Goto(p, b) ==
  /\ goal' = IF pos[p] = "entry" THEN [goal EXCEPT ![p] = b] ELSE goal
  /\ UNCHANGED <<pos, visits, faulty>>

-----------------------------------------------------------------------------
(* ParkingState, as functions of the bays bs.                              *)

\* mark_spot_vacant.
Vacant(s) ==
  [s EXCEPT !.who = "none",
            !.status = IF s.broken THEN "broken" ELSE IF s.maint THEN "maintenance"
                                                           ELSE "available"]
Vacated(bs, b) == [bs EXCEPT ![b] = Vacant(bs[b])]

\* release_reservation, for the bay promised to p.
Held(s, p) == s.status = "reserved" /\ s.who = p
Unreserved(bs, b, p) ==
  IF b # "none" /\ Held(bs[b], p)
  THEN [bs EXCEPT ![b].status = "available", ![b].who = "none"] ELSE bs

\* reserve_spot, of a bay that may be given; mark_spot_occupied.
\* Deliberately wrong: the bay stays available until its car comes.
ReservedUnmarked(bs, b, p) == [bs EXCEPT ![b].who = p]
Reserved(bs, b, p) == [bs EXCEPT ![b].status = "reserved", ![b].who = p]
Occupied(bs, b, p) == [bs EXCEPT ![b].status = "occupied", ![b].who = p]

\* set_component_broken and set_component_fixed; whoever is in the bay keeps it.
SetBroken(s) ==
  [s EXCEPT !.broken = TRUE, !.status = IF s.who = "none" THEN "broken" ELSE @]
SetFixed(s) ==
  [s EXCEPT !.broken = FALSE, !.maint = FALSE,
            !.status = IF s.who = "none" THEN "available" ELSE @]

\* complete_session with release_bays.
Freed(bs, p) == [b \in BayNames |-> IF bs[b].who = p THEN Vacant(bs[b]) ELSE bs[b]]

\* Deliberately wrong: a bay that works may be given.
DispatchableWorking(s) == ~s.broken /\ ~s.maint
Dispatchable(s) == s.status = "available" /\ ~s.broken /\ ~s.maint
Candidates == {b \in BayNames : Dispatchable(bay[b]) /\ b \notin pending}

\* Deliberately wrong: the bay the session had is always freed.
MovedFreeing(bs, p, b) ==
  LET old == sess[p].spot
      freed == IF sess[p].id # 0 /\ old \notin {"none", b} /\ bs[old].who = p
               THEN Vacated(bs, old) ELSE bs
  IN  Occupied(freed, b, p)
\* mark_parked: a bay that was only promised is freed, one the car stood in is
\* kept: the car stands in both.
Moved(bs, p, b) ==
  LET old == sess[p].spot
      freed == IF /\ sess[p].id # 0 /\ old \notin {"none", b}
                  /\ bs[old].who = p /\ bs[old].status # "occupied"
               THEN Vacated(bs, old) ELSE bs
  IN  Occupied(freed, b, p)

\* Deliberately wrong: the plate keeps its entry in active_dispatches.
CompleteKeepingActive(ps) ==
  /\ sess' = [p \in Plates |-> IF p \in ps THEN Nobody ELSE sess[p]]
  /\ UNCHANGED active
\* complete_session, of all the plates in ps.
Complete(ps) ==
  /\ sess' = [p \in Plates |-> IF p \in ps THEN Nobody ELSE sess[p]]
  /\ active' = [p \in Plates |-> IF p \in ps THEN "none" ELSE active[p]]

-----------------------------------------------------------------------------
(* dispatch_entry.                                                         *)

\* No handler is in the middle of a step.
Idle == \A c \in calls : c.step = "waits"

\* Archived by reap_orphans: left its bay long ago, or never reached one.
Late(p) == sess[p].id # 0 /\ sess[p].stay # "parked"
\* A car that is still there is so slow once in a while only.
Overstay(ps) ==
  IF \A p \in ps : pos[p] = "away" /\ Settled(p) THEN UNCHANGED used ELSE Rarely("slow")
\* Deliberately wrong: the bay is not released.
OverdueKept(ps) == bay
Overdue(ps) ==
  [b \in BayNames |->
    IF \E p \in ps : sess[p].stay = "driving" /\ sess[p].spot = b /\ Held(bay[b], p)
    THEN [bay[b] EXCEPT !.status = "available", !.who = "none"] ELSE bay[b]]

\* _retire_previous_visit, the answer for a car that has its bay, the session,
\* and reap_orphans, which may archive this very session.
Back(p) == sess[p].id # 0 /\ sess[p].stay # "driving"
Begin(c) ==
  LET p == c.plate
      again == sess[p].id # 0 /\ ~Back(p)
      mine == IF again THEN [sess[p] EXCEPT !.phase = "arrived"]
              ELSE [Nobody EXCEPT !.id = ids + 1]
  IN  /\ c \in calls /\ c.step = "begin"
      /\ IF active[p] # "none" /\ ~Back(p)
         THEN calls' = calls \ {c} /\ UNCHANGED <<parking, ids, used>>
         ELSE \E late \in SUBSET {q \in Plates : Late(q) /\ (q = p => again)} :
           /\ Overstay(late)
           /\ IF again THEN UNCHANGED ids ELSE ids < MaxIds /\ ids' = ids + 1
           /\ bay' = IF Back(p) THEN Unreserved(Overdue(late), sess[p].spot, p)
                     ELSE Overdue(late)
           /\ sess' = [q \in Plates |-> IF q \in late THEN Nobody
                                       ELSE IF q = p THEN mine ELSE sess[q]]
           /\ active' = [q \in Plates |-> IF q \in late \cup {p} THEN "none" ELSE active[q]]
           /\ calls' = (calls \ {c}) \cup
                {[c EXCEPT !.step = IF \E q \in late : sess[q].stay = "driving"
                                    THEN "waits" ELSE "goesOn"]}
      /\ UNCHANGED <<simulator, inbox, news, pending, deferred, leg, repair, listed>>

\* _start_dispatch_retry: not while the plate has a task.
StartLegs(ps, ss) ==
  leg' = [p \in Plates |->
           IF p \in ps /\ leg[p].step = "none" /\ ss[p].id # 0
           THEN [id |-> ss[p].id, spot |-> ss[p].spot, step |-> "asleep"] ELSE leg[p]]

AssignSpot(p, b) ==
  /\ sess' = [sess EXCEPT ![p].spot = b, ![p].phase = "assigned"]
  /\ active' = [active EXCEPT ![p] = b]

\* The rest of dispatch_entry: a bay is reserved and the car gets its leg.
Reserve(c, b) ==
  /\ b \in Candidates /\ c.wish \in {"none", b}
  /\ bay' = Reserved(bay, b, c.plate)
  /\ IF sess[c.plate].id = 0 THEN UNCHANGED <<sess, active>> ELSE AssignSpot(c.plate, b)
  /\ StartLegs({c.plate}, sess')
  /\ UNCHANGED <<simulator, used>>

\* Its zone is closed, or the zone's gate cannot be used: the car waits.
NoGate(c) ==
  /\ Candidates # {} /\ Rarely("noGate")
  /\ UNCHANGED <<simulator, bay, sess, active, leg>>

\* No bay at all: the car is turned away, if it can be.
TurnAway(c) ==
  /\ Candidates = {} /\ c.wish = "none"
  /\ IF pos[c.plate] = "entry"
     THEN /\ pos' = [pos EXCEPT ![c.plate] = "away"]
          /\ Complete({c.plate})
     ELSE UNCHANGED <<pos, sess, active>>
  /\ UNCHANGED <<goal, visits, faulty, bay, leg, used>>

Unavailable(c) ==
  /\ c.wish \notin Candidates \cup {"none"}
  /\ UNCHANGED <<simulator, bay, sess, active, leg, used>>

Resume(c) ==
  /\ c \in calls /\ (c.step = "goesOn" \/ Idle)
  /\ (\E b \in BayNames : Reserve(c, b)) \/ NoGate(c) \/ TurnAway(c) \/ Unavailable(c)
  /\ calls' = calls \ {c}
  /\ UNCHANGED <<inbox, news, pending, deferred, repair, listed, ids>>

-----------------------------------------------------------------------------
(* _resend_if_still_at_entry.                                              *)

\* The car is still to be sent to the leg's bay.
LegStands(p) ==
  /\ sess[p].id = leg[p].id /\ ~sess[p].departed
  /\ sess[p].phase = "assigned" /\ sess[p].spot = leg[p].spot
SafelyHeld(b, p) ==
  Held(bay[b], p) /\ ~bay[b].broken /\ ~bay[b].maint /\ b \notin pending

LegUnchanged ==
  UNCHANGED <<inbox, news, bay, pending, deferred, sess, active, calls, repair, listed, ids>>

\* It wakes, finds the car to be sent, and goes to open the gate.
LegCheck(p) ==
  /\ Idle /\ leg[p].step = "asleep"
  /\ LegStands(p) /\ SafelyHeld(leg[p].spot, p)
  /\ leg' = [leg EXCEPT ![p].step = "gate"]
  /\ LegUnchanged /\ UNCHANGED <<simulator, used>>

\* Gone, unsafe, or the gate cannot be used.
LegEnds(p) ==
  /\ Idle /\ leg[p].step = "asleep"
  /\ IF LegStands(p) /\ SafelyHeld(leg[p].spot, p) THEN Rarely("noGate") ELSE UNCHANGED used
  /\ leg' = [leg EXCEPT ![p] = NoLeg]
  /\ LegUnchanged /\ UNCHANGED simulator

\* The gate has opened, or 5 s are over; after the last attempt the task ends.
LegSends(p) ==
  /\ Idle /\ leg[p].step = "gate"
  /\ Goto(p, leg[p].spot)
  /\ leg' = [leg EXCEPT ![p] = IF goal'[p] = leg[p].spot THEN [@ EXCEPT !.step = "asleep"]
                                                        ELSE NoLeg]
  /\ LegUnchanged /\ UNCHANGED used

-----------------------------------------------------------------------------
(* Repairs of bays: _queue_repair and its guarded_repair.                  *)

\* Deliberately wrong: only a promised bay counts.
TakenPromised(s) == s.status = "reserved"
Taken(s) == s.who # "none" \/ s.status \in {"occupied", "reserved"}

\* With the bays bs.
QueueRepair(bs, b) ==
  IF b \in pending \/ bs[b].maint
  THEN UNCHANGED <<pending, deferred, repair>>
  ELSE IF Taken(bs[b])
  THEN deferred' = deferred \cup {b} /\ UNCHANGED <<pending, repair>>
  ELSE /\ pending' = pending \cup {b}
       /\ repair' = [repair EXCEPT ![b] = IF @ = "none" THEN "queued" ELSE @]
       /\ UNCHANGED deferred

\* pop_ready_repair, of a bay that a car has left.
PopReady(b) ==
  /\ deferred' = deferred \ {b}
  /\ IF b \notin deferred \/ b \in pending \/ bay[b].maint
     THEN UNCHANGED <<pending, repair>>
     ELSE /\ pending' = pending \cup {b}
          /\ repair' = [repair EXCEPT ![b] = IF @ = "none" THEN "queued" ELSE @]

RepairUnchanged ==
  UNCHANGED <<pos, goal, visits, inbox, news, sess, active, leg, calls, listed, ids>>

\* check_wear of a bay that is broken or, now and then, only worn; or staff.
Maintain(b) ==
  /\ Idle
  /\ IF bay[b].broken THEN UNCHANGED used ELSE Rarely("break")
  /\ QueueRepair(bay, b)
  /\ RepairUnchanged /\ UNCHANGED <<faulty, bay>>

\* guarded_repair: the bay has been taken, or is in repair already.
RepairPutOff(b) ==
  /\ Idle /\ repair[b] = "queued"
  /\ bay[b].maint \/ Taken(bay[b])
  /\ deferred' = IF bay[b].maint THEN deferred ELSE deferred \cup {b}
  /\ pending' = pending \ {b}
  /\ repair' = [repair EXCEPT ![b] = "none"]
  /\ RepairUnchanged /\ UNCHANGED <<faulty, bay, used>>

\* The command is sent; the simulator refuses it for a bay with a car in it.
RepairSent(b) ==
  /\ Idle /\ repair[b] = "queued"
  /\ ~bay[b].maint /\ ~Taken(bay[b])
  /\ repair' = [repair EXCEPT ![b] = "sent"]
  /\ faulty' = IF Empty(b) THEN [faulty EXCEPT ![b] = "inRepair"] ELSE faulty
  /\ RepairUnchanged /\ UNCHANGED <<bay, pending, deferred, used>>

\* Deliberately wrong: the simulator's word for the status.
RepairAnsweredRaw(b) ==
  /\ Idle /\ repair[b] = "sent" /\ faulty[b] = "inRepair"
  /\ bay' = [bay EXCEPT ![b].maint = TRUE, ![b].status = "under_maintenance"]
  /\ pending' = pending \ {b}
  /\ repair' = [repair EXCEPT ![b] = "none"]
  /\ RepairUnchanged /\ UNCHANGED <<faulty, deferred, used>>

RepairAnswered(b) ==
  /\ Idle /\ repair[b] = "sent" /\ faulty[b] = "inRepair"
  /\ bay' = [bay EXCEPT ![b].maint = TRUE, ![b].status = "maintenance"]
  /\ pending' = pending \ {b}
  /\ repair' = [repair EXCEPT ![b] = "none"]
  /\ RepairUnchanged /\ UNCHANGED <<faulty, deferred, used>>

\* Refused, or lost: the maintenance queue tries it again ...
RepairRetried(b) ==
  /\ Idle /\ repair[b] = "sent" /\ faulty[b] # "inRepair"
  /\ repair' = [repair EXCEPT ![b] = "queued"]
  /\ RepairUnchanged /\ UNCHANGED <<faulty, bay, pending, deferred, used>>

\* Deliberately wrong: pending_repairs keeps the dropped task.
RepairDroppedPending(b) ==
  /\ Idle
  /\ \/ repair[b] = "sent" /\ faulty[b] # "inRepair" /\ UNCHANGED used
     \/ repair[b] = "queued" /\ Rarely("repairLost")
  /\ repair' = [repair EXCEPT ![b] = "none"]
  /\ RepairUnchanged /\ UNCHANGED <<faulty, bay, pending, deferred>>

\* ... and drops the task after the last attempt.
RepairDropped(b) ==
  /\ Idle
  /\ \/ repair[b] = "sent" /\ faulty[b] # "inRepair" /\ UNCHANGED used
     \/ repair[b] = "queued" /\ Rarely("repairLost")
  /\ pending' = pending \ {b}
  /\ repair' = [repair EXCEPT ![b] = "none"]
  /\ RepairUnchanged /\ UNCHANGED <<faulty, bay, deferred>>

-----------------------------------------------------------------------------
(* _handle_car_spot_action.                                                *)

Handle(p, kind, b) ==
  /\ Idle
  /\ \A c \in calls : ~(c.striped /\ c.plate = p)
  /\ inbox[p] # <<>> /\ Head(inbox[p]) = Event(kind, b)
  /\ inbox' = [inbox EXCEPT ![p] = Tail(@)]
  /\ UNCHANGED <<simulator, news, leg, listed, used>>

EntryIn(p) ==
  /\ Handle(p, "entry", "none")
  /\ calls' = Dispatch(p, TRUE, "none")
  /\ UNCHANGED <<parking, pending, deferred, repair, ids>>

EntryOut(p) ==
  /\ Handle(p, "entryOut", "none")
  /\ IF sess[p].id # 0 /\ sess[p].spot = "none" THEN Complete({p})
     ELSE /\ sess' = IF sess[p].id = 0 THEN sess ELSE [sess EXCEPT ![p].departed = TRUE]
          /\ UNCHANGED active
  /\ UNCHANGED <<bay, pending, deferred, calls, repair, ids>>

\* A car nobody dispatched is adopted.
ParkIn(p, b) ==
  /\ Handle(p, "park", b)
  /\ IF sess[p].id = 0 THEN ids < MaxIds /\ ids' = ids + 1 ELSE UNCHANGED ids
  /\ bay' = Moved(bay, p, b)
  /\ LET s == IF sess[p].id = 0 THEN [Nobody EXCEPT !.id = ids + 1] ELSE sess[p]
     IN  sess' = [sess EXCEPT ![p] = [s EXCEPT !.spot = b, !.phase = "parked",
                    !.stay = IF @ = "driving" THEN "parked" ELSE @]]
  /\ active' = [active EXCEPT ![p] = b]
  /\ UNCHANGED <<pending, deferred, calls, repair>>

\* A repair that waited for the bay is queued.
ParkOut(p, b) ==
  /\ Handle(p, "left", b)
  /\ sess' = IF sess[p].id = 0 THEN sess ELSE [sess EXCEPT ![p].stay = "left"]
  /\ bay' = Vacated(bay, b)
  /\ PopReady(b)
  /\ UNCHANGED <<active, calls, ids>>

\* The exits: _archive with left_site.
Gone(p) ==
  /\ Handle(p, "gone", "none")
  /\ IF sess[p].id # 0 /\ sess[p].stay # "driving"
     THEN Complete({p}) /\ bay' = Freed(bay, p)
     ELSE UNCHANGED parking
  /\ UNCHANGED <<pending, deferred, calls, repair, ids>>

-----------------------------------------------------------------------------
(* Component and penalty webhooks.                                         *)

HandleNews(n) ==
  /\ Idle /\ n \in news
  /\ news' = news \ {n}
  /\ UNCHANGED <<simulator, inbox, listed, used>>

BayBroken(b) ==
  /\ HandleNews(Report("broken", b, "none"))
  /\ bay' = [bay EXCEPT ![b] = SetBroken(@)]
  /\ IF bay[b].who # "none"
     THEN deferred' = deferred \cup {b} /\ UNCHANGED <<pending, repair>>
     ELSE QueueRepair(bay', b)
  /\ UNCHANGED <<sess, active, leg, calls, ids>>

BayFixed(b) ==
  /\ HandleNews(Report("fixed", b, "none"))
  /\ bay' = [bay EXCEPT ![b] = SetFixed(@)]
  /\ deferred' = deferred \ {b} /\ pending' = pending \ {b}
  /\ UNCHANGED <<sess, active, leg, calls, repair, ids>>

\* _handle_occupied_bay up to its call of dispatch_entry.
Collision(p, b) ==
  /\ HandleNews(Report("collision", b, p))
  /\ leg' = [leg EXCEPT ![p] = NoLeg]
  /\ LET mine == sess[p].id # 0 /\ sess[p].spot = b /\ sess[p].stay = "driving"
         bs == IF mine THEN Unreserved(bay, b, p) ELSE bay
     IN  /\ bay' = [bs EXCEPT ![b].status = "occupied",
                             ![b].who = IF @ = "none" THEN "unknown" ELSE @]
         /\ IF mine THEN /\ sess' = [sess EXCEPT ![p].spot = "none", ![p].phase = "arrived"]
                         /\ active' = [active EXCEPT ![p] = "none"]
            ELSE UNCHANGED <<sess, active>>
  /\ calls' = IF sess[p].id # 0 /\ sess[p].stay = "driving"
              THEN Dispatch(p, FALSE, "none") ELSE calls
  /\ UNCHANGED <<pending, deferred, repair, ids>>

\* A neglect penalty: _handle_penalty.
Neglected(p) ==
  /\ HandleNews(Report("neglect", "none", p))
  /\ IF sess[p].id # 0 /\ sess[p].stay = "driving"
     THEN bay' = Unreserved(bay, sess[p].spot, p) /\ Complete({p})
     ELSE UNCHANGED parking
  /\ UNCHANGED <<pending, deferred, leg, calls, repair, ids>>

\* api_dispatch: staff send a car to a bay of their choice.
StaffDispatch(p, b) ==
  /\ Idle /\ Rarely("staff")
  /\ calls' = Dispatch(p, FALSE, b)
  /\ UNCHANGED <<simulator, inbox, news, parking, pending, deferred, leg, repair, listed, ids>>

-----------------------------------------------------------------------------
(* The wear check, and the sync with the simulator.                        *)

\* reap_orphans of check_wear: any of those it may find overdue.
Reap ==
  /\ Idle
  /\ \E late \in SUBSET {p \in Plates : Late(p)} :
       late # {} /\ Overstay(late) /\ bay' = Overdue(late) /\ Complete(late)
  /\ UNCHANGED <<simulator, inbox, news, pending, deferred, leg, calls, repair, listed, ids>>

\* _ensure_barriers_open, for the cars that wait at an entrance.
Waiting(ss) ==
  {p \in Plates : ss[p].id # 0 /\ ss[p].phase = "assigned" /\ ~ss[p].departed}
EnsureOpen ==
  /\ Idle
  /\ StartLegs(Waiting(sess), sess)
  /\ UNCHANGED <<simulator, parking, inbox, news, pending, deferred, calls, repair,
                 listed, ids, used>>

\* sync_from_simulator reads the bays, then the gates, zones, fans and lights.
SyncRead ==
  /\ Idle /\ listed = {} /\ Rarely("sync")
  /\ listed' = {[b \in BayNames |-> [full |-> ~Empty(b), broken |-> faulty[b] # "fine",
                                     maint |-> faulty[b] = "inRepair"]]}
  /\ UNCHANGED <<simulator, parking, inbox, news, pending, deferred, leg, calls, repair, ids>>

\* load_spots: a count of cars names nobody.
Loaded(l) ==
  [b \in BayNames |->
    [status |-> IF l[b].full THEN "occupied" ELSE IF l[b].broken THEN "broken"
                ELSE IF l[b].maint THEN "maintenance" ELSE "available",
     who |-> "none", broken |-> l[b].broken, maint |-> l[b].maint]]

\* A parked car whose bay reads empty has left.
Emptied(bs) ==
  [p \in Plates |->
    IF sess[p].stay = "parked" /\ bs[sess[p].spot].status = "available"
    THEN [sess[p] EXCEPT !.stay = "left"] ELSE sess[p]]

\* restore_sessions, for the sessions in memory: each claims its bay again.
Claimants(bs, ss, b) ==
  {p \in Plates : ss[p].id # 0 /\ ss[p].spot = b /\ ss[p].stay # "left" /\ Dispatchable(bs[b])}
Reclaimed(bs, ss, w) ==
  [b \in BayNames |->
    IF w[b] = "none" THEN bs[b]
    ELSE [bs[b] EXCEPT !.who = w[b],
           !.status = IF ss[w[b]].stay = "parked" THEN "occupied" ELSE "reserved"]]
SyncApply ==
  /\ Idle
  /\ \E l \in listed : LET bs == Loaded(l) IN
       /\ sess' = Emptied(bs)
       /\ active' = [p \in Plates |-> IF sess'[p].spot # "none" THEN sess'[p].spot ELSE active[p]]
       /\ \E w \in [BayNames -> Plates \cup {"none"}] :
            /\ \A b \in BayNames : IF Claimants(bs, sess', b) = {} THEN w[b] = "none"
                                   ELSE w[b] \in Claimants(bs, sess', b)
            /\ bay' = Reclaimed(bs, sess', w)
       /\ StartLegs(Waiting(sess'), sess')
  /\ listed' = {}
  /\ UNCHANGED <<simulator, inbox, news, pending, deferred, calls, repair, ids, used>>

-----------------------------------------------------------------------------
Simulator ==
  \/ \E p \in Plates : Arrive(p) \/ DriveIn(p) \/ Neglect(p) \/ Collide(p) \/ GiveUp(p) \/ Leave(p)
  \/ \E p \in Plates, b \in BayNames : ParkAt(p, b) \/ Straddle(p, b)
  \/ \E b \in BayNames : Break(b) \/ Mend(b)

CarSpotAction(p) ==
  \/ EntryIn(p) \/ EntryOut(p) \/ Gone(p)
  \/ \E b \in BayNames : ParkIn(p, b) \/ ParkOut(p, b)
NewsAction ==
  \/ \E b \in BayNames : BayBroken(b) \/ BayFixed(b)
  \/ \E p \in Plates, b \in BayNames : Collision(p, b)
  \/ \E p \in Plates : Neglected(p)
Dispatching == \E c \in calls : Begin(c) \/ Resume(c)
LegStep(p) == LegCheck(p) \/ LegEnds(p) \/ LegSends(p)
RepairStep(b) ==
  \/ RepairPutOff(b) \/ RepairSent(b) \/ RepairAnswered(b)
  \/ RepairRetried(b) \/ RepairDropped(b)

Next ==
  \/ Simulator
  \/ \E p \in Plates : CarSpotAction(p) \/ LegStep(p)
  \/ NewsAction \/ Dispatching
  \/ \E b \in BayNames : Maintain(b) \/ RepairStep(b)
  \/ \E p \in Plates, b \in BayNames : StaffDispatch(p, b)
  \/ Reap \/ EnsureOpen \/ SyncRead \/ SyncApply

Spec == Init /\ [][Next]_vars

\* Handlers and tasks are scheduled; cars drive on, park and leave, or give up
\* at the entrance; the wear check recurs and reaps; repairs end.
Fairness ==
  /\ WF_vars(Dispatching) /\ WF_vars(Reap)
  /\ \A p \in Plates :
       /\ WF_vars(CarSpotAction(p)) /\ WF_vars(LegStep(p)) /\ WF_vars(Neglected(p))
       /\ WF_vars(DriveIn(p)) /\ WF_vars(Neglect(p)) /\ WF_vars(\E b \in BayNames : ParkAt(p, b))
       /\ WF_vars(Leave(p))
  /\ \A b \in BayNames :
       /\ WF_vars(BayBroken(b)) /\ WF_vars(BayFixed(b))
       /\ WF_vars(Maintain(b)) /\ WF_vars(RepairStep(b)) /\ WF_vars(Mend(b))
FairSpec == Spec /\ Fairness

-----------------------------------------------------------------------------
(* Properties.                                                             *)

\* A car on its way to a bay it was promised.
Promised(p, b) ==
  sess[p].id # 0 /\ sess[p].phase = "assigned" /\ sess[p].spot = b
\* A car in a bay, whose arrival there has been handled.
Inside(p, b) == pos[p] = b /\ Event("park", b) \notin {inbox[p][i] : i \in DOMAIN inbox[p]}

\* A bay with a car in it is not given to another: "Freeing it would hand a bay
\* that still has a car in it to the next arrival" (mark_parked, state.py:780).
FreeIsEmpty ==
  \A p \in Plates, b \in BayNames : Inside(p, b) => bay[b].status \notin {"available", "reserved"}

\* Reserved for a car that is not on its way to it.
Leaked(b) == bay[b].status = "reserved" /\ ~Promised(bay[b].who, b)

\* A reservation is kept or taken back, whoever ends the visit: a bay leaks only when
\* a dispatch goes on whose session ended while it waited (dispatch_entry, main.py:1101).
PromisesTakenBack ==
  [][\A b \in BayNames : Leaked(b)' /\ ~Leaked(b) =>
       \E c \in calls : c.step = "waits" /\ sess[c.plate].id = 0 /\ Resume(c)]_vars

\* No repair is sent for a bay whose car's arrival was handled, whatever happened
\* between the breakdown, the queueing and the command (guarded_repair, main.py:2020).
RepairsSpareCars ==
  [][\A b \in BayNames : repair'[b] = "sent" /\ repair[b] # "sent" =>
        \A p \in Plates : ~Inside(p, b)]_vars

\* active_dispatches, which ends a dispatch early, says what the sessions say,
\* also after a sync, staff dispatches and cars that park where they please.
ActiveIsAssigned == \A p \in Plates : active[p] = IF sess[p].id = 0 THEN "none" ELSE sess[p].spot

\* A bay once seen occupied is free again only by a car that leaves it, by its
\* occupant's exit or by a sync: "hold the bay out of dispatch until a CarOut or a
\* sync proves otherwise" (_handle_occupied_bay, main.py:2941).  A repair report frees
\* the bay too when the sync did not tell whose car is in it (set_component_fixed).
OccupiedStays ==
  [][\A b \in BayNames :
       bay[b].status = "occupied" /\ bay'[b].status \in {"available", "reserved"} =>
         \/ \E p \in Plates : ParkOut(p, b) \/ (Gone(p) /\ bay[b].who = p)
         \/ SyncApply
         \/ BayFixed(b) /\ bay[b].who = "none"]_vars

\* A broken bay is repaired in the end, also when a car was promised it, was in
\* it, or when the repair's task was dropped (check_wear, main.py:859), unless it leaked.
BrokenIsRepaired == \A b \in BayNames : []<>(~bay[b].broken \/ Leaked(b))

\* Seen from outside, bays are given, taken and left one at a time (BayAllocation):
\* never to two cars, never while a car is in them, and never taken back from a car
\* in them, whatever reaping, penalties and repairs go on.
Allocation ==
  INSTANCE BayAllocation WITH
    given <- [p \in Plates |-> IF sess[p].phase \in {"assigned", "parked"} /\ sess[p].stay # "left"
                               THEN sess[p].spot ELSE "none"],
    stands <- [p \in Plates |-> IF pos[p] \in BayNames /\ Inside(p, pos[p]) THEN pos[p] ELSE "none"]
AllocatesBays == Allocation!Spec
=============================================================================

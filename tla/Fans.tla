-------------------------------- MODULE Fans --------------------------------
(***************************************************************************)
(* The exhaust fans of a zone: switched by carbon monoxide readings and by *)
(* staff, wearing out, breaking, and repaired one at a time by the         *)
(* maintenance queue, with its retries.                                    *)
(*                                                                         *)
(* A reading's handler waits for the answer to each command, and so does   *)
(* a repair, which stops the fan first: readings, staff and the wear check *)
(* go on meanwhile.  A command whose answer is lost may have been done: a  *)
(* repair that has begun unknown to the dispatcher is sent again, and the  *)
(* report that it is over lets another task be queued beside the first.    *)
(*                                                                         *)
(* Abstracted: other zones and the repair tasks of other components, which *)
(* only delay the worker; a reading is one of three levels, told apart by  *)
(* the two thresholds; wear is there or not; an answer comes before a      *)
(* repair of the fan ends; a fan out of order can be switched, and is left *)
(* so by its repair, as set_fan_on and set_component_fixed take it, and    *)
(* stays in repair if told so twice; priorities, all the same.  There is   *)
(* no sync, and no predictor's repair.                                     *)
(***************************************************************************)
EXTENDS Naturals, Sequences, FiniteSets, SequencesExt

CONSTANTS
  Fans,          \* the zone's fans, numbered in the order of state.fans
  MaxAttempts,   \* max_attempts of the maintenance queue
  Workers,       \* bound: handlers of readings and staff requests at a time
  MaxReadings,   \* bound: readings on their way
  MaxTasks,      \* bound: tasks in the maintenance queue
  Troubles       \* bound: the sets of Rare events that may happen in one behaviour

Levels == {"safe", "mid", "high"}   \* below 15, in between, above 50
Rare == {"break", "lost", "behind", "staff"}

ASSUME FansAssumption ==
  /\ Fans \subseteq Nat \ {0} /\ MaxAttempts \in Nat \ {0} /\ MaxReadings \in Nat
  /\ MaxTasks \in Nat
  /\ Troubles \subseteq SUBSET Rare

VARIABLES
  \* The simulator:
  air,         \* the zone's air
  switch,      \* fans that are switched on
  health,      \* health[f]: "fine", "broken" or "inRepair"
  readings,    \* carbon_monoxide_events on their way, oldest first
  faults,      \* faults[f]: component events on their way, oldest first
  \* The dispatcher:
  fan,         \* state.fans
  level,       \* gas_co_level of the zone
  pending,     \* pending_repairs
  flagged,     \* pending_proactive_repair:*, in the database
  tasks,       \* maintenance_queue with those that sleep, in the order of submission
  hand,        \* hand[w]: a handler that switches fans
  used         \* the Rare events that have happened

simulator == <<air, switch, health, readings, faults>>
repairs == <<pending, flagged, tasks>>
vars == <<air, switch, health, readings, faults, fan, level, pending, flagged, tasks,
          hand, used>>

Fan == [on : BOOLEAN, broken : BOOLEAN, maint : BOOLEAN, worn : BOOLEAN]
Task == [fan : Fans, step : {"ready", "asleep", "stopping", "repairing"},
         tries : 0 .. MaxAttempts - 1]
\* Why it switches fans, those it has still to look at, and the command it waits for.
Hand == [why : Levels \cup {"none", "on", "off"}, left : SUBSET Fans,
         now : Fans \cup {0}, cmd : {"none", "on", "off"}]
Free == [why |-> "none", left |-> {}, now |-> 0, cmd |-> "none"]

TypeOK ==
  /\ air \in Levels /\ switch \subseteq Fans /\ readings \in Seq(Levels)
  /\ health \in [Fans -> {"fine", "broken", "inRepair"}]
  /\ faults \in [Fans -> Seq({"broken", "fixed"})]
  /\ fan \in [Fans -> Fan] /\ level \in Levels
  /\ pending \subseteq Fans /\ flagged \subseteq Fans
  /\ tasks \in Seq(Task) /\ hand \in [Workers -> Hand]
  /\ used \subseteq Rare

Init ==
  /\ air = "safe" /\ switch = {} /\ readings = <<>> /\ level = "safe"
  /\ health = [f \in Fans |-> "fine"] /\ faults = [f \in Fans |-> <<>>]
  /\ fan = [f \in Fans |-> [on |-> FALSE, broken |-> FALSE, maint |-> FALSE, worn |-> FALSE]]
  /\ pending = {} /\ flagged = {} /\ tasks = <<>>
  /\ hand = [w \in Workers |-> Free] /\ used = {}

\* The answer to one command at most is lost in a behaviour.
Costs(ks) ==
  /\ "lost" \notin used \cap ks /\ used' = used \cup ks
  /\ \E t \in Troubles : used' \subseteq t

-----------------------------------------------------------------------------
(* The simulator (external).                                               *)

Outside == UNCHANGED <<fan, level, repairs, hand>>

\* A change of the air is reported.
Air(to) ==
  /\ to # air /\ "mid" \in {air, to} /\ Len(readings) < MaxReadings
  /\ air' = to /\ readings' = Append(readings, to)
  /\ Outside /\ UNCHANGED <<switch, health, faults, used>>

\* Only a fan that runs wears out, or breaks.
Wear(f) ==
  /\ fan[f].on /\ ~fan[f].worn
  /\ fan' = [fan EXCEPT ![f].worn = TRUE]
  /\ UNCHANGED <<simulator, level, repairs, hand, used>>

Break(f) ==
  /\ f \in switch /\ health[f] = "fine" /\ Costs({"break"})
  /\ health' = [health EXCEPT ![f] = "broken"]
  /\ faults' = [faults EXCEPT ![f] = Append(@, "broken")]
  /\ Outside /\ UNCHANGED <<air, switch, readings>>

Mend(f) ==
  /\ health[f] = "inRepair"
  /\ \A i \in DOMAIN tasks : tasks[i].fan = f => tasks[i].step # "repairing"
  /\ \A w \in Workers : hand[w].now # f
  /\ health' = [health EXCEPT ![f] = "fine"]
  /\ faults' = [faults EXCEPT ![f] = Append(@, "fixed")]
  /\ Outside /\ UNCHANGED <<air, switch, readings, used>>

Switched(f, cmd) == IF cmd = "on" THEN switch \cup {f} ELSE switch \ {f}

-----------------------------------------------------------------------------
(* The handlers that switch fans: _handle_carbon_monoxide_event and the    *)
(* operator's manual_fan_on and manual_fan_off.                            *)

\* What the handler called for w tells f to do, in the new state.
\* Deliberately wrong: a fan that works is left as it is once the air is bad.
WantsLess(f, why) ==
  IF fan'[f].broken \/ fan'[f].maint \/ f \in pending' THEN "none"
  ELSE IF why = "on" THEN "on" ELSE IF why = "off" THEN "off" ELSE "none"
Wants(f, why) ==
  IF fan'[f].broken \/ fan'[f].maint \/ f \in pending' THEN "none"
  ELSE IF why = "on" \/ (why = "high" /\ ~fan'[f].on) THEN "on"
  ELSE IF why = "off" \/ (why = "safe" /\ fan'[f].on) THEN "off" ELSE "none"

\* It sends the first command there is to send; a failed one, it leaves at that.  Two
\* commands to one fan at a time, whose answers may cross, are a Rare event.
Visits(w, why, left, ks) ==
  LET todo == {f \in left : Wants(f, why) # "none"}
      sent(f) == [why |-> why, left |-> {g \in left : g > f}, now |-> f, cmd |-> Wants(f, why)]
      cost(f) == IF \E v \in Workers \ {w} : hand[v].now = f THEN ks \cup {"behind"} ELSE ks
  IN  IF todo = {} THEN hand' = [hand EXCEPT ![w] = Free] /\ UNCHANGED switch /\ Costs(ks)
      ELSE \E f \in todo :
             /\ \A g \in todo : f <= g
             /\ \/ /\ hand' = [hand EXCEPT ![w] = sent(f)]
                   /\ switch' = Switched(f, Wants(f, why)) /\ Costs(cost(f))
                \/ /\ hand' = [hand EXCEPT ![w] = [sent(f) EXCEPT !.now = 0, !.cmd = "none"]]
                   /\ switch' \in {switch, Switched(f, Wants(f, why))}
                   /\ Costs(cost(f) \cup {"lost"})

HandUnchanged == UNCHANGED <<air, health, faults, repairs>>
\* Handlers start in the order of the readings, and when the one before has its
\* answers, but for one in a while: _key does not look at ZoneName.
Reading(w) ==
  /\ hand[w] = Free
  /\ \E i \in DOMAIN readings :
       /\ readings' = RemoveAt(readings, i)
       /\ level' = readings[i]
       /\ HandUnchanged /\ UNCHANGED fan
       /\ Visits(w, readings[i], Fans,
                 IF i = 1 /\ \A v \in Workers : hand[v].now = 0 THEN {} ELSE {"behind"})

HandGoesOn(w) ==
  /\ hand[w].why # "none" /\ hand[w].now = 0
  /\ HandUnchanged /\ UNCHANGED <<readings, level, fan>>
  /\ Visits(w, hand[w].why, hand[w].left, {})

\* set_fan_on, when the command's answer comes.
HandAnswered(w) ==
  /\ hand[w].now # 0
  /\ fan' = [fan EXCEPT ![hand[w].now].on = (hand[w].cmd = "on")]
  /\ HandUnchanged /\ UNCHANGED <<readings, level>>
  /\ Visits(w, hand[w].why, hand[w].left, {})

StaffSwitches(w, f, cmd) ==
  /\ hand[w] = Free /\ ~fan[f].broken /\ ~fan[f].maint /\ f \notin pending
  /\ HandUnchanged /\ UNCHANGED <<readings, level, fan>>
  /\ Visits(w, cmd, {f}, {"staff"})

-----------------------------------------------------------------------------
(* Repairs: _queue_repair, check_wear, guarded_repair, the queue's worker. *)

Busy(p) == {f \in Fans : f \in p \/ fan'[f].maint}
\* _queue_repair of f, of the pair r of pending repairs and tasks.
Queued(r, f) ==
  IF Busy(r[1]) # {} THEN r   \* "one fan per zone in repair: the zone keeps ventilating"
  ELSE <<r[1] \cup {f}, Append(r[2], [fan |-> f, step |-> "ready", tries |-> 0])>>
Repairs(r) == pending' = r[1] /\ tasks' = r[2] /\ Len(r[2]) <= MaxTasks

RepairsUnchanged == UNCHANGED <<air, health, readings, level, hand>>

\* Deliberately wrong: a broken fan is left to the report of its fault.
WearCheckOfWorn ==
  LET due == {f \in Fans : ~fan[f].maint /\ ~fan[f].broken /\ fan[f].worn /\ f \notin flagged}
  IN  /\ due # {}
      /\ UNCHANGED <<switch, faults, fan, used>> /\ RepairsUnchanged
      /\ flagged' = flagged \cup due
      /\ \E f \in due : (\A g \in due : f <= g) /\ Repairs(Queued(<<pending, tasks>>, f))
\* The first fan of check_wear's round that it can queue keeps the others out; those
\* worn are flagged as if they were queued, too.
WearCheck ==
  LET due == {f \in Fans : ~fan[f].maint /\ (fan[f].broken \/ (fan[f].worn /\ f \notin flagged))}
  IN  /\ due # {}
      /\ UNCHANGED <<switch, faults, fan, used>> /\ RepairsUnchanged
      /\ flagged' = flagged \cup {f \in due : ~fan[f].broken}
      /\ \E f \in due : (\A g \in due : f <= g) /\ Repairs(Queued(<<pending, tasks>>, f))

StaffRepairs(f) ==
  /\ UNCHANGED <<switch, faults, fan, flagged>> /\ RepairsUnchanged
  /\ Busy(pending) = {} /\ Costs({"staff"})
  /\ Repairs(Queued(<<pending, tasks>>, f))

\* _handle_component_broken.
FanBroken(f) ==
  /\ faults[f] # <<>> /\ Head(faults[f]) = "broken"
  /\ faults' = [faults EXCEPT ![f] = Tail(@)]
  /\ fan' = [fan EXCEPT ![f].broken = TRUE]
  /\ flagged' = flagged \ {f}
  /\ Repairs(Queued(<<pending, tasks>>, f))
  /\ UNCHANGED <<switch, used>> /\ RepairsUnchanged

\* _handle_component_fixed goes on as if the zone's last reading came again.
FanFixed(w, f) ==
  /\ hand[w] = Free /\ faults[f] # <<>> /\ Head(faults[f]) = "fixed"
  /\ faults' = [faults EXCEPT ![f] = Tail(@)]
  /\ fan' = [fan EXCEPT ![f].broken = FALSE, ![f].maint = FALSE, ![f].worn = FALSE]
  /\ pending' = pending \ {f} /\ flagged' = flagged \ {f}
  /\ UNCHANGED <<air, health, readings, level, tasks>>
  /\ Visits(w, level, Fans, {})

\* Task i ends; or an attempt at it failed: _retry_later, or it is dropped.
Ends(i) == tasks' = RemoveAt(tasks, i) /\ pending' = pending \ {tasks[i].fan}
Sleeps(i) ==
  /\ tasks' = [tasks EXCEPT ![i].step = "asleep", ![i].tries = @ + 1]
  /\ UNCHANGED <<pending, flagged>>
\* Deliberately wrong: one attempt more.
FailedOnceMore(i) ==
  IF tasks[i].tries < MaxAttempts THEN Sleeps(i)
  ELSE Ends(i) /\ flagged' = flagged \ {tasks[i].fan}
Failed(i) ==
  IF tasks[i].tries + 1 < MaxAttempts THEN Sleeps(i)
  ELSE Ends(i) /\ flagged' = flagged \ {tasks[i].fan}

Wake(i) ==
  /\ i \in DOMAIN tasks /\ tasks[i].step = "asleep"
  /\ tasks' = [tasks EXCEPT ![i].step = "ready"]
  /\ UNCHANGED <<switch, faults, fan, pending, flagged, used>> /\ RepairsUnchanged

WorkerUnchanged == UNCHANGED <<air, readings, faults, level, hand>>
\* The worker has taken task i: the oldest that is due.
Takes(i) ==
  /\ tasks[i].step = "ready"
  /\ \A j \in DOMAIN tasks : tasks[j].step \notin {"stopping", "repairing"}
                            /\ (j < i => tasks[j].step = "asleep")

InRepair(f) == [health EXCEPT ![f] = "inRepair"]
Sends(i) ==
  \/ /\ tasks' = [tasks EXCEPT ![i].step = "repairing"]
     /\ health' = InRepair(tasks[i].fan)
     /\ UNCHANGED <<pending, flagged>> /\ Costs({})
  \/ Failed(i) /\ health' \in {health, InRepair(tasks[i].fan)} /\ Costs({"lost"})

\* guarded_repair, from its start until its first command.
\* Deliberately wrong: a fan is not stopped first.
RepairBeginsRunning(i) ==
  LET f == tasks[i].fan IN
  /\ Takes(i) /\ WorkerUnchanged /\ UNCHANGED <<fan, switch>>
  /\ IF fan[f].on /\ ~fan[f].broken /\ level # "safe" THEN Failed(i) /\ UNCHANGED <<health, used>>
     ELSE Sends(i)
RepairBegins(i) ==
  LET f == tasks[i].fan IN
  /\ Takes(i) /\ WorkerUnchanged /\ UNCHANGED fan
  /\ IF fan[f].maint THEN Ends(i) /\ UNCHANGED <<switch, health, flagged, used>>
     ELSE IF ~fan[f].on \/ fan[f].broken THEN Sends(i) /\ UNCHANGED switch
     ELSE IF level # "safe" THEN Failed(i) /\ UNCHANGED <<switch, health, used>>
     ELSE \/ /\ tasks' = [tasks EXCEPT ![i].step = "stopping"]
             /\ switch' = Switched(f, "off") /\ UNCHANGED <<health, pending, flagged, used>>
          \/ /\ Failed(i) /\ switch' \in {switch, Switched(f, "off")}
             /\ UNCHANGED health /\ Costs({"lost"})

Stopped(i) ==
  /\ tasks[i].step = "stopping" /\ fan' = [fan EXCEPT ![tasks[i].fan].on = FALSE]
  /\ WorkerUnchanged /\ UNCHANGED switch /\ Sends(i)

RepairAccepted(i) ==
  /\ tasks[i].step = "repairing" /\ Ends(i)
  /\ fan' = [fan EXCEPT ![tasks[i].fan].maint = TRUE]
  /\ WorkerUnchanged /\ UNCHANGED <<switch, health, flagged, used>>

-----------------------------------------------------------------------------
Simulator == (\E to \in Levels : Air(to)) \/ \E f \in Fans : Wear(f) \/ Break(f) \/ Mend(f)
Handler(w) ==
  \/ Reading(w) \/ HandGoesOn(w) \/ HandAnswered(w)
  \/ \E f \in Fans : FanFixed(w, f)
Repair == \E i \in DOMAIN tasks : RepairBegins(i) \/ Stopped(i) \/ RepairAccepted(i)
Staff ==
  \E f \in Fans :
    \/ StaffRepairs(f)
    \/ \E w \in Workers, cmd \in {"on", "off"} : StaffSwitches(w, f, cmd)

Next ==
  \/ Simulator \/ Staff \/ WearCheck
  \/ \E w \in Workers : Handler(w)
  \/ \E f \in Fans : FanBroken(f)
  \/ Repair \/ \E i \in 1 .. MaxTasks : Wake(i)

Spec == Init /\ [][Next]_vars

\* Webhooks are handled, the queue's worker works and its sleepers wake, the wear check
\* comes round, and a fan in repair is mended.
Fairness ==
  /\ SF_vars(\E w \in Workers : Reading(w))
  /\ \A w \in Workers : WF_vars(HandGoesOn(w) \/ HandAnswered(w))
  /\ \A f \in Fans : /\ SF_vars(\E w \in Workers : FanFixed(w, f)) /\ WF_vars(FanBroken(f))
                     /\ WF_vars(Mend(f))
  /\ WF_vars(Repair) /\ \A i \in 1 .. MaxTasks : WF_vars(Wake(i))
  /\ WF_vars(WearCheck)
FairSpec == Spec /\ Fairness

-----------------------------------------------------------------------------
(* Properties.                                                             *)

\* A fan that works is stopped before it is repaired, unless the dispatcher cannot
\* know better: a command to it is unanswered, or its answer was wrong or was overtaken
\* by another (main.py:2032).
StopsFirst ==
  [][\A f \in Fans :
       health[f] = "fine" /\ health'[f] = "inRepair" /\ f \in switch
         => (\E w \in Workers : hand[w].now = f) \/ used \cap {"lost", "behind"} # {}]_vars

\* Bad air is ventilated in the end by each fan that works, and no fan runs for ever
\* in good air, also when it was broken, in repair or queued for it as the reading
\* came (main.py:2640, main.py:2620).
FansFollowAir ==
  \A f \in Fans :
    \/ <>[](health[f] = "fine" /\ air = "high" /\ f \notin switch)
    \/ <>[](health[f] = "fine" /\ air = "safe" /\ f \in switch)
    => <>[](used \cap {"lost", "behind", "staff"} # {})

\* A broken fan is repaired in the end, also when another fan of its zone was in
\* repair as it broke; unless the air never gets better: then a worn fan that runs may
\* be queued, postponed and dropped for ever, and keeps the broken one out (main.py:862).
BrokenIsRepaired == \A f \in Fans : []<>(~fan[f].broken \/ level # "safe")

\* "two fans in one zone are repaired one at a time" (docs/ENGINEERING_LOG.md:1085): one
\* that has worn out while another is in repair has its turn, if the air gets better.
WornIsRepaired == \A f \in Fans : []<>(~fan[f].worn \/ level # "safe")
=============================================================================

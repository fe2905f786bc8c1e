----------------------------- MODULE FansProofs -----------------------------
(***************************************************************************)
(* Proofs about Fans, for any number of fans, of handlers at a time, of    *)
(* attempts and of readings on their way, and any troubles.                *)
(***************************************************************************)
EXTENDS Fans, SequenceTheorems, TLAPS

LEMMA Bounds ==
  Fans \subseteq Nat \ {0} /\ 0 \notin Fans /\ MaxAttempts \in Nat /\ MaxAttempts # 0
BY FansAssumption

USE Bounds

-----------------------------------------------------------------------------
(* The inductive invariant.                                                *)

\* Of one zone's fans at most one is in repair or to be repaired, and the only task there
\* may be is that of the fan to be repaired.
OneRepair ==
  /\ \A f, g \in Fans :
       (f \in pending \/ fan[f].maint) /\ (g \in pending \/ fan[g].maint) => f = g
  /\ Len(tasks) <= 1
  /\ tasks # <<>> => tasks[1].fan \in pending /\ ~fan[tasks[1].fan].maint

\* What its task, if it has one, does for f.
Step(f) == IF tasks # <<>> /\ tasks[1].fan = f THEN tasks[1].step ELSE "none"

\* A repair of f from its command to the report that it is over.
Waits(f, what) == \E i \in 1 .. Len(faults[f]) : faults[f][i] = what
Repaired(f) ==
  /\ Step(f) = "repairing" => health[f] = "inRepair"
  /\ health[f] = "inRepair" =>
       (Step(f) = "repairing" \/ fan[f].maint) /\ ~Waits(f, "fixed")
  /\ Waits(f, "fixed") => fan[f].maint

\* A fan that is taken for broken is, or is in repair; of its reports one at a time says
\* that it is repaired, and after it comes none that it broke unless it has.
Reported(f) ==
  /\ fan[f].broken => health[f] # "fine" \/ fan[f].maint
  /\ \A i, j \in 1 .. Len(faults[f]) : faults[f][i] = "fixed" /\ faults[f][j] = "fixed" => i = j
  /\ \A i \in 1 .. Len(faults[f]) :
       faults[f][i] = "broken" =>
         health[f] # "fine" \/ \E j \in 1 .. Len(faults[f]) : i < j /\ faults[f][j] = "fixed"

Course == \A f \in Fans : Repaired(f) /\ Reported(f)

\* As long as no command or answer is lost or overtaken, a fan that runs is known to, or
\* a command to it is unanswered.
Clear == used \cap {"lost", "behind"} = {}
Heard ==
  /\ \A v, w \in Workers : hand[v].now = hand[w].now /\ hand[v].now # 0 => v = w
  /\ \A w \in Workers : hand[w].now # 0 => \/ hand[w].cmd = "on"
                                           \/ hand[w].cmd = "off" /\ hand[w].now \notin switch
  /\ \A f \in switch : fan[f].on \/ \E w \in Workers : hand[w].now = f

Stopping == \A f \in Fans : Step(f) = "stopping" => f \notin switch

\* A repair that has begun unknown to the dispatcher, as its answer was lost, breaks all
\* of this: another fan of the zone may be queued when it is over, and sent first.
Order == OneRepair /\ Course /\ (Clear => Heard) /\ Stopping
IInv == TypeOK /\ ("lost" \notin used => Order)

-----------------------------------------------------------------------------
(* What the parts of the actions do.                                       *)

LEMMA TypeFacts ==
  ASSUME TypeOK
  PROVE  /\ switch \subseteq Fans /\ readings \in Seq(Levels) /\ level \in Levels
         /\ health \in [Fans -> {"fine", "broken", "inRepair"}]
         /\ faults \in [Fans -> Seq({"broken", "fixed"})]
         /\ fan \in [Fans -> Fan] /\ pending \subseteq Fans /\ flagged \subseteq Fans
         /\ tasks \in Seq(Task) /\ hand \in [Workers -> Hand] /\ used \subseteq Rare
         /\ air \in Levels
BY DEF TypeOK

LEMMA TaskFacts ==
  /\ \A f \in Fans : [fan |-> f, step |-> "ready", tries |-> 0] \in Task
  /\ \A t \in Task : t.fan \in Fans /\ t.step # "none"
  /\ \A t \in Task, s \in {"ready", "stopping", "repairing"} :
       /\ [t EXCEPT !.step = s] \in Task
       /\ [t EXCEPT !.step = s].step = s /\ [t EXCEPT !.step = s].fan = t.fan
BY DEF Task

LEMMA HandFacts ==
  /\ Free \in Hand /\ Free.now = 0
  /\ \A r \in Hand : r.now \in Fans \cup {0} /\ r.cmd \in {"none", "on", "off"}
                     /\ r.left \subseteq Fans /\ r.why \in Levels \cup {"none", "on", "off"}
BY DEF Free, Hand

\* The handler of w sends a command, of which it waits for the answer if it is not lost,
\* or is done.
Moves(w, h) ==
  /\ h \in Hand /\ hand' = [hand EXCEPT ![w] = h]
  /\ \/ h.now = 0 /\ switch' = switch
     \/ \E f \in Fans :
          /\ f \notin pending' /\ ~fan'[f].maint
          /\ (\E v \in Workers \ {w} : hand[v].now = f) => "behind" \in used'
          /\ \/ h.now = 0 /\ switch' \in {switch, Switched(f, "on"), Switched(f, "off")}
                /\ "lost" \in used'
             \/ h.now = f /\ h.cmd \in {"on", "off"} /\ switch' = Switched(f, h.cmd)

LEMMA VisitsFacts ==
  ASSUME TypeOK, NEW w \in Workers, NEW why \in Levels \cup {"on", "off"},
         NEW left \in SUBSET Fans, NEW ks \in SUBSET Rare, Visits(w, why, left, ks)
  PROVE  /\ used' \subseteq Rare /\ used \cup ks \subseteq used'
         /\ \E h : Moves(w, h)
<1> DEFINE todo == {f \in left : Wants(f, why) # "none"}
           sent(f) == [why |-> why, left |-> {g \in left : g > f}, now |-> f, cmd |-> Wants(f, why)]
           lost(f) == [sent(f) EXCEPT !.now = 0, !.cmd = "none"]
           cost(f) == IF \E v \in Workers \ {w} : hand[v].now = f THEN ks \cup {"behind"} ELSE ks
<1>1. CASE todo = {}
  <2>1. hand' = [hand EXCEPT ![w] = Free] /\ UNCHANGED switch /\ Costs(ks)
    BY <1>1 DEF Visits
  <2>2. QED
    BY <2>1, HandFacts, TypeFacts DEF Costs, Moves
<1>2. CASE todo # {}
  <2>1. PICK f \in todo :
           \/ /\ hand' = [hand EXCEPT ![w] = sent(f)]
              /\ switch' = Switched(f, Wants(f, why)) /\ Costs(cost(f))
           \/ /\ hand' = [hand EXCEPT ![w] = lost(f)]
              /\ switch' \in {switch, Switched(f, Wants(f, why))}
              /\ Costs(cost(f) \cup {"lost"})
    BY <1>2 DEF Visits
  <2>2. f \in Fans /\ Wants(f, why) \in {"on", "off"} /\ f \notin pending' /\ ~fan'[f].maint
    BY DEF Wants
  <2>3. sent(f) \in Hand /\ lost(f) \in Hand
    BY <2>2 DEF Hand
  <2>4. sent(f).now = f /\ sent(f).cmd = Wants(f, why) /\ lost(f).now = 0
    OBVIOUS
  <2>5. /\ cost(f) \subseteq Rare /\ ks \subseteq cost(f)
        /\ (\E v \in Workers \ {w} : hand[v].now = f) => "behind" \in cost(f)
    BY DEF Rare
  <2> HIDE DEF sent, lost, cost
  <2>6. used' \subseteq Rare /\ used \cup cost(f) \subseteq used'
    BY <2>1, <2>5, TypeFacts DEF Costs, Rare
  <2>7. CASE hand' = [hand EXCEPT ![w] = sent(f)] /\ switch' = Switched(f, Wants(f, why))
    BY <2>2, <2>3, <2>4, <2>5, <2>6, <2>7 DEF Moves
  <2>8. CASE /\ hand' = [hand EXCEPT ![w] = lost(f)] /\ "lost" \in used'
             /\ switch' \in {switch, Switched(f, Wants(f, why))}
    BY <2>2, <2>3, <2>4, <2>5, <2>6, <2>8 DEF Moves
  <2>9. QED
    BY <2>1, <2>7, <2>8 DEF Costs
<1>3. QED
  BY <1>1, <1>2

\* A repair is queued, if no other fan is in repair.
LEMMA QueuedFacts ==
  ASSUME TypeOK, NEW f \in Fans, Repairs(Queued(<<pending, tasks>>, f))
  PROVE  /\ pending' \subseteq Fans /\ tasks' \in Seq(Task)
         /\ \/ UNCHANGED <<pending, tasks>>
            \/ /\ pending = {} /\ \A g \in Fans : ~fan'[g].maint
               /\ pending' = {f}
               /\ \E r \in Task : r.fan = f /\ r.step = "ready" /\ tasks' = Append(tasks, r)
<1>1. CASE Busy(pending) # {}
  BY <1>1, TypeFacts DEF Repairs, Queued
<1>2. CASE Busy(pending) = {}
  <2> DEFINE r == [fan |-> f, step |-> "ready", tries |-> 0]
  <2>1. pending' = pending \cup {f} /\ tasks' = Append(tasks, r)
    BY <1>2 DEF Repairs, Queued
  <2>2. pending = {} /\ \A g \in Fans : ~fan'[g].maint
    BY <1>2, TypeFacts DEF Busy
  <2>3. r \in Task /\ r.fan = f /\ r.step = "ready"
    BY TaskFacts
  <2> HIDE DEF r
  <2>4. tasks' \in Seq(Task)
    BY <2>1, <2>3, TypeFacts
  <2>5. QED
    BY <2>1, <2>2, <2>3, <2>4
<1>3. QED
  BY <1>1, <1>2

LEMMA RemoveAtType ==
  ASSUME NEW S, NEW s \in Seq(S), NEW i \in DOMAIN s
  PROVE  RemoveAt(s, i) \in Seq(S) /\ (Len(s) <= 1 => RemoveAt(s, i) = <<>>)
<1>1. i \in 1 .. Len(s) /\ Len(s) \in Nat
  OBVIOUS
<1>2. SubSeq(s, 1, i - 1) \in Seq(S) /\ Len(SubSeq(s, 1, i - 1)) = i - 1
  BY <1>1, SubSeqProperties
<1>3. /\ SubSeq(s, i + 1, Len(s)) \in Seq(S)
      /\ Len(SubSeq(s, i + 1, Len(s))) = Len(s) - i
  BY <1>1, SubSeqProperties
<1>4. RemoveAt(s, i) \in Seq(S) /\ Len(RemoveAt(s, i)) = Len(s) - 1
  <2> DEFINE u == SubSeq(s, 1, i - 1)
             v == SubSeq(s, i + 1, Len(s))
  <2>1. RemoveAt(s, i) = u \o v
    BY DEF RemoveAt
  <2>2. u \in Seq(S) /\ v \in Seq(S) /\ Len(u) = i - 1 /\ Len(v) = Len(s) - i
    BY <1>2, <1>3
  <2> HIDE DEF u, v
  <2>3. u \o v \in Seq(S) /\ Len(u \o v) = Len(u) + Len(v)
    BY <2>2
  <2>4. QED
    BY <1>1, <2>1, <2>2, <2>3
<1>5. Len(s) <= 1 => RemoveAt(s, i) = <<>>
  BY <1>1, <1>4
<1>6. QED
  BY <1>4, <1>5

\* Task i, one of f, gets to step s, or ends.
Goes(i, f, s) ==
  \/ s = "none" /\ tasks' = RemoveAt(tasks, i)
  \/ \E r \in Task : r.fan = f /\ r.step = s /\ tasks' = [tasks EXCEPT ![i] = r]

LEMMA GoesFacts ==
  ASSUME TypeOK, NEW i \in DOMAIN tasks, NEW s, Goes(i, tasks[i].fan, s)
  PROVE  /\ tasks' \in Seq(Task)
         /\ Len(tasks) <= 1 =>
              /\ i = 1 /\ Len(tasks') <= 1
              /\ tasks' # <<>> => tasks'[1].fan = tasks[1].fan /\ s # "none"
              /\ \A g \in Fans : Step(g)' = IF g = tasks[i].fan THEN s ELSE Step(g)
<1>1. tasks \in Seq(Task) /\ i \in 1 .. Len(tasks) /\ Len(tasks) \in Nat /\ tasks # <<>>
  BY TypeFacts
<1>2. CASE s = "none" /\ tasks' = RemoveAt(tasks, i)
  <2>1. tasks' \in Seq(Task) /\ (Len(tasks) <= 1 => tasks' = <<>>)
    BY <1>1, <1>2, RemoveAtType
  <2>2. QED
    BY <1>1, <1>2, <2>1 DEF Step
<1>3. ASSUME NEW r \in Task, r.fan = tasks[i].fan, r.step = s, tasks' = [tasks EXCEPT ![i] = r]
      PROVE  /\ tasks' \in Seq(Task)
             /\ Len(tasks) <= 1 =>
                  /\ i = 1 /\ Len(tasks') <= 1
                  /\ tasks' # <<>> => tasks'[1].fan = tasks[1].fan /\ s # "none"
                  /\ \A g \in Fans : Step(g)' = IF g = tasks[i].fan THEN s ELSE Step(g)
  <2>1. /\ tasks' \in Seq(Task) /\ Len(tasks') = Len(tasks) /\ tasks'[i] = r /\ tasks' # <<>>
    BY <1>1, <1>3
  <2>2. s # "none"
    BY <1>3, TaskFacts
  <2>3. Len(tasks) <= 1 => i = 1
    BY <1>1
  <2>4. QED
    BY <1>1, <1>3, <2>1, <2>2, <2>3 DEF Step
<1>4. QED
  BY <1>2, <1>3 DEF Goes

LEMMA FailedFacts ==
  ASSUME TypeOK, NEW i \in DOMAIN tasks, Failed(i)
  PROVE  LET f == tasks[i].fan IN
         \/ Goes(i, f, "asleep") /\ UNCHANGED <<pending, flagged>>
         \/ Goes(i, f, "none") /\ pending' = pending \ {f} /\ flagged' = flagged \ {f}
<1>1. tasks[i] \in Task
  BY TypeFacts
<1>2. CASE tasks[i].tries + 1 < MaxAttempts
  <2> DEFINE r == [tasks[i] EXCEPT !.step = "asleep", !.tries = @ + 1]
  <2>1. tasks[i].tries + 1 \in 0 .. MaxAttempts - 1
    BY <1>1, <1>2 DEF Task
  <2>2. r \in Task /\ r.step = "asleep" /\ r.fan = tasks[i].fan
    BY <1>1, <2>1 DEF Task
  <2>3. tasks' = [tasks EXCEPT ![i] = r] /\ UNCHANGED <<pending, flagged>>
    BY <1>2 DEF Failed, Sleeps
  <2> HIDE DEF r
  <2>4. QED
    BY <2>2, <2>3 DEF Goes
<1>3. CASE ~(tasks[i].tries + 1 < MaxAttempts)
  BY <1>3 DEF Failed, Ends, Goes
<1>4. QED
  BY <1>2, <1>3

LEMMA SendsFacts ==
  ASSUME TypeOK, NEW i \in DOMAIN tasks, Sends(i)
  PROVE  LET f == tasks[i].fan IN
         /\ used' \subseteq Rare /\ used \subseteq used'
         /\ \/ /\ Goes(i, f, "repairing") /\ health' = InRepair(f)
               /\ UNCHANGED <<pending, flagged>>
            \/ /\ "lost" \in used' /\ health' \in {health, InRepair(f)}
               /\ \/ Goes(i, f, "asleep") /\ UNCHANGED <<pending, flagged>>
                  \/ Goes(i, f, "none") /\ pending' = pending \ {f} /\ flagged' = flagged \ {f}
<1>1. used' \subseteq Rare /\ used \subseteq used'
  BY TypeFacts DEF Sends, Costs, Rare
<1>2. CASE Failed(i) /\ health' \in {health, InRepair(tasks[i].fan)} /\ Costs({"lost"})
  BY <1>1, <1>2, FailedFacts DEF Costs
<1>3. CASE /\ tasks' = [tasks EXCEPT ![i].step = "repairing"]
           /\ health' = InRepair(tasks[i].fan) /\ UNCHANGED <<pending, flagged>>
  <2> DEFINE r == [tasks[i] EXCEPT !.step = "repairing"]
  <2>1. r \in Task /\ r.step = "repairing" /\ r.fan = tasks[i].fan
    <3>1. tasks[i] \in Task
      BY TypeFacts
    <3>2. QED
      BY <3>1, TaskFacts
  <2>2. tasks' = [tasks EXCEPT ![i] = r]
    BY <1>3
  <2> HIDE DEF r
  <2>3. QED
    BY <1>1, <1>3, <2>1, <2>2 DEF Goes
<1>4. QED
  BY <1>2, <1>3 DEF Sends

-----------------------------------------------------------------------------
(* The parts of the invariant.                                             *)

\* A fan of which nothing is changed that matters.
LEMMA OthersCourse ==
  ASSUME Course, NEW g \in Fans, health'[g] = health[g], faults'[g] = faults[g],
         fan'[g].maint = fan[g].maint, fan'[g].broken = fan[g].broken,
         (Step(g)' = "repairing") = (Step(g) = "repairing")
  PROVE  (Repaired(g) /\ Reported(g))'
<1>1. Repaired(g) /\ Reported(g)
  BY DEF Course
<1>2. QED
  BY <1>1 DEF Repaired, Reported, Waits

\* Handlers with the answers they wait for.
LEMMA MovesHeard ==
  ASSUME TypeOK, Clear => Heard, NEW w \in Workers, NEW h, Moves(w, h), used \subseteq used',
         \A f \in Fans : IF hand[w].now = f THEN hand[w].cmd = "on" => fan'[f].on
                         ELSE fan'[f].on = fan[f].on
  PROVE  (Clear => Heard)'
<1> SUFFICES ASSUME Clear' PROVE Heard'
  OBVIOUS
<1>1. Clear /\ "lost" \notin used' /\ "behind" \notin used'
  BY DEF Clear
<1>2. Heard
  BY <1>1
<1>3. \A v \in Workers : hand'[v] = IF v = w THEN h ELSE hand[v]
  BY TypeFacts DEF Moves
<1>4. 0 \notin switch /\ switch \subseteq Fans
  BY TypeFacts
<1>5. CASE h.now = 0 /\ switch' = switch
  <2>1. \A u, v \in Workers : hand'[u].now = hand'[v].now /\ hand'[u].now # 0 => u = v
    BY <1>2, <1>3, <1>5 DEF Heard
  <2>2. \A v \in Workers : hand'[v].now # 0 => \/ hand'[v].cmd = "on"
                                               \/ hand'[v].cmd = "off" /\ hand'[v].now \notin switch'
    BY <1>2, <1>3, <1>5 DEF Heard
  <2>3. ASSUME NEW f \in switch'
        PROVE  fan'[f].on \/ \E v \in Workers : hand'[v].now = f
    <3>1. CASE hand[w].now = f
      <4>1. f # 0 /\ f \in switch /\ f \in Fans
        BY <1>4, <1>5
      <4>2. hand[w].cmd = "on"
        BY <1>2, <3>1, <4>1 DEF Heard
      <4>3. QED
        BY <3>1, <4>1, <4>2
    <3>2. CASE hand[w].now # f
      BY <1>2, <1>3, <1>4, <1>5, <3>2 DEF Heard
    <3>3. QED
      BY <3>1, <3>2
  <2>4. QED
    BY <2>1, <2>2, <2>3 DEF Heard
<1>6. ASSUME NEW f \in Fans, \A v \in Workers \ {w} : hand[v].now # f,
             h.now = f, h.cmd \in {"on", "off"}, switch' = Switched(f, h.cmd)
      PROVE  Heard'
  <2>1. \A u, v \in Workers : hand'[u].now = hand'[v].now /\ hand'[u].now # 0 => u = v
    BY <1>2, <1>3, <1>6 DEF Heard
  <2>2. \A v \in Workers : hand'[v].now # 0 => \/ hand'[v].cmd = "on"
                                               \/ hand'[v].cmd = "off" /\ hand'[v].now \notin switch'
    BY <1>2, <1>3, <1>6 DEF Heard, Switched
  <2>3. ASSUME NEW g \in switch'
        PROVE  fan'[g].on \/ \E v \in Workers : hand'[v].now = g
    <3>1. CASE g = f
      BY <1>3, <1>6, <3>1
    <3>2. CASE g # f /\ hand[w].now = g
      <4>1. g \in switch /\ g # 0
        BY <1>4, <1>6, <3>2 DEF Switched
      <4>2. hand[w].cmd = "on"
        BY <1>2, <3>2, <4>1 DEF Heard
      <4>3. QED
        BY <1>4, <3>2, <4>1, <4>2
    <3>3. CASE g # f /\ hand[w].now # g
      <4>1. g \in switch
        BY <1>6, <3>3 DEF Switched
      <4>2. QED
        BY <1>2, <1>3, <1>4, <3>3, <4>1 DEF Heard
    <3>4. QED
      BY <3>1, <3>2, <3>3
  <2>4. QED
    BY <2>1, <2>2, <2>3 DEF Heard
<1>7. QED
  BY <1>1, <1>5, <1>6 DEF Moves

LEMMA OthersHeard ==
  ASSUME TypeOK, Clear => Heard, hand' = hand, used \subseteq used', switch' \subseteq switch,
         \A f \in switch' : fan'[f].on = fan[f].on
  PROVE  (Clear => Heard)'
BY DEF Clear, Heard

LEMMA MovesStopping ==
  ASSUME TypeOK, OneRepair, Stopping, NEW w \in Workers, NEW h, Moves(w, h), tasks' = tasks,
         \A f \in Fans : ~fan[f].maint /\ f \in pending => f \in pending'
  PROVE  Stopping'
<1>1. ASSUME NEW f \in Fans, Step(f) = "stopping"
      PROVE  f \notin switch'
  <2>1. f \in pending' /\ f \notin switch
    BY <1>1 DEF OneRepair, Stopping, Step
  <2>2. QED
    BY <2>1 DEF Moves, Switched
<1>2. QED
  BY <1>1 DEF Stopping, Step

\* The only fan with a task is one to be repaired.
LEMMA StepFacts ==
  ASSUME TypeOK, OneRepair, NEW f \in Fans, Step(f) # "none"
  PROVE  /\ f \in pending /\ ~fan[f].maint
         /\ tasks # <<>> /\ tasks[1].fan = f /\ tasks[1].step = Step(f)
BY DEF OneRepair, Step

LEMMA QueuedOneRepair ==
  ASSUME TypeOK, OneRepair, NEW f \in Fans, Repairs(Queued(<<pending, tasks>>, f)),
         \A g \in Fans : fan'[g].maint = fan[g].maint
  PROVE  /\ OneRepair'
         /\ \A g \in Fans : Step(g)' = Step(g) \/ (Step(g) = "none" /\ Step(g)' = "ready")
<1>1. CASE UNCHANGED <<pending, tasks>>
  <2>1. tasks # <<>> => tasks[1] \in Task /\ tasks[1].fan \in Fans
    BY TypeFacts, TaskFacts
  <2>2. QED
    BY <1>1, <2>1 DEF OneRepair, Step
<1>2. ASSUME NEW r \in Task, r.fan = f, r.step = "ready", pending = {},
             \A g \in Fans : ~fan'[g].maint,
             pending' = {f}, tasks' = Append(tasks, r)
      PROVE  /\ OneRepair'
             /\ \A g \in Fans : Step(g)' = Step(g) \/ (Step(g) = "none" /\ Step(g)' = "ready")
  <2>1. tasks = <<>>
    BY <1>2 DEF OneRepair
  <2>2. Len(tasks') = 1 /\ tasks' # <<>> /\ tasks'[1] = r
    BY <1>2, <2>1
  <2>3. QED
    BY <1>2, <2>1, <2>2 DEF OneRepair, Step
<1>3. QED
  BY <1>1, <1>2, QueuedFacts

-----------------------------------------------------------------------------
(* The steps.                                                              *)

\* Readings, staff, and reports of repairs, with the commands they lead to.
HandStep(w) ==
  \/ Handler(w)
  \/ \E f \in Fans, cmd \in {"on", "off"} : StaffSwitches(w, f, cmd)

\* What each of them does before it sends a command.
LEMMA HandStepFacts ==
  ASSUME TypeOK, NEW w \in Workers, HandStep(w)
  PROVE  /\ UNCHANGED <<air, health, tasks>>
         /\ readings' \in Seq(Levels) /\ level' \in Levels
         /\ \E why \in Levels \cup {"on", "off"}, left \in SUBSET Fans, ks \in SUBSET Rare :
              Visits(w, why, left, ks)
         /\ \/ /\ UNCHANGED <<faults, pending, flagged>>
               /\ \/ fan' = fan /\ hand[w].now = 0
                  \/ /\ hand[w].now # 0
                     /\ fan' = [fan EXCEPT ![hand[w].now].on = (hand[w].cmd = "on")]
            \/ \E f \in Fans :
                 /\ hand[w].now = 0
                 /\ faults[f] # <<>> /\ Head(faults[f]) = "fixed"
                 /\ faults' = [faults EXCEPT ![f] = Tail(@)]
                 /\ fan' = [fan EXCEPT ![f].broken = FALSE, ![f].maint = FALSE, ![f].worn = FALSE]
                 /\ pending' = pending \ {f} /\ flagged' = flagged \ {f}
<1>1. /\ readings \in Seq(Levels) /\ level \in Levels /\ hand[w] \in Hand
      /\ {} \in SUBSET Rare /\ {"behind"} \in SUBSET Rare /\ {"staff"} \in SUBSET Rare
  BY TypeFacts DEF Rare
<1>2. CASE Reading(w)
  <2>1. PICK i \in DOMAIN readings :
          /\ readings' = RemoveAt(readings, i) /\ level' = readings[i]
          /\ HandUnchanged /\ UNCHANGED fan
          /\ Visits(w, readings[i], Fans,
                    IF i = 1 /\ \A v \in Workers : hand[v].now = 0 THEN {} ELSE {"behind"})
    BY <1>2 DEF Reading
  <2>2. readings[i] \in Levels /\ readings' \in Seq(Levels)
    BY <1>1, <2>1, RemoveAtType
  <2>3. hand[w].now = 0
    BY <1>2, HandFacts DEF Reading
  <2>4. \E ks \in SUBSET Rare : Visits(w, readings[i], Fans, ks)
    BY <1>1, <2>1
  <2>5. QED
    BY <1>1, <2>1, <2>2, <2>3, <2>4 DEF HandUnchanged, repairs
<1>3. CASE HandGoesOn(w)
  <2>1. hand[w].why \in Levels \cup {"on", "off"} /\ hand[w].left \in SUBSET Fans
    BY <1>1, <1>3 DEF Hand, HandGoesOn
  <2>2. QED
    BY <1>1, <1>3, <2>1 DEF HandGoesOn, HandUnchanged, repairs
<1>4. CASE HandAnswered(w)
  <2>1. hand[w].why \in Levels \cup {"none", "on", "off"} /\ hand[w].left \in SUBSET Fans
    BY <1>1 DEF Hand
  <2>2. CASE hand[w].why # "none"
    BY <1>1, <1>4, <2>1, <2>2 DEF HandAnswered, HandUnchanged, repairs
  <2>3. CASE hand[w].why = "none"
    <3>1. Visits(w, "mid", hand[w].left, {})
      BY <1>4, <2>3 DEF HandAnswered, Visits, Wants
    <3>2. QED
      BY <1>1, <1>4, <2>1, <3>1 DEF HandAnswered, HandUnchanged, repairs, Levels
  <2>4. QED
    BY <2>2, <2>3
<1>5. ASSUME NEW f \in Fans, FanFixed(w, f)
      PROVE  /\ UNCHANGED <<air, health, tasks>>
             /\ readings' \in Seq(Levels) /\ level' \in Levels
             /\ Visits(w, level, Fans, {})
             /\ hand[w].now = 0
             /\ faults[f] # <<>> /\ Head(faults[f]) = "fixed"
             /\ faults' = [faults EXCEPT ![f] = Tail(@)]
             /\ fan' = [fan EXCEPT ![f].broken = FALSE, ![f].maint = FALSE, ![f].worn = FALSE]
             /\ pending' = pending \ {f} /\ flagged' = flagged \ {f}
  BY <1>1, <1>5, HandFacts DEF FanFixed
<1>6. ASSUME NEW f \in Fans, NEW cmd \in {"on", "off"}, StaffSwitches(w, f, cmd)
      PROVE  /\ UNCHANGED <<air, health, tasks, readings, level, faults, pending, flagged, fan>>
             /\ Visits(w, cmd, {f}, {"staff"}) /\ hand[w].now = 0
  BY <1>1, <1>6, HandFacts DEF StaffSwitches, HandUnchanged, repairs
<1>7. CASE \E f \in Fans : FanFixed(w, f)
  BY <1>1, <1>5, <1>7
<1>8. CASE \E f \in Fans, cmd \in {"on", "off"} : StaffSwitches(w, f, cmd)
  BY <1>1, <1>6, <1>8
<1>9. QED
  BY <1>2, <1>3, <1>4, <1>7, <1>8 DEF HandStep, Handler

LEMMA HandStepInv ==
  ASSUME IInv, NEW w \in Workers, HandStep(w)
  PROVE  IInv'
<1>1. TypeOK /\ ("lost" \notin used => OneRepair /\ Course /\ (Clear => Heard) /\ Stopping)
  BY DEF IInv, Order
<1>2. PICK h : Moves(w, h) /\ used' \subseteq Rare /\ used \subseteq used'
  BY <1>1, HandStepFacts, VisitsFacts
<1>3. switch' \subseteq Fans /\ hand' \in [Workers -> Hand]
  BY <1>1, <1>2, TypeFacts DEF Moves, Switched
<1>4. /\ UNCHANGED <<air, health, tasks>> /\ readings' \in Seq(Levels) /\ level' \in Levels
  BY <1>1, HandStepFacts
<1>5. CASE /\ UNCHANGED <<faults, pending, flagged>>
           /\ \/ fan' = fan /\ hand[w].now = 0
              \/ /\ hand[w].now # 0
                 /\ fan' = [fan EXCEPT ![hand[w].now].on = (hand[w].cmd = "on")]
  <2> DEFINE f == hand[w].now
             x == [fan[f] EXCEPT !.on = (hand[w].cmd = "on")]
  <2>1. \/ fan' = fan /\ f = 0
        \/ f \in Fans /\ fan' = [fan EXCEPT ![f] = x]
    BY <1>1, <1>5, TypeFacts, HandFacts
  <2>2. f \in Fans => /\ x \in Fan /\ (hand[w].cmd = "on" => x.on)
                      /\ x.maint = fan[f].maint /\ x.broken = fan[f].broken
    <3>1. ASSUME NEW r \in Fan, NEW on \in BOOLEAN
          PROVE  LET y == [r EXCEPT !.on = on] IN
                 y \in Fan /\ y.on = on /\ y.maint = r.maint /\ y.broken = r.broken
      BY DEF Fan
    <3>2. (hand[w].cmd = "on") \in BOOLEAN /\ (f \in Fans => fan[f] \in Fan)
      BY <1>1, TypeFacts
    <3>3. QED
      BY <3>1, <3>2
  <2> HIDE DEF f, x
  <2>3. fan' \in [Fans -> Fan]
    BY <1>1, <2>1, <2>2, TypeFacts
  <2>4. \A g \in Fans : fan'[g] = IF g = f THEN x ELSE fan[g]
    BY <1>1, <2>1, TypeFacts
  <2>5. \A g \in Fans : /\ fan'[g].maint = fan[g].maint /\ fan'[g].broken = fan[g].broken
                        /\ g # f => fan'[g].on = fan[g].on
                        /\ g = f /\ hand[w].cmd = "on" => fan'[g].on
    BY <2>2, <2>4
  <2>6. TypeOK'
    BY <1>1, <1>2, <1>3, <1>4, <1>5, <2>3 DEF TypeOK
  <2> SUFFICES ASSUME "lost" \notin used' PROVE Order'
    BY <2>6 DEF IInv
  <2>7. OneRepair /\ Course /\ (Clear => Heard) /\ Stopping
    BY <1>1, <1>2
  <2>8. \A g \in Fans : Step(g)' = Step(g)
    BY <1>4 DEF Step
  <2>9. OneRepair'
    <3>1. tasks # <<>> => tasks[1].fan \in Fans
      BY <1>1, TypeFacts, TaskFacts
    <3>2. QED
      BY <1>1, <1>4, <1>5, <2>5, <2>7, <3>1 DEF OneRepair
  <2>10. Course'
    BY <1>1, <1>4, <1>5, <2>5, <2>7, <2>8, OthersCourse DEF Course
  <2>11. (Clear => Heard)'
    BY <1>1, <1>2, <2>5, <2>7, MovesHeard DEF f
  <2>12. Stopping'
    BY <1>1, <1>2, <1>4, <1>5, <2>7, MovesStopping
  <2>13. QED
    BY <2>9, <2>10, <2>11, <2>12 DEF Order
<1>6. ASSUME NEW f \in Fans, hand[w].now = 0,
             faults[f] # <<>>, Head(faults[f]) = "fixed",
             faults' = [faults EXCEPT ![f] = Tail(@)],
             fan' = [fan EXCEPT ![f].broken = FALSE, ![f].maint = FALSE, ![f].worn = FALSE],
             pending' = pending \ {f}, flagged' = flagged \ {f}
      PROVE  IInv'
  <2> DEFINE x == [fan[f] EXCEPT !.broken = FALSE, !.maint = FALSE, !.worn = FALSE]
             s == faults[f]
  <2>1. s \in Seq({"broken", "fixed"}) /\ s # <<>> /\ Head(s) = "fixed" /\ fan[f] \in Fan
    BY <1>1, <1>6, TypeFacts
  <2>2. /\ Tail(s) \in Seq({"broken", "fixed"}) /\ Len(s) \in Nat \ {0} /\ Len(Tail(s)) = Len(s) - 1
        /\ \A i \in 1 .. Len(Tail(s)) : Tail(s)[i] = s[i + 1]
        /\ 1 \in 1 .. Len(s) /\ s[1] = "fixed"
    BY <2>1
  <2>3. x \in Fan /\ ~x.maint /\ ~x.broken /\ x.on = fan[f].on /\ fan' = [fan EXCEPT ![f] = x]
    BY <1>6, <2>1 DEF Fan
  <2>4. faults' = [faults EXCEPT ![f] = Tail(s)]
    BY <1>6
  <2> HIDE DEF x, s
  <2>5. fan' \in [Fans -> Fan] /\ faults' \in [Fans -> Seq({"broken", "fixed"})]
    BY <1>1, <2>2, <2>3, <2>4, TypeFacts
  <2>6. /\ \A g \in Fans : fan'[g] = IF g = f THEN x ELSE fan[g]
        /\ \A g \in Fans : faults'[g] = IF g = f THEN Tail(s) ELSE faults[g]
    BY <1>1, <2>3, <2>4, TypeFacts
  <2>7. TypeOK'
    BY <1>1, <1>2, <1>3, <1>4, <1>6, <2>5 DEF TypeOK
  <2> SUFFICES ASSUME "lost" \notin used' PROVE Order'
    BY <2>7 DEF IInv
  <2>8. OneRepair /\ Course /\ (Clear => Heard) /\ Stopping
    BY <1>1, <1>2
  <2>9. \A g \in Fans : Step(g)' = Step(g)
    BY <1>4 DEF Step
  <2>10. fan[f].maint /\ health[f] # "inRepair"
    <3>1. Waits(f, "fixed") /\ Repaired(f)
      BY <2>2, <2>8 DEF Waits, Course, s
    <3>2. QED
      BY <3>1 DEF Repaired
  <2>11. OneRepair'
    <3>1. tasks # <<>> => tasks[1].fan \in Fans
      BY <1>1, TypeFacts, TaskFacts
    <3>2. QED
      BY <1>1, <1>4, <1>6, <2>3, <2>6, <2>10, <2>8, <3>1 DEF OneRepair
  <2>12. ASSUME NEW g \in Fans
         PROVE  (Repaired(g) /\ Reported(g))'
    <3>1. CASE g # f
      BY <1>1, <1>4, <2>6, <2>8, <2>9, <3>1, OthersCourse
    <3>2. CASE g = f
      <4>1. /\ Step(f)' = "none" /\ health'[f] # "inRepair" /\ ~fan'[f].broken
            /\ faults'[f] = Tail(s)
        BY <1>1, <1>4, <2>3, <2>6, <2>10, <2>8, <2>9, StepFacts
      <4>2. \A i \in 1 .. Len(s) : s[i] = "fixed" => i = 1
        BY <2>2, <2>8 DEF Course, Reported, s
      <4>3. \A i \in 1 .. Len(Tail(s)) : Tail(s)[i] # "fixed" /\ i + 1 \in 1 .. Len(s)
        BY <2>2, <4>2
      <4>4. \A i \in 1 .. Len(Tail(s)) : Tail(s)[i] = "broken" => health[f] # "fine"
        <5>1. \A i \in 1 .. Len(s) : s[i] = "broken" =>
                health[f] # "fine" \/ \E j \in 1 .. Len(s) : i < j /\ s[j] = "fixed"
          BY <2>8 DEF Course, Reported, s
        <5>2. QED
          BY <2>2, <4>2, <4>3, <5>1
      <4>5. Repaired(f)'
        BY <1>4, <4>1, <4>3 DEF Repaired, Waits
      <4>6. Reported(f)'
        BY <1>4, <4>1, <4>3, <4>4 DEF Reported
      <4>7. QED
        BY <3>2, <4>5, <4>6
    <3>3. QED
      BY <3>1, <3>2
  <2>13. (Clear => Heard)'
    <3>1. \A g \in Fans : fan'[g].on = fan[g].on /\ g # 0
      BY <2>3, <2>6
    <3>2. QED
      BY <1>1, <1>2, <1>6, <2>8, <3>1, MovesHeard
  <2>14. Stopping'
    BY <1>1, <1>2, <1>4, <1>6, <2>10, <2>8, MovesStopping
  <2>15. QED
    BY <2>11, <2>12, <2>13, <2>14 DEF Order, Course
<1>7. QED
  BY <1>1, <1>5, <1>6, HandStepFacts

\* Steps of a repair's task: those of the queue's worker and of the sleeper.
TaskStep(i) == RepairBegins(i) \/ Stopped(i) \/ RepairAccepted(i) \/ Wake(i)

\* What each of them does to the task, to what is to be repaired and to the fan.
Does(i, f, s) ==
  /\ Goes(i, f, s)
  /\ pending' = pending \/ (s = "none" /\ pending' = pending \ {f})
  /\ flagged' \subseteq Fans /\ switch' \in {switch, switch \ {f}}
  /\ s = "stopping" => switch' = switch \ {f}
  /\ \/ /\ tasks[i].step # "repairing"
        /\ \/ s = "repairing" /\ health' = InRepair(f)
           \/ "lost" \in used' /\ s # "repairing" /\ health' \in {health, InRepair(f)}
        /\ \/ fan' = fan /\ (~fan[f].on \/ fan[f].broken)
           \/ fan' = [fan EXCEPT ![f].on = FALSE] /\ tasks[i].step = "stopping"
     \/ /\ tasks[i].step # "repairing" /\ s # "repairing" /\ health' = health /\ fan' = fan
     \/ /\ tasks[i].step = "repairing" /\ s = "none" /\ health' = health
        /\ fan' = [fan EXCEPT ![f].maint = TRUE] /\ pending' = pending \ {f}

LEMMA TaskStepFacts ==
  ASSUME TypeOK, NEW i \in DOMAIN tasks, TaskStep(i)
  PROVE  /\ UNCHANGED <<air, readings, faults, level, hand>>
         /\ used' \subseteq Rare /\ used \subseteq used'
         /\ \E s : Does(i, tasks[i].fan, s)
<1> DEFINE f == tasks[i].fan
<1>1. tasks[i] \in Task /\ f \in Fans /\ flagged \subseteq Fans /\ used \subseteq Rare
  BY TypeFacts, TaskFacts
<1>2. CASE Wake(i)
  <2> DEFINE r == [tasks[i] EXCEPT !.step = "ready"]
  <2>1. r \in Task /\ r.step = "ready" /\ r.fan = f
    BY <1>1, TaskFacts
  <2>2. /\ tasks[i].step = "asleep" /\ tasks' = [tasks EXCEPT ![i] = r]
        /\ UNCHANGED <<switch, faults, fan, pending, flagged, used, air, health, readings, level, hand>>
    BY <1>2 DEF Wake, RepairsUnchanged
  <2> HIDE DEF r
  <2>3. Goes(i, f, "ready")
    BY <2>1, <2>2 DEF Goes
  <2> HIDE DEF f
  <2>4. Does(i, f, "ready")
    BY <1>1, <2>2, <2>3 DEF Does
  <2>5. QED
    BY <1>1, <2>2, <2>4 DEF f
<1>3. CASE RepairAccepted(i)
  <2>1. /\ tasks[i].step = "repairing" /\ Goes(i, f, "none")
        /\ fan' = [fan EXCEPT ![f].maint = TRUE] /\ pending' = pending \ {f}
        /\ UNCHANGED <<switch, health, flagged, used, air, readings, faults, level, hand>>
    BY <1>3 DEF RepairAccepted, WorkerUnchanged, Ends, Goes
  <2> HIDE DEF f
  <2>2. Does(i, f, "none")
    BY <1>1, <2>1 DEF Does
  <2>3. QED
    BY <1>1, <2>1, <2>2 DEF f
<1>4. ASSUME Sends(i), UNCHANGED <<switch, air, readings, faults, level, hand>>,
             tasks[i].step # "repairing",
             \/ fan' = fan /\ (~fan[f].on \/ fan[f].broken)
             \/ fan' = [fan EXCEPT ![f].on = FALSE] /\ tasks[i].step = "stopping"
      PROVE  used' \subseteq Rare /\ used \subseteq used' /\ \E s : Does(i, f, s)
  <2> HIDE DEF f
  <2>1. /\ used' \subseteq Rare /\ used \subseteq used'
        /\ \/ /\ Goes(i, f, "repairing") /\ health' = InRepair(f)
              /\ UNCHANGED <<pending, flagged>>
           \/ /\ "lost" \in used' /\ health' \in {health, InRepair(f)}
              /\ \/ Goes(i, f, "asleep") /\ UNCHANGED <<pending, flagged>>
                 \/ Goes(i, f, "none") /\ pending' = pending \ {f} /\ flagged' = flagged \ {f}
    BY <1>4, SendsFacts DEF f
  <2>2. Does(i, f, "repairing") \/ Does(i, f, "asleep") \/ Does(i, f, "none")
    BY <1>1, <1>4, <2>1 DEF Does
  <2>3. QED
    BY <2>1, <2>2
<1>5. CASE Stopped(i)
  <2>1. /\ tasks[i].step = "stopping" /\ fan' = [fan EXCEPT ![f].on = FALSE] /\ Sends(i)
        /\ UNCHANGED <<switch, air, readings, faults, level, hand>>
    BY <1>5 DEF Stopped, WorkerUnchanged
  <2>2. QED
    BY <1>4, <2>1
<1>6. CASE RepairBegins(i)
  <2>1. tasks[i].step = "ready" /\ UNCHANGED <<air, readings, faults, level, hand, fan>>
    BY <1>6 DEF RepairBegins, Takes, WorkerUnchanged
  <2>2. CASE Ends(i) /\ UNCHANGED <<switch, health, flagged, used>>
    <3>1. Goes(i, f, "none") /\ pending' = pending \ {f}
      BY <2>2 DEF Ends, Goes
    <3> HIDE DEF f
    <3>2. Does(i, f, "none")
      BY <1>1, <2>1, <2>2, <3>1 DEF Does
    <3>3. QED
      BY <1>1, <2>1, <2>2, <3>2 DEF f
  <2>3. CASE (~fan[f].on \/ fan[f].broken) /\ Sends(i) /\ UNCHANGED switch
    BY <1>4, <2>1, <2>3
  <2>4. CASE Failed(i) /\ switch' \in {switch, switch \ {f}} /\ UNCHANGED health
    <3>1. \/ Goes(i, f, "asleep") /\ UNCHANGED <<pending, flagged>>
          \/ Goes(i, f, "none") /\ pending' = pending \ {f} /\ flagged' = flagged \ {f}
      BY <2>4, FailedFacts
    <3>2. used' \subseteq Rare /\ used \subseteq used'
      BY <1>1, <1>6 DEF RepairBegins, Sends, Costs, Rare
    <3> HIDE DEF f
    <3>3. Does(i, f, "asleep") \/ Does(i, f, "none")
      BY <1>1, <2>1, <2>4, <3>1 DEF Does
    <3>4. QED
      BY <2>1, <3>2, <3>3 DEF f
  <2>5. CASE /\ tasks' = [tasks EXCEPT ![i].step = "stopping"]
             /\ switch' = Switched(f, "off") /\ UNCHANGED <<health, pending, flagged, used>>
    <3> DEFINE t == [tasks[i] EXCEPT !.step = "stopping"]
    <3>1. t \in Task /\ t.step = "stopping" /\ t.fan = f
      BY <1>1, TaskFacts
    <3>2. tasks' = [tasks EXCEPT ![i] = t] /\ switch' = switch \ {f}
      BY <2>5 DEF Switched
    <3> HIDE DEF t
    <3>3. Goes(i, f, "stopping")
      BY <3>1, <3>2 DEF Goes
    <3> HIDE DEF f
    <3>4. Does(i, f, "stopping")
      BY <1>1, <2>1, <2>5, <3>2, <3>3 DEF Does
    <3>5. QED
      BY <1>1, <2>1, <2>5, <3>4 DEF f
  <2>6. QED
    BY <1>6, <2>2, <2>3, <2>4, <2>5 DEF RepairBegins, Switched
<1>7. QED
  BY <1>2, <1>3, <1>5, <1>6 DEF TaskStep

LEMMA TaskStepInv ==
  ASSUME IInv, NEW i \in DOMAIN tasks, TaskStep(i)
  PROVE  IInv'
<1>1. TypeOK /\ tasks[i] \in Task
  BY TypeFacts DEF IInv
<1>2. PICK f \in Fans : f = tasks[i].fan
  BY <1>1, TaskFacts
<1>3. TypeOK /\ f \in Fans /\ fan[f] \in Fan /\ tasks[i] \in Task
  BY <1>1, TypeFacts
<1>4. UNCHANGED <<air, readings, faults, level, hand>> /\ used' \subseteq Rare /\ used \subseteq used'
  BY <1>3, TaskStepFacts
<1>5. PICK s : Does(i, f, s)
  BY <1>3, <1>2, TaskStepFacts
<1>6. tasks' \in Seq(Task)
  BY <1>3, <1>5, <1>2, GoesFacts DEF Does
<1> DEFINE accepted == tasks[i].step = "repairing"
<1>7. /\ fan' \in [Fans -> Fan]
      /\ \A g \in Fans : /\ fan'[g].broken = fan[g].broken
                         /\ fan'[g].maint = IF g = f /\ accepted THEN TRUE ELSE fan[g].maint
                         /\ ~(g = f /\ tasks[i].step = "stopping") => fan'[g].on = fan[g].on
  <2>1. ASSUME NEW x \in Fan, fan' = [fan EXCEPT ![f] = x], x.broken = fan[f].broken,
               x.maint = IF accepted THEN TRUE ELSE fan[f].maint,
               tasks[i].step # "stopping" => x.on = fan[f].on
        PROVE  /\ fan' \in [Fans -> Fan]
               /\ \A g \in Fans : /\ fan'[g].broken = fan[g].broken
                                  /\ fan'[g].maint = IF g = f /\ accepted THEN TRUE ELSE fan[g].maint
                                  /\ ~(g = f /\ tasks[i].step = "stopping") => fan'[g].on = fan[g].on
    BY <1>3, <2>1, TypeFacts
  <2>2. CASE fan' = fan /\ ~accepted
    BY <1>3, <2>2, TypeFacts
  <2>3. CASE fan' = [fan EXCEPT ![f].on = FALSE] /\ tasks[i].step = "stopping"
    <3> DEFINE x == [fan[f] EXCEPT !.on = FALSE]
    <3>1. x \in Fan /\ x.broken = fan[f].broken /\ x.maint = fan[f].maint
      BY <1>3 DEF Fan
    <3>2. fan' = [fan EXCEPT ![f] = x]
      BY <2>3
    <3> HIDE DEF x
    <3>3. QED
      BY <2>1, <2>3, <3>1, <3>2
  <2>4. CASE fan' = [fan EXCEPT ![f].maint = TRUE] /\ accepted
    <3> DEFINE x == [fan[f] EXCEPT !.maint = TRUE]
    <3>1. x \in Fan /\ x.broken = fan[f].broken /\ x.maint = TRUE /\ x.on = fan[f].on
      BY <1>3 DEF Fan
    <3>2. fan' = [fan EXCEPT ![f] = x]
      BY <2>4
    <3> HIDE DEF x
    <3>3. QED
      BY <2>1, <2>4, <3>1, <3>2
  <2>5. QED
    BY <1>5, <2>2, <2>3, <2>4 DEF Does
<1>8. TypeOK'
  <2>1. pending' \subseteq Fans /\ flagged' \subseteq Fans /\ switch' \subseteq Fans
    BY <1>3, <1>5, TypeFacts DEF Does
  <2>2. health' \in [Fans -> {"fine", "broken", "inRepair"}]
    BY <1>3, <1>5, TypeFacts DEF Does, InRepair
  <2>3. QED
    BY <1>3, <1>4, <1>6, <1>7, <2>1, <2>2, TypeFacts DEF TypeOK
<1> SUFFICES ASSUME "lost" \notin used' PROVE Order'
  BY <1>8 DEF IInv
<1>9. OneRepair /\ Course /\ (Clear => Heard) /\ Stopping
  BY <1>4 DEF IInv, Order
<1>10. /\ i = 1 /\ Len(tasks') <= 1 /\ (tasks' # <<>> => tasks'[1].fan = f /\ s # "none")
      /\ \A g \in Fans : Step(g)' = IF g = f THEN s ELSE Step(g)
  BY <1>3, <1>5, <1>9, <1>2, GoesFacts DEF Does, OneRepair
<1>11. Step(f) = tasks[i].step /\ Step(f) # "none" /\ ~fan[f].maint /\ f \in pending
  <2>1. tasks # <<>>
    BY <1>3, TypeFacts
  <2>2. QED
    BY <1>3, <1>9, <1>10, <2>1, <1>2, TaskFacts DEF OneRepair, Step
<1>12. \A g \in Fans : health'[g] = IF g = f /\ s = "repairing" THEN "inRepair" ELSE health[g]
  BY <1>3, <1>5, TypeFacts DEF Does, InRepair
<1>13. OneRepair'
  <2>1. s = "none" \/ (pending' = pending /\ ~accepted)
    BY <1>5 DEF Does
  <2>2. \A g \in Fans : g \in pending' \/ fan'[g].maint => g \in pending \/ fan[g].maint
    BY <1>5, <1>7, <1>11 DEF Does
  <2>3. \A g, h \in Fans : (g \in pending' \/ fan'[g].maint) /\ (h \in pending' \/ fan'[h].maint) => g = h
    BY <1>9, <2>2 DEF OneRepair
  <2>4. ASSUME tasks' # <<>>
        PROVE  tasks'[1].fan \in pending' /\ ~fan'[tasks'[1].fan].maint
    BY <1>3, <1>7, <1>10, <1>11, <2>1, <2>4
  <2>5. QED
    BY <1>10, <2>3, <2>4 DEF OneRepair
<1>14. ASSUME NEW g \in Fans
       PROVE  (Repaired(g) /\ Reported(g))'
  <2>1. CASE g # f
    BY <1>3, <1>4, <1>7, <1>9, <1>10, <1>12, <2>1, OthersCourse
  <2>2. CASE g = f
    <3>1. Repaired(f) /\ Reported(f) /\ ~Waits(f, "fixed")
      BY <1>3, <1>9, <1>11 DEF Course, Repaired
    <3>2. Repaired(f)'
      <4>1. Step(f)' = s /\ health'[f] = (IF s = "repairing" THEN "inRepair" ELSE health[f])
            /\ ~Waits(f, "fixed")'
        BY <1>4, <1>10, <1>12, <3>1 DEF Waits
      <4>2. accepted => fan'[f].maint
        BY <1>7
      <4>3. QED
        BY <1>11, <3>1, <4>1, <4>2 DEF Repaired
    <3>3. Reported(f)'
      <4>1. /\ faults'[f] = faults[f] /\ fan'[f].broken = fan[f].broken
            /\ health'[f] = health[f] \/ health'[f] = "inRepair"
            /\ fan[f].maint => fan'[f].maint
        BY <1>3, <1>4, <1>7, <1>12
      <4>2. QED
        BY <3>1, <4>1 DEF Reported
    <3>4. QED
      BY <2>2, <3>2, <3>3
  <2>3. QED
    BY <2>1, <2>2
<1>15. (Clear => Heard)'
  <2>1. \A g \in switch' : g \in Fans /\ g \in switch /\ ~(g = f /\ tasks[i].step = "stopping")
    BY <1>3, <1>5, <1>9, <1>11, TypeFacts DEF Stopping, Does
  <2>2. QED
    BY <1>3, <1>4, <1>7, <1>9, <2>1, OthersHeard
<1>16. Stopping'
  BY <1>3, <1>5, <1>9, <1>10, <1>11 DEF Stopping, Does
<1>17. QED
  BY <1>13, <1>14, <1>15, <1>16 DEF Order, Course

\* Steps that queue a repair.
LEMMA QueuedInv ==
  ASSUME IInv, NEW f \in Fans, Repairs(Queued(<<pending, tasks>>, f)),
         UNCHANGED <<air, switch, health, readings, level, hand>>,
         used' \subseteq Rare, used \subseteq used', flagged' \subseteq Fans,
         fan' \in [Fans -> Fan], faults' \in [Fans -> Seq({"broken", "fixed"})],
         \A g \in Fans : fan'[g].maint = fan[g].maint /\ fan'[g].on = fan[g].on,
         \A g \in Fans : \/ fan'[g].broken = fan[g].broken /\ faults'[g] = faults[g]
                         \/ Order => (Repaired(g) /\ Reported(g))'
  PROVE  IInv'
<1>1. TypeOK
  BY DEF IInv
<1>2. TypeOK'
  BY <1>1, QueuedFacts, TypeFacts DEF TypeOK
<1> SUFFICES ASSUME "lost" \notin used' PROVE Order'
  BY <1>2 DEF IInv
<1>3. OneRepair /\ Course /\ (Clear => Heard) /\ Stopping
  BY DEF IInv, Order
<1>4. /\ OneRepair'
      /\ \A g \in Fans : Step(g)' = Step(g) \/ (Step(g) = "none" /\ Step(g)' = "ready")
  BY <1>1, <1>3, QueuedOneRepair
<1>5. Course'
  <2>1. ASSUME NEW g \in Fans, fan'[g].broken = fan[g].broken, faults'[g] = faults[g]
        PROVE  (Repaired(g) /\ Reported(g))'
    <3>1. (Step(g)' = "repairing") = (Step(g) = "repairing")
      BY <1>4
    <3>2. QED
      BY <1>3, <2>1, <3>1, OthersCourse
  <2>2. ASSUME NEW g \in Fans
        PROVE  (Repaired(g) /\ Reported(g))'
    BY <1>3, <2>1 DEF Order
  <2>3. QED
    BY <2>2 DEF Course
<1>6. (Clear => Heard)'
  BY <1>1, <1>3, OthersHeard, TypeFacts
<1>7. Stopping'
  BY <1>3, <1>4 DEF Stopping
<1>8. QED
  BY <1>4, <1>5, <1>6, <1>7 DEF Order

LEMMA WearCheckInv ==
  ASSUME IInv, WearCheck
  PROVE  IInv'
<1> DEFINE due == {f \in Fans : ~fan[f].maint /\ (fan[f].broken \/ (fan[f].worn /\ f \notin flagged))}
<1>1. /\ UNCHANGED <<air, switch, health, readings, level, hand, fan, faults, used>>
      /\ flagged' = flagged \cup {f \in due : ~fan[f].broken}
      /\ \E f \in due : Repairs(Queued(<<pending, tasks>>, f))
  BY DEF WearCheck, RepairsUnchanged
<1>2. flagged' \subseteq Fans
  BY <1>1, TypeFacts DEF IInv
<1>3. PICK f \in Fans : Repairs(Queued(<<pending, tasks>>, f))
  BY <1>1
<1>4. QED
  BY <1>1, <1>2, <1>3, QueuedInv, TypeFacts DEF IInv

LEMMA StaffRepairsInv ==
  ASSUME IInv, NEW f \in Fans, StaffRepairs(f)
  PROVE  IInv'
<1>1. used' \subseteq Rare /\ used \subseteq used'
  BY TypeFacts DEF IInv, StaffRepairs, Costs, Rare
<1>2. /\ UNCHANGED <<air, switch, health, readings, level, hand, fan, faults, flagged>>
      /\ Repairs(Queued(<<pending, tasks>>, f))
  BY DEF StaffRepairs, RepairsUnchanged
<1>3. QED
  BY <1>1, <1>2, QueuedInv, TypeFacts DEF IInv

LEMMA FanBrokenInv ==
  ASSUME IInv, NEW f \in Fans, FanBroken(f)
  PROVE  IInv'
<1> DEFINE x == [fan[f] EXCEPT !.broken = TRUE]
           s == faults[f]
<1>1. /\ s \in Seq({"broken", "fixed"}) /\ s # <<>> /\ Head(s) = "broken" /\ fan[f] \in Fan
      /\ TypeOK
  BY TypeFacts DEF IInv, FanBroken
<1>2. /\ Tail(s) \in Seq({"broken", "fixed"}) /\ Len(s) \in Nat \ {0} /\ Len(Tail(s)) = Len(s) - 1
      /\ \A i \in 1 .. Len(Tail(s)) : Tail(s)[i] = s[i + 1]
      /\ 1 \in 1 .. Len(s) /\ s[1] = "broken"
  BY <1>1
<1>3. x \in Fan /\ x.broken /\ x.maint = fan[f].maint /\ x.on = fan[f].on
  BY <1>1 DEF Fan
<1>4. /\ fan' = [fan EXCEPT ![f] = x] /\ faults' = [faults EXCEPT ![f] = Tail(s)]
      /\ Repairs(Queued(<<pending, tasks>>, f)) /\ flagged' = flagged \ {f}
      /\ UNCHANGED <<air, switch, health, readings, level, hand, used>>
  BY DEF FanBroken, RepairsUnchanged
<1> HIDE DEF x
<1>5. /\ fan' \in [Fans -> Fan] /\ faults' \in [Fans -> Seq({"broken", "fixed"})]
      /\ \A g \in Fans : fan'[g] = IF g = f THEN x ELSE fan[g]
      /\ \A g \in Fans : faults'[g] = IF g = f THEN Tail(s) ELSE faults[g]
  BY <1>1, <1>2, <1>3, <1>4, TypeFacts
<1>6. \A g \in Fans : fan'[g].maint = fan[g].maint /\ fan'[g].on = fan[g].on
  BY <1>3, <1>5
<1>7. ASSUME Order
      PROVE  (Repaired(f) /\ Reported(f))'
  <2>1. Repaired(f) /\ Reported(f)
    BY <1>7 DEF Order, Course
  <2>2. Step(f)' = "repairing" => Step(f) = "repairing"
    BY <1>1, <1>4, <1>6, <1>7, QueuedOneRepair DEF Order
  <2>3. Step(f) = "repairing" => Step(f)' = "repairing"
    BY <1>1, <1>4, <1>6, <1>7, QueuedOneRepair DEF Order
  <2>4. faults'[f] = Tail(s) /\ health'[f] = health[f] /\ fan'[f].maint = fan[f].maint /\ fan'[f].broken
    BY <1>3, <1>4, <1>5, <1>6
  <2>5. \A i \in 1 .. Len(Tail(s)) : i + 1 \in 1 .. Len(s) /\ Tail(s)[i] = s[i + 1]
    BY <1>2
  <2>6. Repaired(f)'
    <3>1. Waits(f, "fixed")' => Waits(f, "fixed")
      BY <2>4, <2>5 DEF Waits
    <3>2. QED
      BY <2>1, <2>2, <2>3, <2>4, <3>1 DEF Repaired
  <2>7. Reported(f)'
    <3>1. health[f] # "fine" \/ fan[f].maint
      <4>1. health[f] # "fine" \/ \E j \in 1 .. Len(s) : s[j] = "fixed"
        BY <1>2, <2>1 DEF Reported
      <4>2. QED
        BY <2>1, <4>1 DEF Repaired, Waits
    <3>2. \A i, j \in 1 .. Len(Tail(s)) : Tail(s)[i] = "fixed" /\ Tail(s)[j] = "fixed" => i = j
      <4>1. \A i, j \in 1 .. Len(s) : s[i] = "fixed" /\ s[j] = "fixed" => i = j
        BY <2>1 DEF Reported
      <4>2. QED
        BY <1>2, <2>5, <4>1
    <3>3. ASSUME NEW i \in 1 .. Len(Tail(s)), Tail(s)[i] = "broken", health[f] = "fine"
          PROVE  \E j \in 1 .. Len(Tail(s)) : i < j /\ Tail(s)[j] = "fixed"
      <4>1. PICK j \in 1 .. Len(s) : i + 1 < j /\ s[j] = "fixed"
        BY <2>1, <2>5, <3>3 DEF Reported
      <4>2. j - 1 \in 1 .. Len(Tail(s)) /\ i < j - 1 /\ Tail(s)[j - 1] = s[j]
        BY <1>2, <4>1
      <4>3. QED
        BY <4>1, <4>2
    <3>4. QED
      BY <2>4, <3>1, <3>2, <3>3 DEF Reported
  <2>8. QED
    BY <2>6, <2>7
<1>8. \A g \in Fans : g # f => fan'[g].broken = fan[g].broken /\ faults'[g] = faults[g]
  BY <1>5
<1>9. flagged' \subseteq Fans /\ used' \subseteq Rare /\ used \subseteq used'
  BY <1>1, <1>4, TypeFacts
<1>10. QED
  BY <1>4, <1>5, <1>6, <1>7, <1>8, <1>9, QueuedInv

\* A fan's report is sent.
LEMMA AppendFacts ==
  ASSUME NEW s \in Seq({"broken", "fixed"}), NEW e \in {"broken", "fixed"}
  PROVE  /\ Append(s, e) \in Seq({"broken", "fixed"}) /\ Len(s) \in Nat
         /\ Len(Append(s, e)) = Len(s) + 1 /\ Append(s, e)[Len(s) + 1] = e
         /\ \A i \in 1 .. Len(s) : Append(s, e)[i] = s[i]
OBVIOUS

\* Steps of the simulator that change one fan's health and report it.
LEMMA ReportedInv ==
  ASSUME IInv, NEW f \in Fans, NEW h \in {"fine", "broken"}, NEW e \in {"broken", "fixed"},
         health' = [health EXCEPT ![f] = h], faults' = [faults EXCEPT ![f] = Append(@, e)],
         UNCHANGED <<air, switch, readings, fan, level, pending, flagged, tasks, hand>>,
         used' \subseteq Rare, used \subseteq used', Order => (Repaired(f) /\ Reported(f))'
  PROVE  IInv'
<1>1. TypeOK
  BY DEF IInv
<1>2. faults[f] \in Seq({"broken", "fixed"}) /\ Append(faults[f], e) \in Seq({"broken", "fixed"})
  BY <1>1, TypeFacts, AppendFacts
<1>3. /\ faults' \in [Fans -> Seq({"broken", "fixed"})]
      /\ health' \in [Fans -> {"fine", "broken", "inRepair"}]
      /\ \A g \in Fans : g # f => health'[g] = health[g] /\ faults'[g] = faults[g]
  BY <1>1, <1>2, TypeFacts
<1>4. TypeOK'
  BY <1>1, <1>3, TypeFacts DEF TypeOK
<1> SUFFICES ASSUME "lost" \notin used' PROVE Order'
  BY <1>4 DEF IInv
<1>5. OneRepair /\ Course /\ (Clear => Heard) /\ Stopping /\ (Repaired(f) /\ Reported(f))'
  BY DEF IInv, Order
<1>6. OneRepair' /\ Stopping' /\ \A g \in Fans : Step(g)' = Step(g)
  BY <1>5 DEF OneRepair, Stopping, Step
<1>7. Course'
  <2>1. ASSUME NEW g \in Fans, g # f
        PROVE  (Repaired(g) /\ Reported(g))'
    BY <1>3, <1>5, <1>6, <2>1, OthersCourse
  <2>2. QED
    BY <1>5, <2>1 DEF Course
<1>8. (Clear => Heard)'
  BY <1>1, <1>5, OthersHeard
<1>9. QED
  BY <1>6, <1>7, <1>8 DEF Order

LEMMA BreakInv ==
  ASSUME IInv, NEW f \in Fans, Break(f)
  PROVE  IInv'
<1> DEFINE s == faults[f]
           t == Append(s, "broken")
<1>1. TypeOK /\ s \in Seq({"broken", "fixed"})
  BY TypeFacts DEF IInv
<1>2. /\ health[f] = "fine" /\ used' \subseteq Rare /\ used \subseteq used'
      /\ health' = [health EXCEPT ![f] = "broken"]
      /\ faults' = [faults EXCEPT ![f] = Append(@, "broken")]
      /\ UNCHANGED <<air, switch, readings, fan, level, pending, flagged, tasks, hand>>
  BY <1>1, TypeFacts DEF Break, Costs, Rare, Outside, repairs
<1>3. /\ Len(s) \in Nat /\ Len(t) = Len(s) + 1 /\ t[Len(s) + 1] = "broken"
      /\ \A i \in 1 .. Len(s) : t[i] = s[i]
  BY <1>1, AppendFacts
<1>4. faults'[f] = t /\ health'[f] = "broken"
  BY <1>1, <1>2, TypeFacts
<1> HIDE DEF t
<1>5. ASSUME Order
      PROVE  (Repaired(f) /\ Reported(f))'
  <2>1. Repaired(f) /\ Reported(f)
    BY <1>5 DEF Order, Course
  <2>2. \A i \in 1 .. Len(t) : t[i] = "fixed" => i \in 1 .. Len(s) /\ s[i] = "fixed"
    BY <1>3
  <2>3. Step(f)' = Step(f)
    BY <1>2 DEF Step
  <2>4. Repaired(f)'
    BY <1>1, <1>2, <1>4, <2>1, <2>2, <2>3 DEF Repaired, Waits
  <2>5. Reported(f)'
    BY <1>1, <1>2, <1>4, <2>1, <2>2 DEF Reported
  <2>6. QED
    BY <2>4, <2>5
<1>6. QED
  BY <1>2, <1>5, ReportedInv

LEMMA MendInv ==
  ASSUME IInv, NEW f \in Fans, Mend(f)
  PROVE  IInv'
<1> DEFINE s == faults[f]
           t == Append(s, "fixed")
<1>1. TypeOK /\ s \in Seq({"broken", "fixed"})
  BY TypeFacts DEF IInv
<1>2. /\ health[f] = "inRepair" /\ Step(f) # "repairing"
      /\ health' = [health EXCEPT ![f] = "fine"]
      /\ faults' = [faults EXCEPT ![f] = Append(@, "fixed")]
      /\ UNCHANGED <<air, switch, readings, fan, level, pending, flagged, tasks, hand, used>>
  <2>1. tasks # <<>> => 1 \in DOMAIN tasks
    BY <1>1, TypeFacts
  <2>2. QED
    BY <2>1 DEF Mend, Outside, repairs, Step
<1>3. /\ Len(s) \in Nat /\ Len(t) = Len(s) + 1 /\ t[Len(s) + 1] = "fixed"
      /\ \A i \in 1 .. Len(s) : t[i] = s[i]
  BY <1>1, AppendFacts
<1>4. faults'[f] = t /\ health'[f] = "fine"
  BY <1>1, <1>2, TypeFacts
<1> HIDE DEF t
<1>5. ASSUME Order
      PROVE  (Repaired(f) /\ Reported(f))'
  <2>1. Repaired(f) /\ Reported(f)
    BY <1>5 DEF Order, Course
  <2>2. fan[f].maint /\ \A i \in 1 .. Len(s) : s[i] # "fixed"
    BY <1>2, <2>1 DEF Repaired, Waits
  <2>3. \A i \in 1 .. Len(t) : t[i] = "fixed" => i = Len(s) + 1
    BY <1>3, <2>2
  <2>4. Repaired(f)'
    <3>1. Step(f)' # "repairing"
      BY <1>2 DEF Step
    <3>2. QED
      BY <1>2, <1>4, <2>2, <3>1 DEF Repaired
  <2>5. Reported(f)'
    <3>1. \A i \in 1 .. Len(t) : t[i] = "broken" => \E j \in 1 .. Len(t) : i < j /\ t[j] = "fixed"
      <4>1. Len(t) \in 1 .. Len(t) /\ t[Len(t)] = "fixed"
        BY <1>3
      <4>2. ASSUME NEW i \in 1 .. Len(t), t[i] = "broken"
            PROVE  i < Len(t)
        BY <1>3, <4>1, <4>2
      <4>3. QED
        BY <4>1, <4>2
    <3>2. QED
      BY <1>2, <1>4, <2>2, <2>3, <3>1 DEF Reported
  <2>6. QED
    BY <2>4, <2>5
<1>6. used' \subseteq Rare /\ used \subseteq used'
  BY <1>1, <1>2, TypeFacts
<1>7. QED
  BY <1>2, <1>5, <1>6, ReportedInv

LEMMA WeatherInv ==
  ASSUME IInv, (\E to \in Levels : Air(to)) \/ (\E f \in Fans : Wear(f)) \/ UNCHANGED vars
  PROVE  IInv'
<1>1. TypeOK
  BY DEF IInv
<1>2. ASSUME UNCHANGED <<switch, health, faults, level, pending, flagged, tasks, hand, used>>,
             air' \in Levels, readings' \in Seq(Levels), fan' \in [Fans -> Fan],
             \A g \in Fans : fan'[g].maint = fan[g].maint /\ fan'[g].on = fan[g].on
                             /\ fan'[g].broken = fan[g].broken
      PROVE  IInv'
  <2>1. TypeOK'
    BY <1>1, <1>2, TypeFacts DEF TypeOK
  <2> SUFFICES ASSUME "lost" \notin used' PROVE Order'
    BY <2>1 DEF IInv
  <2>2. OneRepair /\ Course /\ (Clear => Heard) /\ Stopping
    BY <1>2 DEF IInv, Order
  <2>3. Stopping' /\ \A g \in Fans : Step(g)' = Step(g)
    BY <1>2, <2>2 DEF Stopping, Step
  <2>4. OneRepair'
    <3>1. tasks # <<>> => tasks[1].fan \in Fans
      BY <1>1, TypeFacts, TaskFacts
    <3>2. QED
      BY <1>2, <2>2, <3>1 DEF OneRepair
  <2>5. Course'
    BY <1>2, <2>2, <2>3, OthersCourse DEF Course
  <2>6. (Clear => Heard)'
    BY <1>1, <1>2, <2>2, OthersHeard, TypeFacts
  <2>7. QED
    BY <2>3, <2>4, <2>5, <2>6 DEF Order
<1>3. ASSUME NEW to \in Levels, Air(to)
      PROVE  IInv'
  <2>1. air' = to /\ readings' = Append(readings, to) /\ UNCHANGED fan
        /\ UNCHANGED <<switch, health, faults, level, pending, flagged, tasks, hand, used>>
    BY <1>3 DEF Air, Outside, repairs
  <2>2. readings' \in Seq(Levels)
    BY <1>1, <2>1, TypeFacts
  <2>3. QED
    BY <1>1, <1>2, <2>1, <2>2, TypeFacts
<1>4. ASSUME NEW f \in Fans, Wear(f)
      PROVE  IInv'
  <2> DEFINE x == [fan[f] EXCEPT !.worn = TRUE]
  <2>1. /\ x \in Fan /\ x.on = fan[f].on /\ x.maint = fan[f].maint /\ x.broken = fan[f].broken
    BY <1>1, TypeFacts DEF Fan
  <2>2. fan' = [fan EXCEPT ![f] = x] /\ UNCHANGED <<air, readings>>
        /\ UNCHANGED <<switch, health, faults, level, pending, flagged, tasks, hand, used>>
    BY <1>4 DEF Wear, simulator, repairs
  <2> HIDE DEF x
  <2>3. /\ fan' \in [Fans -> Fan]
        /\ \A g \in Fans : fan'[g] = IF g = f THEN x ELSE fan[g]
    BY <1>1, <2>1, <2>2, TypeFacts
  <2>4. \A g \in Fans : fan'[g].maint = fan[g].maint /\ fan'[g].on = fan[g].on
                             /\ fan'[g].broken = fan[g].broken
    BY <2>1, <2>3
  <2>5. QED
    BY <1>1, <1>2, <2>2, <2>3, <2>4, TypeFacts
<1>5. CASE UNCHANGED vars
  BY <1>1, <1>2, <1>5, TypeFacts DEF vars
<1>6. QED
  BY <1>3, <1>4, <1>5

-----------------------------------------------------------------------------
(* The theorems.                                                           *)

LEMMA InitInv == Init => IInv
<1> SUFFICES ASSUME Init PROVE IInv
  OBVIOUS
<1>1. TypeOK
  BY HandFacts DEF Init, TypeOK, Levels, Fan, Rare
<1>2. OneRepair /\ Stopping
  BY DEF Init, OneRepair, Stopping, Step
<1>3. \A f \in Fans : Len(faults[f]) = 0 /\ health[f] = "fine" /\ ~fan[f].broken
                      /\ Step(f) = "none"
  BY DEF Init, Step
<1>4. Course
  BY <1>3 DEF Course, Repaired, Reported, Waits
<1>5. Heard
  BY HandFacts DEF Init, Heard
<1>6. QED
  BY <1>1, <1>2, <1>4, <1>5 DEF IInv, Order

LEMMA NextInv ==
  ASSUME IInv, [Next]_vars
  PROVE  IInv'
<1>1. CASE Simulator
  BY <1>1, WeatherInv, BreakInv, MendInv DEF Simulator
<1>2. CASE Staff
  <2>1. ASSUME NEW f \in Fans, NEW w \in Workers, NEW cmd \in {"on", "off"}, StaffSwitches(w, f, cmd)
        PROVE  IInv'
    BY <2>1, HandStepInv DEF HandStep
  <2>2. QED
    BY <1>2, <2>1, StaffRepairsInv DEF Staff
<1>3. CASE WearCheck
  BY <1>3, WearCheckInv
<1>4. ASSUME NEW w \in Workers, Handler(w)
      PROVE  IInv'
  BY <1>4, HandStepInv DEF HandStep
<1>5. ASSUME NEW f \in Fans, FanBroken(f)
      PROVE  IInv'
  BY <1>5, FanBrokenInv
<1>6. CASE Repair \/ \E i \in 1 .. MaxTasks : Wake(i)
  BY <1>6, TaskStepInv DEF TaskStep, Repair, Wake
<1>7. QED
  BY <1>1, <1>2, <1>3, <1>4, <1>5, <1>6, WeatherInv DEF Next

\* In every state the invariant holds: as long as no command's answer is lost, of one
\* zone's fans one is repaired at a time (_queue_repair, main.py:1994), and the
\* dispatcher's picture of a fan keeps to what the simulator has reported.
THEOREM Invariant == Spec => []IInv
<1>1. IInv /\ [Next]_vars => IInv'
  BY NextInv
<1>2. QED
  BY InitInv, <1>1, PTL DEF Spec

\* Every variable keeps its type.
THEOREM TypeCorrect == Spec => []TypeOK
<1>1. IInv => TypeOK
  BY DEF IInv
<1>2. QED
  BY Invariant, <1>1, PTL

\* A repair's command is sent by the steps of its task.
LEMMA OnlyTaskRepairs ==
  ASSUME IInv, [Next]_vars, NEW f \in Fans, health[f] = "fine", health'[f] = "inRepair"
  PROVE  \E i \in DOMAIN tasks : tasks[i].fan = f /\ TaskStep(i)
<1>1. TypeOK /\ health \in [Fans -> {"fine", "broken", "inRepair"}] /\ health' # health
  BY TypeFacts DEF IInv
<1>2. ASSUME NEW g \in Fans, Wear(g) \/ Break(g) \/ Mend(g)
      PROVE  FALSE
  <2>1. \/ health' = health \/ health' = [health EXCEPT ![g] = "broken"]
        \/ health' = [health EXCEPT ![g] = "fine"]
    BY <1>2 DEF Wear, Break, Mend, simulator
  <2>2. QED
    BY <1>1, <2>1
<1>3. ASSUME NEW w \in Workers, HandStep(w)
      PROVE  FALSE
  BY <1>1, <1>3, HandStepFacts
<1>4. ASSUME NEW i \in DOMAIN tasks, TaskStep(i)
      PROVE  tasks[i].fan = f
  <2>1. health' = health \/ health' = InRepair(tasks[i].fan)
    BY <1>1, <1>4, TaskStepFacts DEF Does
  <2>2. tasks[i].fan \in Fans
    BY <1>1, TypeFacts, TaskFacts
  <2>3. QED
    BY <1>1, <2>1, <2>2 DEF InRepair
<1>5. ASSUME NEW to \in Levels, Air(to)
      PROVE  FALSE
  BY <1>1, <1>5 DEF Air
<1>6. ~WearCheck /\ ~UNCHANGED vars
  BY <1>1 DEF WearCheck, RepairsUnchanged, vars
<1>7. ASSUME NEW g \in Fans, StaffRepairs(g) \/ FanBroken(g)
      PROVE  FALSE
  BY <1>1, <1>7 DEF StaffRepairs, FanBroken, RepairsUnchanged
<1>8. Next
  BY <1>6
<1>9. CASE Simulator
  BY <1>2, <1>5, <1>9 DEF Simulator
<1>10. CASE Staff
  <2>1. ASSUME NEW g \in Fans, NEW w \in Workers, NEW cmd \in {"on", "off"}, StaffSwitches(w, g, cmd)
        PROVE  FALSE
    BY <1>3, <2>1 DEF HandStep
  <2>2. QED
    BY <1>7, <1>10, <2>1 DEF Staff
<1>11. ASSUME NEW w \in Workers, Handler(w)
       PROVE  FALSE
  BY <1>3, <1>11 DEF HandStep
<1>12. CASE Repair \/ \E i \in 1 .. MaxTasks : Wake(i)
  BY <1>4, <1>12 DEF TaskStep, Repair, Wake
<1>13. QED
  BY <1>6, <1>7, <1>8, <1>9, <1>10, <1>11, <1>12 DEF Next

\* A fan that works is stopped before it is repaired (main.py:2032), but for the answers
\* the dispatcher has not got, or got wrong: one that runs and is not known to has a
\* command on its way, and one wrongly taken for broken is in repair already.
THEOREM StoppedFirst == Spec => StopsFirst
<1> DEFINE Excused(f) == (\E w \in Workers : hand[w].now = f) \/ used \cap {"lost", "behind"} # {}
           Stops == \A f \in Fans :
                      health[f] = "fine" /\ health'[f] = "inRepair" /\ f \in switch => Excused(f)
<1>1. IInv /\ [Next]_vars => Stops
  <2> SUFFICES ASSUME IInv, [Next]_vars, NEW f \in Fans,
                      health[f] = "fine", health'[f] = "inRepair", f \in switch
               PROVE  Excused(f)
    OBVIOUS
  <2> SUFFICES ASSUME Clear PROVE \E w \in Workers : hand[w].now = f
    BY DEF Clear
  <2>1. TypeOK /\ OneRepair /\ Course /\ Heard /\ Stopping
    BY DEF IInv, Order, Clear
  <2>2. PICK i \in DOMAIN tasks : tasks[i].fan = f /\ TaskStep(i)
    BY OnlyTaskRepairs
  <2>3. PICK s : Does(i, f, s)
    BY <2>1, <2>2, TaskStepFacts
  <2>4. ~fan[f].on \/ fan[f].broken \/ tasks[i].step = "stopping"
    BY <2>3 DEF Does
  <2>5. Step(f) = tasks[i].step /\ Step(f) # "none"
    <3>1. i = 1 /\ tasks # <<>> /\ tasks[i] \in Task
      BY <2>1, TypeFacts DEF OneRepair
    <3>2. QED
      BY <2>2, <3>1, TaskFacts DEF Step
  <2>6. tasks[i].step # "stopping" /\ ~fan[f].maint
    BY <2>1, <2>5, StepFacts DEF Stopping
  <2>7. ~fan[f].broken
    BY <2>1, <2>6 DEF Course, Reported
  <2>8. QED
    BY <2>1, <2>4, <2>6, <2>7 DEF Heard
<1>2. QED
  BY Invariant, <1>1, PTL DEF Spec, StopsFirst

\* "two fans in one zone are repaired one at a time" (docs/ENGINEERING_LOG.md:1085),
\* whoever asks for the repair (the wear check, staff or a report that one broke) and
\* however often its task is put off: as long as no command's answer has been lost.
\* After a repair whose answer was lost, two may be in repair (main.py:2041, 2570).
THEOREM OneRepairPerZone == Spec => []("lost" \notin used => OneRepair)
<1>1. IInv => ("lost" \notin used => OneRepair)
  BY DEF IInv, Order
<1>2. QED
  BY Invariant, <1>1, PTL

=============================================================================

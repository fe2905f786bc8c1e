-------------------------- MODULE ZoneGatesProofs --------------------------
(***************************************************************************)
(* Proofs about ZoneGates, for any cars and whatever goes wrong together:  *)
(* the runs try two troubles at a time.                                    *)
(***************************************************************************)
EXTENDS ZoneGates, SequenceTheorems, TLAPS

-----------------------------------------------------------------------------
(* The inductive invariant.                                                *)

\* No gate that staff hold open is to be held closed as well.
Opened == \A g \in Gates : gate[g].open => ~gate[g].shut /\ gate[g].held = {}

\* Only cars that paid are let out, until one was held and staff opened a gate.
LetOut == {"staff", "suspect"} \subseteq used
Unpaid ==
  /\ \A g \in Gates : gate[g].held # {} => "suspect" \in used
  /\ \A p \in Cars : rel[p] # "none" \/ p \in released => LetOut \/ car[p] \in {"paid", "out"}

\* No car is let into a gate that works and waits for its repair.
Spared ==
  \A g \in Gates :
    g \in work.pending /\ ~gate[g].broken /\ (g = "exit" => ~LetOut) => ~Passing(g)

IInv == TypeOK /\ Opened /\ Unpaid /\ Spared

-----------------------------------------------------------------------------
(* Types, field by field.                                                  *)

Healths == {"fine", "broken", "inRepair", "stuck"}
Reported == {"Open", "Closed", "broken", "fixed"}
Whereabouts == {"away", "entry", "driving", "parked", "paid", "out"}
Sweeps == [busy : SUBSET Gates, left : SUBSET Gates, now : Gates \cup {"none", "lost"}]

LEMMA TypeFacts ==
  ASSUME TypeOK
  PROVE  /\ door \in [Gates -> Positions] /\ health \in [Gates -> Healths]
         /\ reports \in [Gates -> Seq(Reported)]
         /\ gate \in [Gates -> Barrier] /\ work \in Work
         /\ car \in [Cars -> Whereabouts]
         /\ released \subseteq Cars /\ going \subseteq Cars /\ holding \subseteq Cars
         /\ leg \in [Cars -> Steps] /\ rel \in [Cars -> Steps]
         /\ sweep \in Sweeps /\ sweepDue \in BOOLEAN /\ used \subseteq Rare
BY DEF TypeOK, Healths, Reported, Whereabouts, Sweeps

LEMMA TypeNext ==
  ASSUME /\ door' \in [Gates -> Positions] /\ health' \in [Gates -> Healths]
         /\ reports' \in [Gates -> Seq(Reported)]
         /\ gate' \in [Gates -> Barrier] /\ work' \in Work
         /\ car' \in [Cars -> Whereabouts]
         /\ released' \subseteq Cars /\ going' \subseteq Cars /\ holding' \subseteq Cars
         /\ leg' \in [Cars -> Steps] /\ rel' \in [Cars -> Steps]
         /\ sweep' \in Sweeps /\ sweepDue' \in BOOLEAN /\ used' \subseteq Rare
  PROVE  TypeOK'
BY DEF TypeOK, Healths, Reported, Whereabouts, Sweeps

LEMMA GatesFacts == Gates = {"entry", "exit"} /\ "none" \notin Gates
BY DEF Gates

LEMMA CostsFacts ==
  ASSUME NEW ks, Costs(ks)
  PROVE  used' \subseteq Rare /\ used' = used \cup ks /\ ks \cap used = {}
BY GatesAssumption DEF Costs

\* What a step does not change about a gate.
SameHold(b, c) == (c.open <=> b.open) /\ (c.shut <=> b.shut) /\ c.held = b.held
SameRepair(b, c) == (c.broken <=> b.broken) /\ (c.maint <=> b.maint)

LEMMA FieldTypes ==
  ASSUME NEW b \in Barrier
  PROVE  /\ b.pos \in Positions /\ b.held \subseteq Cars /\ b.broken \in BOOLEAN
         /\ b.maint \in BOOLEAN /\ b.open \in BOOLEAN /\ b.shut \in BOOLEAN /\ b.worn \in BOOLEAN
BY DEF Barrier

LEMMA AtFacts ==
  ASSUME NEW b \in Barrier, NEW to \in Positions
  PROVE  /\ At(b, to) \in Barrier /\ At(b, to).pos = to
         /\ SameHold(b, At(b, to)) /\ SameRepair(b, At(b, to))
<1> DEFINE worn == b.worn \/ to = "Opening" \/ (to = "Open" /\ b.pos \in {"Closed", "Closing"})
<1>1. At(b, to) = [b EXCEPT !.pos = to, !.worn = worn]
  BY DEF At
<1>2. worn \in BOOLEAN
  BY FieldTypes
<1> HIDE DEF worn
<1>3. At(b, to) \in Barrier
  BY <1>1, <1>2 DEF Barrier
<1>4. At(b, to).pos = to /\ SameHold(b, At(b, to)) /\ SameRepair(b, At(b, to))
  BY <1>1 DEF Barrier, SameHold, SameRepair
<1>5. QED
  BY <1>3, <1>4

LEMMA HeldFacts ==
  ASSUME NEW b \in Barrier, NEW h \in SUBSET Cars
  PROVE  /\ [b EXCEPT !.held = h] \in Barrier /\ [b EXCEPT !.held = h].pos = b.pos
         /\ [b EXCEPT !.held = h].held = h
         /\ ([b EXCEPT !.held = h].open <=> b.open) /\ ([b EXCEPT !.held = h].shut <=> b.shut)
         /\ SameRepair(b, [b EXCEPT !.held = h])
BY DEF Barrier, SameRepair

LEMMA BrokenFacts ==
  ASSUME NEW b \in Barrier
  PROVE  /\ [b EXCEPT !.broken = TRUE] \in Barrier /\ [b EXCEPT !.broken = TRUE].pos = b.pos
         /\ [b EXCEPT !.broken = TRUE].broken
         /\ ([b EXCEPT !.broken = TRUE].maint <=> b.maint)
         /\ SameHold(b, [b EXCEPT !.broken = TRUE])
BY DEF Barrier, SameHold

LEMMA MaintFacts ==
  ASSUME NEW b \in Barrier
  PROVE  /\ [b EXCEPT !.maint = TRUE] \in Barrier /\ [b EXCEPT !.maint = TRUE].pos = b.pos
         /\ [b EXCEPT !.maint = TRUE].maint
         /\ ([b EXCEPT !.maint = TRUE].broken <=> b.broken)
         /\ SameHold(b, [b EXCEPT !.maint = TRUE])
BY DEF Barrier, SameHold

LEMMA RepairedFacts ==
  ASSUME NEW b \in Barrier, NEW c, c = [b EXCEPT !.broken = FALSE, !.maint = FALSE, !.worn = FALSE]
  PROVE  c \in Barrier /\ c.pos = b.pos /\ ~c.broken /\ ~c.maint /\ SameHold(b, c)
BY DEF Barrier, SameHold

LEMMA ElsewhereFacts ==
  ASSUME TypeOK, NEW g \in Gates, NEW h \in Gates, h # g, NEW to \in {"Opening", "Closing"}
  PROVE  Obeyed(door, g, to)[h] = door[h]
<1>1. door \in [Gates -> Positions]
  BY TypeFacts
<1>2. QED
  BY <1>1 DEF Obeyed

LEMMA ObeyedFacts ==
  ASSUME NEW d \in [Gates -> Positions], NEW g \in Gates, NEW to \in {"Opening", "Closing"}
  PROVE  /\ Obeyed(d, g, to) \in [Gates -> Positions]
         /\ \A h \in Gates : /\ Obeyed(d, g, to)[h] \in {d[h], to}
                             /\ h # g => Obeyed(d, g, to)[h] = d[h]
BY DEF Obeyed, Positions

\* A gate that is told to move, or not: only a command that fails leaves it where it was.
LEMMA TellsFacts ==
  ASSUME TypeOK, NEW g \in Gates, NEW b \in Barrier, NEW must \in BOOLEAN,
         NEW to \in {"Opening", "Closing"}, NEW ks, Tells(g, b, must, to, ks)
  PROVE  /\ gate' \in [Gates -> Barrier] /\ door' \in [Gates -> Positions]
         /\ \A h \in Gates : h # g => gate'[h] = gate[h] /\ door'[h] = door[h]
         /\ SameHold(b, gate'[g]) /\ SameRepair(b, gate'[g])
         /\ door'[g] \in {door[g], to} /\ (~must => door' = door)
         /\ gate'[g].pos = b.pos \/ (must /\ gate'[g].pos = to)
         /\ must => gate'[g].pos = to \/ ks = {"lost"}
<1>1. gate \in [Gates -> Barrier] /\ door \in [Gates -> Positions] /\ to \in Positions
  BY TypeFacts DEF Positions
<1>2. /\ At(b, to) \in Barrier /\ At(b, to).pos = to
      /\ SameHold(b, At(b, to)) /\ SameRepair(b, At(b, to))
  BY <1>1, AtFacts
<1>3. SameHold(b, b) /\ SameRepair(b, b)
  BY DEF SameHold, SameRepair
<1>4. /\ Obeyed(door, g, to) \in [Gates -> Positions]
      /\ Obeyed(door, g, to)[g] \in {door[g], to}
      /\ \A h \in Gates : h # g => Obeyed(door, g, to)[h] = door[h]
  BY <1>1, ObeyedFacts
<1>5. CASE ~must /\ gate' = [gate EXCEPT ![g] = b] /\ UNCHANGED door
  BY <1>1, <1>3, <1>5
<1>6. CASE /\ must /\ gate' = [gate EXCEPT ![g] = At(b, to)]
           /\ door' = Obeyed(door, g, to)
  BY <1>1, <1>2, <1>4, <1>6
<1>7. CASE /\ must /\ ks = {"lost"} /\ gate' = [gate EXCEPT ![g] = b]
           /\ door' \in {door, Obeyed(door, g, to)}
  BY <1>1, <1>3, <1>4, <1>7
<1>8. QED
  BY <1>5, <1>6, <1>7 DEF Tells

-----------------------------------------------------------------------------
(* Zone maintenance.                                                       *)

LEMMA WorkFields ==
  ASSUME NEW w \in Work
  PROVE  /\ w.pending \subseteq Gates /\ w.jobs \in [Gates -> Nat] /\ w.stuck \subseteq Gates
         /\ w.on \in BOOLEAN /\ w.todo \subseteq Gates /\ w.reopened \in BOOLEAN
BY DEF Work

LEMMA WorkType ==
  ASSUME NEW p \in SUBSET Gates, NEW j \in [Gates -> Nat], NEW s \in SUBSET Gates,
         NEW o \in BOOLEAN, NEW t \in SUBSET Gates, NEW r \in BOOLEAN
  PROVE  [pending |-> p, jobs |-> j, stuck |-> s, on |-> o, todo |-> t, reopened |-> r] \in Work
BY DEF Work

\* Where it leaves the gates that wait for a repair as they are.
LEMMA PlainFacts ==
  ASSUME NEW w \in Work
  PROVE  /\ Started(w) \in Work /\ Started(w).pending = w.pending
         /\ Ended(w) \in Work /\ Ended(w).pending = w.pending
         /\ Reopened(w) \in Work /\ Reopened(w).pending = w.pending
         /\ TakingCars(w) \in Work /\ TakingCars(w).pending = w.pending
<1>1. Started(w) \in Work /\ Started(w).pending = w.pending
  BY DEF Started, Work
<1>2. Ended(w) \in Work /\ Ended(w).pending = w.pending
  BY DEF Ended, Work
<1>3. Reopened(w) \in Work /\ Reopened(w).pending = w.pending
  BY DEF Reopened, Work
<1>4. TakingCars(w) \in Work /\ TakingCars(w).pending = w.pending
  BY DEF TakingCars, Work
<1>5. QED
  BY <1>1, <1>2, <1>3, <1>4

LEMMA QueuedFacts ==
  ASSUME NEW w \in Work, NEW gs \in SUBSET Gates
  PROVE  Queued(w, gs) \in Work /\ Queued(w, gs).pending \subseteq w.pending \cup gs
<1> DEFINE new == {g \in gs : /\ g \notin w.pending /\ ~gate'[g].maint
                              /\ gate'[g].broken \/ ~Staffed(gate'[g])}
           jobs == [g \in Gates |-> IF g \in new THEN w.jobs[g] + 1 ELSE w.jobs[g]]
<1>1. Queued(w, gs) = [w EXCEPT !.pending = w.pending \cup new, !.jobs = jobs]
  BY DEF Queued
<1>2. new \subseteq gs
  OBVIOUS
<1> HIDE DEF new
<1>3. jobs \in [Gates -> Nat]
  BY WorkFields
<1> HIDE DEF jobs
<1>4. QED
  BY <1>1, <1>2, <1>3 DEF Work

LEMMA GivenUpFacts ==
  ASSUME NEW w \in Work, NEW gs \in SUBSET Gates
  PROVE  GivenUp(w, gs) \in Work /\ GivenUp(w, gs).pending \subseteq w.pending
<1> DEFINE v == [w EXCEPT !.stuck = w.stuck \cup gs, !.pending = w.pending \ gs, !.todo = w.todo \ gs]
<1>1. v \in Work /\ v.pending \subseteq w.pending
  BY DEF Work
<1>2. GivenUp(w, gs) = w \/ GivenUp(w, gs) = Ended(v)
  BY DEF GivenUp
<1> HIDE DEF v
<1>3. QED
  BY <1>1, <1>2, PlainFacts

\* Broken gates are queued for repair at once, others only when no car is let in.
Spare(g) == IF g = "entry" THEN InboundClear ELSE g \notin InUse
MayWait(w, g) == g \in w.pending \/ gate'[g].broken \/ Spare(g)'

LEMMA SpareFacts == \A g \in Gates : Spare(g)' => ~Passing(g)'
BY GatesFacts DEF Spare, Passing, InboundClear, InUse

LEMMA WithBrokenFacts ==
  ASSUME NEW w \in Work, NEW gs \in SUBSET Gates
  PROVE  /\ WithBroken(w, gs) \in Work
         /\ \A g \in WithBroken(w, gs).pending : g \in w.pending \/ gate'[g].broken
<1> DEFINE broken == {g \in gs : gate'[g].broken /\ g \notin w.pending /\ ~gate'[g].maint}
<1>1. WithBroken(w, gs) = w \/ WithBroken(w, gs) = Queued(Started(w), broken)
  BY DEF WithBroken
<1>2. broken \in SUBSET Gates /\ \A g \in broken : gate'[g].broken
  OBVIOUS
<1> HIDE DEF broken
<1>3. Started(w) \in Work /\ Started(w).pending = w.pending
  BY PlainFacts
<1>4. /\ Queued(Started(w), broken) \in Work
      /\ Queued(Started(w), broken).pending \subseteq Started(w).pending \cup broken
  BY <1>2, <1>3, QueuedFacts
<1>5. QED
  BY <1>1, <1>2, <1>3, <1>4

LEMMA AdvancedFacts ==
  ASSUME NEW w \in Work
  PROVE  /\ Advanced(w) \in Work
         /\ \A g \in Advanced(w).pending : g \in w.pending \/ Spare(g)'
<1>1. Ready(w) \in SUBSET Gates /\ \A g \in Ready(w) : Spare(g)'
  BY WorkFields DEF Ready, Spare
<1>2. Advanced(w) = w \/ Advanced(w) = Reopened(w) \/ Advanced(w) = Queued(w, Ready(w))
  BY DEF Advanced
<1>3. /\ Queued(w, Ready(w)) \in Work
      /\ Queued(w, Ready(w)).pending \subseteq w.pending \cup Ready(w)
  BY <1>1, QueuedFacts
<1>4. QED
  BY <1>1, <1>2, <1>3, PlainFacts

LEMMA ScheduledFacts ==
  ASSUME NEW w \in Work, NEW ks, Scheduled(w, ks)
  PROVE  /\ work' \in Work /\ \A g \in work'.pending : MayWait(w, g)
         /\ used' \subseteq Rare /\ used \cup ks \subseteq used' /\ ks \cap used = {}
<1> DEFINE begun(late) == TakingCars(Advanced(WithBroken(GivenUp(w, late), Gates)))
<1>1. PICK late \in SUBSET Overdue(w), ls \in {{"slow"}, {}} :
        \/ work' = begun(late) /\ Costs(ks \cup ls)
        \/ /\ Costs(ks \cup ls \cup {"due"})
           /\ work' = TakingCars(Advanced(Started(begun(late))))
  BY DEF Scheduled
<1>2. late \in SUBSET Gates
  BY DEF Overdue
<1> DEFINE w1 == GivenUp(w, late)
           w2 == WithBroken(w1, Gates)
           w3 == Advanced(w2)
           w4 == TakingCars(w3)
           w5 == Advanced(Started(w4))
<1>3. w1 \in Work /\ \A g \in w1.pending : MayWait(w, g)
  BY <1>2, GivenUpFacts DEF MayWait
<1> HIDE DEF w1
<1>4. w2 \in Work /\ \A g \in w2.pending : MayWait(w, g)
  BY <1>3, WithBrokenFacts DEF MayWait
<1> HIDE DEF w2
<1>5. w3 \in Work /\ \A g \in w3.pending : MayWait(w, g)
  BY <1>4, AdvancedFacts DEF MayWait
<1> HIDE DEF w3
<1>6. w4 \in Work /\ \A g \in w4.pending : MayWait(w, g)
  BY <1>5, PlainFacts
<1> HIDE DEF w4
<1>7. Started(w4) \in Work /\ Started(w4).pending = w4.pending
  BY <1>6, PlainFacts
<1>8. w5 \in Work /\ \A g \in w5.pending : MayWait(w, g)
  BY <1>6, <1>7, AdvancedFacts DEF MayWait
<1> HIDE DEF w5
<1>9. TakingCars(w5) \in Work /\ TakingCars(w5).pending = w5.pending
  BY <1>8, PlainFacts
<1>10. work' = w4 \/ work' = TakingCars(w5)
  BY <1>1 DEF w1, w2, w3, w4, w5
<1>11. used' \subseteq Rare /\ used \cup ks \subseteq used' /\ ks \cap used = {}
  <2>1. CASE Costs(ks \cup ls)
    BY <2>1, CostsFacts
  <2>2. CASE Costs(ks \cup ls \cup {"due"})
    BY <2>2, CostsFacts
  <2>3. QED
    BY <1>1, <2>1, <2>2
<1>12. QED
  BY <1>6, <1>8, <1>9, <1>10, <1>11

-----------------------------------------------------------------------------
(* What keeps the parts of the invariant.                                  *)

LEMMA OpenedKept ==
  ASSUME Opened, \A g \in Gates : SameHold(gate[g], gate'[g])
  PROVE  Opened'
BY DEF Opened, SameHold

\* A car that is let out, or begins to be, has paid, and one that has paid stays so.
Justified(p) ==
  /\ rel'[p] # "none" \/ p \in released' =>
       rel[p] # "none" \/ p \in released \/ LetOut' \/ car'[p] \in {"paid", "out"}
  /\ car[p] \in {"paid", "out"} => car'[p] \in {"paid", "out"}

LEMMA UnpaidKept ==
  ASSUME Unpaid, used \subseteq used', \A g \in Gates : gate'[g].held \subseteq gate[g].held,
         \A p \in Cars : Justified(p)
  PROVE  Unpaid'
BY DEF Unpaid, LetOut, Justified

\* No car is let into g as long as it waits for a repair.
Shunned(g) ==
  g \in work.pending /\ ~gate[g].broken /\ (g = "exit" => ~LetOut) /\ Passing(g)' => Passing(g)
StillSpared(g) ==
  g \in work.pending /\ (gate[g].broken => gate'[g].broken) /\ Shunned(g)

LEMMA SparedKept ==
  ASSUME Spared, used \subseteq used',
         \A g \in Gates : g \in work'.pending => \/ gate'[g].broken \/ Spare(g)'
                                                  \/ StillSpared(g)
  PROVE  Spared'
<1> SUFFICES ASSUME NEW g \in Gates, g \in work'.pending, ~gate'[g].broken,
                    g = "exit" => ~LetOut', Passing(g)'
             PROVE  FALSE
  BY DEF Spared
<1>1. ~Spare(g)'
  BY SpareFacts
<1>2. g = "exit" => ~LetOut
  BY DEF LetOut
<1>3. QED
  BY <1>1, <1>2 DEF StillSpared, Shunned, Spared

\* Cars that do not pay, and are not let out.
LEMMA PassingKept ==
  ASSUME \A p \in Cars : /\ car'[p] = "paid" => car[p] = "paid"
                         /\ rel'[p] \in {"asked", "waits"} => rel[p] \in {"asked", "waits"},
         released' = released, holding' \subseteq holding
  PROVE  \A g \in Gates : Passing(g)' => Passing(g)
BY GatesFacts DEF Passing

\* A step that leaves the gates alone.
LEMMA TrafficInv ==
  ASSUME IInv, UNCHANGED <<gate, work>>, used \subseteq used', TypeOK',
         \A p \in Cars : Justified(p),
         \A g \in Gates : Shunned(g)
  PROVE  IInv'
<1>1. Opened'
  BY OpenedKept DEF IInv, SameHold
<1>2. Unpaid'
  BY UnpaidKept DEF IInv
<1>3. \A g \in Gates : g \in work'.pending => StillSpared(g)
  BY DEF StillSpared
<1>4. Spared'
  BY <1>3, SparedKept DEF IInv
<1>5. QED
  BY <1>1, <1>2, <1>4 DEF IInv

LEMMA MovedFacts ==
  ASSUME gate \in [Gates -> Barrier], NEW g \in Gates, NEW to \in Positions, Moved(g, to)
  PROVE  /\ gate' \in [Gates -> Barrier] /\ gate'[g].pos = to
         /\ \A h \in Gates : /\ SameHold(gate[h], gate'[h]) /\ SameRepair(gate[h], gate'[h])
                             /\ h # g => gate'[h] = gate[h]
<1>1. /\ At(gate[g], to) \in Barrier /\ At(gate[g], to).pos = to
      /\ SameHold(gate[g], At(gate[g], to)) /\ SameRepair(gate[g], At(gate[g], to))
  BY AtFacts
<1>2. gate' = [gate EXCEPT ![g] = At(gate[g], to)]
  BY DEF Moved
<1>3. gate' \in [Gates -> Barrier] /\ gate'[g] = At(gate[g], to)
  BY <1>1, <1>2
<1>4. \A h \in Gates : h # g => gate'[h] = gate[h]
  BY <1>2
<1>5. \A h \in Gates : SameHold(gate[h], gate'[h]) /\ SameRepair(gate[h], gate'[h])
  BY <1>1, <1>3, <1>4 DEF SameHold, SameRepair
<1>6. QED
  BY <1>1, <1>3, <1>4, <1>5

\* An answer to a command: the gate is taken to move.
LEMMA AnsweredInv ==
  ASSUME IInv, TypeOK', NEW g \in Gates, NEW to \in Positions, Moved(g, to),
         UNCHANGED <<work, car, released>>, used \subseteq used', holding' \subseteq holding,
         \A p \in Cars : rel'[p] = rel[p] \/ rel[p] = "asked"
  PROVE  IInv'
<1>1. \A h \in Gates : SameHold(gate[h], gate'[h]) /\ SameRepair(gate[h], gate'[h])
  BY MovedFacts, TypeFacts DEF IInv
<1>2. Opened'
  BY <1>1, OpenedKept DEF IInv
<1>3. Unpaid'
  <2>1. \A p \in Cars : Justified(p)
    BY DEF Justified
  <2>2. QED
    BY <1>1, <2>1, UnpaidKept DEF IInv, SameHold
<1>4. \A h \in Gates : Passing(h)' => Passing(h)
  BY PassingKept
<1>5. \A h \in Gates : h \in work'.pending => StillSpared(h)
  BY <1>1, <1>4 DEF StillSpared, Shunned, SameRepair
<1>6. Spared'
  BY <1>5, SparedKept DEF IInv
<1>7. QED
  BY <1>2, <1>3, <1>6 DEF IInv

-----------------------------------------------------------------------------
(* The simulator.                                                          *)

LEMMA SaysFacts ==
  ASSUME TypeOK, NEW g \in Gates, NEW what \in Reported, NEW ks, Says(g, what, ks)
  PROVE  /\ reports' \in [Gates -> Seq(Reported)] /\ used' \subseteq Rare /\ used \subseteq used'
         /\ \A h \in Gates : h # g => reports'[h] = reports[h]
         /\ Len(reports'[g]) = Len(reports[g]) + 1 /\ reports'[g][Len(reports[g]) + 1] = what
         /\ \A i \in 1 .. Len(reports[g]) : reports'[g][i] = reports[g][i]
<1>1. reports \in [Gates -> Seq(Reported)] /\ reports[g] \in Seq(Reported)
  BY TypeFacts
<1>2. reports' = [reports EXCEPT ![g] = Append(reports[g], what)]
  BY DEF Says
<1>3. Append(reports[g], what) \in Seq(Reported)
  BY <1>1
<1>4. /\ Len(Append(reports[g], what)) = Len(reports[g]) + 1
      /\ Append(reports[g], what)[Len(reports[g]) + 1] = what
      /\ \A i \in 1 .. Len(reports[g]) : Append(reports[g], what)[i] = reports[g][i]
  BY <1>1
<1>5. reports'[g] = Append(reports[g], what) /\ reports' \in [Gates -> Seq(Reported)]
  BY <1>1, <1>2, <1>3
<1>6. \A h \in Gates : h # g => reports'[h] = reports[h]
  BY <1>1, <1>2
<1>7. used' \subseteq Rare /\ used \subseteq used'
  <2>1. PICK xs : Costs(xs)
    BY DEF Says
  <2>2. QED
    BY <2>1, CostsFacts
<1>8. QED
  BY <1>4, <1>5, <1>6, <1>7

\* The simulator tells the dispatcher nothing but by its reports.
LEMMA OutsideInv ==
  ASSUME IInv, TypeOK', Outside, used \subseteq used'
  PROVE  IInv'
<1>1. UNCHANGED <<gate, work, car, released, rel, holding>>
  BY DEF Outside
<1>2. Opened'
  BY <1>1, OpenedKept DEF IInv, SameHold
<1>3. Unpaid'
  <2>1. \A p \in Cars : Justified(p)
    BY <1>1 DEF Justified
  <2>2. QED
    BY <1>1, <2>1, UnpaidKept DEF IInv
<1>4. \A g \in Gates : Passing(g)' => Passing(g)
  BY <1>1, PassingKept
<1>5. \A g \in Gates : g \in work'.pending => StillSpared(g)
  BY <1>1, <1>4 DEF StillSpared, Shunned
<1>6. Spared'
  BY <1>5, SparedKept DEF IInv
<1>7. QED
  BY <1>2, <1>3, <1>6 DEF IInv

LEMMA MoveInv ==
  ASSUME IInv, NEW g \in Gates, Move(g)
  PROVE  IInv'
<1> DEFINE to == IF door[g] = "Opening" THEN "Open" ELSE "Closed"
<1>1. to \in Reported /\ to \in Positions
  BY DEF Reported, Positions
<1>2. door' = [door EXCEPT ![g] = to] /\ Says(g, to, {})
  BY DEF Move
<1> HIDE DEF to
<1>3. Outside /\ UNCHANGED <<health, going>>
  BY DEF Move
<1>4. TypeOK'
  <2>1. door' \in [Gates -> Positions]
    BY <1>1, <1>2, TypeFacts DEF IInv
  <2>2. reports' \in [Gates -> Seq(Reported)] /\ used' \subseteq Rare
    BY <1>1, <1>2, SaysFacts DEF IInv
  <2>3. QED
    BY <1>3, <2>1, <2>2, TypeFacts, TypeNext DEF IInv, Outside
<1>5. used \subseteq used'
  BY <1>1, <1>2, SaysFacts DEF IInv
<1>6. QED
  BY <1>3, <1>4, <1>5, OutsideInv

LEMMA BreakInv ==
  ASSUME IInv, NEW g \in Gates, Break(g)
  PROVE  IInv'
<1>1. "broken" \in Reported /\ "broken" \in Healths
  BY DEF Reported, Healths
<1>2. health' = [health EXCEPT ![g] = "broken"] /\ Says(g, "broken", {"break"})
  BY DEF Break
<1>3. Outside /\ UNCHANGED <<door, going>>
  BY DEF Break
<1>4. TypeOK'
  <2>1. health' \in [Gates -> Healths]
    BY <1>1, <1>2, TypeFacts DEF IInv
  <2>2. reports' \in [Gates -> Seq(Reported)] /\ used' \subseteq Rare
    BY <1>1, <1>2, SaysFacts DEF IInv
  <2>3. QED
    BY <1>3, <2>1, <2>2, TypeFacts, TypeNext DEF IInv, Outside
<1>5. used \subseteq used'
  BY <1>1, <1>2, SaysFacts DEF IInv
<1>6. QED
  BY <1>3, <1>4, <1>5, OutsideInv

LEMMA MendInv ==
  ASSUME IInv, NEW g \in Gates, Mend(g)
  PROVE  IInv'
<1>1. "fixed" \in Reported /\ "fine" \in Healths
  BY DEF Reported, Healths
<1>2. /\ health[g] = "inRepair" /\ health' = [health EXCEPT ![g] = "fine"]
      /\ Says(g, "fixed", {})
  BY DEF Mend
<1>3. PICK d \in {"Open", "Closed"} : door' = [door EXCEPT ![g] = d]
  BY DEF Mend
<1>4. Outside /\ UNCHANGED going
  BY DEF Mend
<1>5. TypeOK'
  <2>1. health' \in [Gates -> Healths]
    BY <1>1, <1>2, TypeFacts DEF IInv
  <2>2. door' \in [Gates -> Positions]
    BY <1>3, TypeFacts DEF IInv, Positions
  <2>3. reports' \in [Gates -> Seq(Reported)] /\ used' \subseteq Rare
    BY <1>1, <1>2, SaysFacts DEF IInv
  <2>4. QED
    BY <1>4, <2>1, <2>2, <2>3, TypeFacts, TypeNext DEF IInv, Outside
<1>6. used \subseteq used'
  BY <1>1, <1>2, SaysFacts DEF IInv
<1>7. QED
  BY <1>4, <1>5, <1>6, OutsideInv

LEMMA JamInv ==
  ASSUME IInv, NEW g \in Gates, Jam(g)
  PROVE  IInv'
<1>1. health[g] = "inRepair" /\ health' = [health EXCEPT ![g] = "stuck"] /\ Costs({"stuck"})
  BY DEF Jam
<1>2. Outside /\ UNCHANGED <<door, reports, going>>
  BY DEF Jam
<1>3. used' \subseteq Rare /\ used \subseteq used'
  BY <1>1, CostsFacts
<1>4. health' \in [Gates -> Healths]
  BY <1>1, TypeFacts DEF IInv, Healths
<1>5. TypeOK'
  BY <1>2, <1>3, <1>4, TypeFacts, TypeNext DEF IInv, Outside
<1>6. QED
  BY <1>2, <1>3, <1>5, OutsideInv

-----------------------------------------------------------------------------
(* Cars on their way in.                                                   *)

LEMMA StepsFacts == {"none", "start", "asked", "waits"} = Steps
BY DEF Steps

\* A car that is not out yet, and has not paid, is not let out.
LEMMA DispatchInv ==
  ASSUME IInv, NEW p \in Cars, Dispatch(p)
  PROVE  IInv'
<1>1. /\ car[p] = "away" /\ car' = [car EXCEPT ![p] = "entry"]
      /\ leg' = [leg EXCEPT ![p] = "start"] /\ (\E ks : Costs(ks))
      /\ NotGates /\ UNCHANGED <<going, released, rel, holding, sweeping>>
  BY DEF Dispatch
<1>2. used' \subseteq Rare /\ used \subseteq used'
  BY <1>1, CostsFacts
<1>3. car' \in [Cars -> Whereabouts] /\ leg' \in [Cars -> Steps]
  BY <1>1, TypeFacts, StepsFacts DEF IInv, Whereabouts
<1>4. TypeOK'
  BY <1>1, <1>2, <1>3, TypeFacts, TypeNext DEF IInv, NotGates, sweeping
<1>5. \A g \in Gates : Shunned(g)
  BY <1>1, PassingKept, TypeFacts DEF IInv, Shunned
<1>6. \A q \in Cars : Justified(q)
  BY <1>1, TypeFacts DEF IInv, Justified
<1>7. UNCHANGED <<gate, work>>
  BY <1>1 DEF NotGates
<1>8. QED
  BY <1>2, <1>4, <1>5, <1>6, <1>7, TrafficInv

LEMMA LegChecksInv ==
  ASSUME IInv, NEW p \in Cars, LegChecks(p)
  PROVE  IInv'
<1>1. UNCHANGED <<health, reports, work, car, released, rel, sweep, sweepDue, gate, going>>
  BY DEF LegChecks, LegUnchanged, sweeping
<1>2. \E s \in Steps : leg' = [leg EXCEPT ![p] = s]
  BY StepsFacts DEF LegChecks
<1>3. leg' \in [Cars -> Steps]
  BY <1>2, TypeFacts DEF IInv
<1>4. door' \in [Gates -> Positions]
  BY GatesFacts, ObeyedFacts, TypeFacts DEF LegChecks, Sends, Loses, IInv
<1>5. used' \subseteq Rare /\ used \subseteq used'
  BY CostsFacts, TypeFacts DEF LegChecks, Sends, Loses, IInv
<1>6. holding' \subseteq Cars /\ (holding' = holding \/ Usable("entry"))
  BY TypeFacts DEF LegChecks, IInv
<1>7. TypeOK'
  BY <1>1, <1>3, <1>4, <1>5, <1>6, TypeFacts, TypeNext DEF IInv
<1>8. ASSUME NEW g \in Gates, g \in work.pending, Passing(g)'
      PROVE  Passing(g)
  <2>1. CASE holding' = holding
    BY <1>1, <1>8, <2>1 DEF Passing
  <2>2. CASE Usable("entry")
    <3>1. g # "entry"
      BY <1>8, <2>2 DEF Usable, UsableBut
    <3>2. QED
      BY <1>1, <1>8, <3>1 DEF Passing
  <2>3. QED
    BY <1>6, <2>1, <2>2
<1>9. (\A g \in Gates : Shunned(g)) /\ (\A q \in Cars : Justified(q))
  BY <1>1, <1>8 DEF Shunned, Justified
<1>10. QED
  BY <1>1, <1>5, <1>7, <1>9, TrafficInv

LEMMA LegAnsweredInv ==
  ASSUME IInv, NEW p \in Cars, LegAnswered(p)
  PROVE  IInv'
<1>1. /\ Moved("entry", "Opening") /\ LegUnchanged
      /\ UNCHANGED <<door, going, holding, used>>
      /\ \E s \in Steps : leg' = [leg EXCEPT ![p] = s]
  BY StepsFacts DEF LegAnswered
<1>2. "entry" \in Gates /\ "Opening" \in Positions
  BY DEF Gates, Positions
<1>3. gate' \in [Gates -> Barrier]
  BY <1>1, <1>2, MovedFacts, TypeFacts DEF IInv
<1>4. leg' \in [Cars -> Steps]
  BY <1>1, TypeFacts DEF IInv
<1>5. TypeOK'
  BY <1>1, <1>3, <1>4, TypeFacts, TypeNext DEF IInv, LegUnchanged, sweeping
<1>6. QED
  BY <1>1, <1>2, <1>5, AnsweredInv DEF LegUnchanged

LEMMA WaitedFacts ==
  ASSUME NEW g, NEW ks, Waited(g, ks)
  PROVE  used' \subseteq Rare /\ used \subseteq used'
BY CostsFacts DEF Waited

LEMMA RoutedFacts ==
  ASSUME going \subseteq Cars, NEW p \in Cars, NEW g, Routed(p, g)
  PROVE  going' \subseteq Cars
BY DEF Routed

LEMMA LegSendsInv ==
  ASSUME IInv, NEW p \in Cars, LegSends(p)
  PROVE  IInv'
<1>1. /\ LegUnchanged /\ UNCHANGED <<door, gate, holding>>
      /\ Routed(p, "entry") \/ UNCHANGED going
      /\ (\E ks : Waited("entry", ks)) /\ \E s \in Steps : leg' = [leg EXCEPT ![p] = s]
  BY StepsFacts DEF LegSends
<1>2. used' \subseteq Rare /\ used \subseteq used'
  BY <1>1, WaitedFacts
<1>3. going' \subseteq Cars /\ leg' \in [Cars -> Steps]
  BY <1>1, TypeFacts, RoutedFacts DEF IInv
<1>4. TypeOK'
  BY <1>1, <1>2, <1>3, TypeFacts, TypeNext DEF IInv, LegUnchanged, sweeping
<1>5. (\A g \in Gates : Shunned(g)) /\ (\A q \in Cars : Justified(q))
  BY <1>1, PassingKept DEF LegUnchanged, Shunned, Justified
<1>6. UNCHANGED <<gate, work>>
  BY <1>1 DEF LegUnchanged
<1>7. QED
  BY <1>2, <1>4, <1>5, <1>6, TrafficInv

LEMMA OffEntryFacts ==
  ASSUME TypeOK, NEW p \in Cars, OffEntry(p)
  PROVE  /\ going' \subseteq Cars /\ holding' \subseteq holding /\ holding' \subseteq Cars
         /\ leg' \in [Cars -> Steps] /\ sweepDue' \in BOOLEAN
<1>1. (IF leg[p] = "asked" THEN leg[p] ELSE "none") \in Steps
  BY StepsFacts
<1>2. QED
  BY <1>1, TypeFacts DEF OffEntry

LEMMA DriveInInv ==
  ASSUME IInv, NEW p \in Cars, DriveIn(p)
  PROVE  IInv'
<1>1. /\ car[p] = "entry" /\ car' = [car EXCEPT ![p] = "driving"] /\ OffEntry(p)
      /\ NotGates /\ UNCHANGED <<released, rel, sweep, used>>
  BY DEF DriveIn
<1>2. car' \in [Cars -> Whereabouts]
  BY <1>1, TypeFacts DEF IInv, Whereabouts
<1>3. TypeOK'
  BY <1>1, <1>2, OffEntryFacts, TypeFacts, TypeNext DEF IInv, NotGates
<1>4. \A g \in Gates : Shunned(g)
  BY <1>1, OffEntryFacts, PassingKept, TypeFacts DEF IInv, Shunned
<1>5. \A q \in Cars : Justified(q)
  BY <1>1, TypeFacts DEF IInv, Justified
<1>6. UNCHANGED <<gate, work>>
  BY <1>1 DEF NotGates
<1>7. QED
  BY <1>1, <1>3, <1>4, <1>5, <1>6, TrafficInv

LEMMA NeglectInv ==
  ASSUME IInv, NEW p \in Cars, Neglect(p)
  PROVE  IInv'
<1>1. /\ car[p] = "entry" /\ car' = [car EXCEPT ![p] = "out"] /\ OffEntry(p)
      /\ Costs({"neglect"}) /\ NotGates /\ UNCHANGED <<released, rel, sweep>>
  BY DEF Neglect
<1>2. car' \in [Cars -> Whereabouts]
  BY <1>1, TypeFacts DEF IInv, Whereabouts
<1>3. used' \subseteq Rare /\ used \subseteq used'
  BY <1>1, CostsFacts
<1>4. TypeOK'
  BY <1>1, <1>2, <1>3, OffEntryFacts, TypeFacts, TypeNext DEF IInv, NotGates
<1>5. \A g \in Gates : Shunned(g)
  BY <1>1, OffEntryFacts, PassingKept, TypeFacts DEF IInv, Shunned
<1>6. \A q \in Cars : Justified(q)
  BY <1>1, TypeFacts DEF IInv, Justified
<1>7. UNCHANGED <<gate, work>>
  BY <1>1 DEF NotGates
<1>8. QED
  BY <1>3, <1>4, <1>5, <1>6, <1>7, TrafficInv

\* A step in which the schedule goes on from work, and no car is let in or out.
LEMMA ScheduledInv ==
  ASSUME IInv, TypeOK', NEW w \in Work, NEW ks, Scheduled(w, ks),
         \A g \in w.pending :
           gate'[g].broken \/ (g \in work.pending /\ (gate[g].broken => gate'[g].broken)),
         Opened', Unpaid', released' = released, holding' \subseteq holding,
         \A p \in Cars : /\ car'[p] = "paid" => car[p] = "paid"
                         /\ rel'[p] \in {"asked", "waits"} => rel[p] \in {"asked", "waits"}
  PROVE  IInv'
<1>1. \A g \in Gates : Passing(g)' => Passing(g)
  BY PassingKept
<1>2. \A g \in work'.pending : MayWait(w, g)
  BY ScheduledFacts
<1>3. used \subseteq used'
  BY ScheduledFacts
<1>4. \A g \in Gates : g \in work'.pending => \/ gate'[g].broken \/ Spare(g)' \/ StillSpared(g)
  BY <1>1, <1>2 DEF MayWait, StillSpared, Shunned
<1>5. Spared'
  BY <1>3, <1>4, SparedKept DEF IInv
<1>6. QED
  BY <1>5 DEF IInv

LEMMA ParkInv ==
  ASSUME IInv, NEW p \in Cars, Park(p)
  PROVE  IInv'
<1>1. /\ car[p] = "driving" /\ car' = [car EXCEPT ![p] = "parked"]
      /\ holding' = holding \ {p} /\ sweepDue' = TRUE /\ UNCHANGED gate
      /\ Scheduled(work, {}) /\ UNCHANGED <<simulator, released, leg, rel, sweep>>
  BY DEF Park
<1>2. work \in Work /\ work' \in Work /\ used' \subseteq Rare /\ used \subseteq used'
  BY <1>1, ScheduledFacts, TypeFacts DEF IInv
<1>3. car' \in [Cars -> Whereabouts] /\ holding' \subseteq Cars
  BY <1>1, TypeFacts DEF IInv, Whereabouts
<1>4. TypeOK'
  BY <1>1, <1>2, <1>3, TypeFacts, TypeNext DEF IInv, simulator
<1>5. \A q \in Cars : (car'[q] = "paid" => car[q] = "paid") /\ Justified(q)
  BY <1>1, TypeFacts DEF IInv, Justified
<1>6. Opened'
  BY <1>1, OpenedKept DEF IInv, SameHold, simulator
<1>7. Unpaid'
  BY <1>1, <1>2, <1>5, UnpaidKept DEF IInv
<1>8. QED
  BY <1>1, <1>2, <1>4, <1>5, <1>6, <1>7, ScheduledInv

-----------------------------------------------------------------------------
(* Cars on their way out.                                                  *)

LEMMA HoldExitInv ==
  ASSUME IInv, NEW p \in Cars, HoldExit(p)
  PROVE  IInv'
<1> DEFINE b == gate["exit"]
           close == /\ ~b.broken /\ ~b.maint /\ "exit" \notin work.pending
                    /\ b.pos \notin {"Closed", "Closing"}
           held == [b EXCEPT !.held = b.held \cup {p}]
<1>1. PICK ks : Tells("exit", held, close, "Closing", ks) /\ Costs({"suspect"} \cup ks)
  BY DEF HoldExit
<1>2. ~b.open /\ UNCHANGED <<health, reports, going, work, traffic, sweeping>>
  BY DEF HoldExit
<1>3. "exit" \in Gates /\ b \in Barrier /\ close \in BOOLEAN
  BY TypeFacts DEF IInv, Gates
<1>4. held \in Barrier /\ (held.open <=> b.open) /\ SameRepair(b, held)
  BY <1>3, HeldFacts, FieldTypes
<1> HIDE DEF held, close
<1>5. /\ gate' \in [Gates -> Barrier] /\ door' \in [Gates -> Positions]
      /\ SameHold(held, gate'["exit"]) /\ SameRepair(held, gate'["exit"])
      /\ \A g \in Gates : g # "exit" => gate'[g] = gate[g]
  BY <1>1, <1>3, <1>4, TellsFacts DEF IInv
<1>6. \A g \in Gates : SameRepair(gate[g], gate'[g])
  BY <1>4, <1>5 DEF SameRepair
<1>7. used' \subseteq Rare /\ used \subseteq used' /\ "suspect" \in used'
  BY <1>1, CostsFacts
<1>8. TypeOK'
  BY <1>2, <1>5, <1>7, TypeFacts, TypeNext DEF IInv, traffic, sweeping
<1>9. Opened'
  BY <1>2, <1>4, <1>5 DEF Opened, IInv, SameHold
<1>10. Unpaid'
  BY <1>2, <1>7 DEF IInv, Unpaid, LetOut, traffic
<1>11. Spared'
  <2>1. \A g \in Gates : Passing(g)' => Passing(g)
    BY <1>2, PassingKept DEF traffic
  <2>2. \A g \in Gates : g \in work'.pending => StillSpared(g)
    BY <1>2, <1>6, <2>1 DEF StillSpared, Shunned, SameRepair
  <2>3. QED
    BY <1>7, <2>2, SparedKept DEF IInv
<1>12. QED
  BY <1>8, <1>9, <1>10, <1>11 DEF IInv

LEMMA PayInv ==
  ASSUME IInv, NEW p \in Cars, Pay(p)
  PROVE  IInv'
<1>1. /\ car[p] = "parked" /\ car' = [car EXCEPT ![p] = "paid"]
      /\ rel' = IF p \in released \/ rel[p] # "none" THEN rel ELSE [rel EXCEPT ![p] = "start"]
      /\ NotGates /\ UNCHANGED <<going, released, leg, holding, sweeping, used>>
  BY DEF Pay
<1>2. car' \in [Cars -> Whereabouts] /\ rel' \in [Cars -> Steps]
  BY <1>1, TypeFacts, StepsFacts DEF IInv, Whereabouts
<1>3. TypeOK'
  BY <1>1, <1>2, TypeFacts, TypeNext DEF IInv, NotGates, sweeping
<1>4. \A q \in Cars : Justified(q)
  BY <1>1, TypeFacts DEF IInv, Justified
<1>5. ASSUME NEW g \in Gates, g = "exit" => ~LetOut, Passing(g)'
      PROVE  Passing(g)
  <2>1. CASE g = "entry"
    BY <1>1, <1>5, <2>1 DEF Passing
  <2>2. CASE g = "exit"
    <3>1. rel[p] = "none" /\ p \notin released
      BY <1>1, <1>5, <2>2 DEF IInv, Unpaid
    <3>2. PICK q \in Cars : /\ car'[q] = "paid"
                            /\ rel'[q] \in {"asked", "waits"} \/ q \in released'
      BY <1>5, <2>2 DEF Passing
    <3>3. q # p
      BY <1>1, <3>1, <3>2, TypeFacts DEF IInv
    <3>4. car[q] = "paid" /\ (rel[q] \in {"asked", "waits"} \/ q \in released)
      BY <1>1, <3>2, <3>3, TypeFacts DEF IInv
    <3>5. QED
      BY <2>2, <3>4 DEF Passing
  <2>3. QED
    BY <2>1, <2>2, GatesFacts
<1>6. \A g \in Gates : Shunned(g)
  BY <1>5 DEF Shunned
<1>7. UNCHANGED <<gate, work>> /\ used \subseteq used'
  BY <1>1 DEF NotGates
<1>8. QED
  BY <1>3, <1>4, <1>6, <1>7, TrafficInv

LEMMA ReroutedFacts ==
  ASSUME TypeOK, NEW p \in Cars, Rerouted(p)
  PROVE  /\ rel' = [rel EXCEPT ![p] = "none"] /\ UNCHANGED door
         /\ car' = car \/ car' = [car EXCEPT ![p] = "out"]
         /\ released' \subseteq released \cup {p}
         /\ p \in released' /\ p \notin released => car'[p] = "out"
         /\ used' \subseteq Rare /\ used \subseteq used'
<1>1. CASE car' = [car EXCEPT ![p] = "out"] /\ released' = released \cup {p} /\ Costs({})
  BY <1>1, CostsFacts, TypeFacts DEF Rerouted, RelEnds
<1>2. CASE /\ car' \in {car, [car EXCEPT ![p] = "out"]}
           /\ UNCHANGED released /\ Costs({"lost"})
  BY <1>2, CostsFacts DEF Rerouted, RelEnds
<1>3. QED
  BY <1>1, <1>2 DEF Rerouted

LEMMA RelChecksInv ==
  ASSUME IInv, NEW p \in Cars, RelChecks(p)
  PROVE  IInv'
<1> DEFINE b == gate["exit"]
           others == b.held \ {p}
           next == [b EXCEPT !.held = others]
<1>1. /\ rel[p] = "start" /\ gate' = [gate EXCEPT !["exit"] = next]
      /\ RelUnchanged /\ UNCHANGED going
  BY DEF RelChecks
<1>2. "exit" \in Gates /\ b \in Barrier
  BY TypeFacts DEF IInv, Gates
<1>3. /\ next \in Barrier /\ (next.open <=> b.open) /\ (next.shut <=> b.shut)
      /\ next.held = others /\ SameRepair(b, next)
  BY <1>2, HeldFacts, FieldTypes
<1> HIDE DEF next
<1>4. gate' \in [Gates -> Barrier] /\ gate'["exit"] = next
      /\ \A g \in Gates : g # "exit" => gate'[g] = gate[g]
  BY <1>1, <1>2, <1>3, TypeFacts DEF IInv
<1>5. /\ \A g \in Gates : SameRepair(gate[g], gate'[g]) /\ gate'[g].held \subseteq gate[g].held
      /\ \A g \in Gates : (gate[g].open <=> gate'[g].open) /\ (gate[g].shut <=> gate'[g].shut)
  BY <1>3, <1>4 DEF SameRepair
<1>6. \/ RelEnds(p) /\ UNCHANGED <<door, car, released, used>>
      \/ Rerouted(p)
      \/ /\ UNCHANGED <<car, released>> /\ "exit" \notin work.pending
         /\ \/ rel' = [rel EXCEPT ![p] = "waits"] /\ UNCHANGED <<door, used>>
            \/ Sends("exit", "Opening") /\ rel' = [rel EXCEPT ![p] = "asked"]
            \/ Loses("exit", "Opening") /\ RelEnds(p)
  BY DEF RelChecks
<1>7. /\ door' \in [Gates -> Positions] /\ used' \subseteq Rare /\ used \subseteq used'
      /\ (\E s \in Steps : rel' = [rel EXCEPT ![p] = s])
      /\ car' = car \/ car' = [car EXCEPT ![p] = "out"]
      /\ released' \subseteq released \cup {p}
      /\ p \in released' /\ p \notin released => car'[p] = "out"
      /\ "exit" \in work.pending => rel' = [rel EXCEPT ![p] = "none"]
  <2>1. CASE RelEnds(p) /\ UNCHANGED <<door, car, released, used>>
    BY <2>1, StepsFacts, TypeFacts DEF IInv, RelEnds
  <2>2. CASE Rerouted(p)
    BY <2>2, StepsFacts, ReroutedFacts, TypeFacts DEF IInv
  <2>3. ASSUME UNCHANGED <<car, released>>, "exit" \notin work.pending,
               \/ rel' = [rel EXCEPT ![p] = "waits"] /\ UNCHANGED <<door, used>>
               \/ Sends("exit", "Opening") /\ rel' = [rel EXCEPT ![p] = "asked"]
               \/ Loses("exit", "Opening") /\ RelEnds(p)
        PROVE  /\ door' \in [Gates -> Positions] /\ used' \subseteq Rare /\ used \subseteq used'
               /\ \E s \in Steps : rel' = [rel EXCEPT ![p] = s]
    <3>1. CASE rel' = [rel EXCEPT ![p] = "waits"] /\ UNCHANGED <<door, used>>
      BY <3>1, StepsFacts, TypeFacts DEF IInv
    <3>2. CASE Sends("exit", "Opening") /\ rel' = [rel EXCEPT ![p] = "asked"]
      <4>1. door' = Obeyed(door, "exit", "Opening") /\ Costs({})
        BY <3>2 DEF Sends
      <4>2. door' \in [Gates -> Positions]
        BY <1>2, <4>1, ObeyedFacts, TypeFacts DEF IInv
      <4>3. used' \subseteq Rare /\ used \subseteq used'
        BY <4>1, CostsFacts
      <4>4. QED
        BY <3>2, <4>2, <4>3, StepsFacts
    <3>3. CASE Loses("exit", "Opening") /\ RelEnds(p)
      <4>1. door' \in {door, Obeyed(door, "exit", "Opening")} /\ Costs({"lost"})
        BY <3>3 DEF Loses
      <4>2. door' \in [Gates -> Positions]
        BY <1>2, <4>1, ObeyedFacts, TypeFacts DEF IInv
      <4>3. used' \subseteq Rare /\ used \subseteq used'
        BY <4>1, CostsFacts
      <4>4. QED
        BY <3>3, <4>2, <4>3, StepsFacts DEF RelEnds
    <3>4. QED
      BY <2>3, <3>1, <3>2, <3>3
  <2>4. QED
    BY <1>6, <2>1, <2>2, <2>3
<1>8. car' \in [Cars -> Whereabouts] /\ rel' \in [Cars -> Steps]
  BY <1>7, TypeFacts DEF IInv, Whereabouts
<1>9. TypeOK'
  BY <1>1, <1>4, <1>7, <1>8, TypeFacts, TypeNext DEF IInv, RelUnchanged, sweeping
<1>10. Opened'
  BY <1>5 DEF IInv, Opened
<1>11. Unpaid'
  <2>1. \A q \in Cars : Justified(q)
    BY <1>1, <1>7, TypeFacts DEF IInv, Justified
  <2>2. QED
    BY <1>5, <1>7, <2>1, UnpaidKept DEF IInv
<1>12. Spared'
  <2>1. ASSUME NEW g \in Gates, g \in work.pending, Passing(g)'
        PROVE  Passing(g)
    <3>1. CASE g = "entry"
      BY <1>1, <2>1, <3>1 DEF Passing, RelUnchanged
    <3>2. CASE g = "exit"
      <4>1. PICK q \in Cars : /\ car'[q] = "paid"
                              /\ rel'[q] \in {"asked", "waits"} \/ q \in released'
        BY <2>1, <3>2 DEF Passing
      <4>2. rel' = [rel EXCEPT ![p] = "none"]
        BY <1>7, <2>1, <3>2
      <4>3. car[q] = "paid" /\ (rel[q] \in {"asked", "waits"} \/ q \in released)
        BY <1>7, <4>1, <4>2, TypeFacts DEF IInv
      <4>4. QED
        BY <3>2, <4>3 DEF Passing
    <3>3. QED
      BY <3>1, <3>2, GatesFacts
  <2>2. \A g \in Gates : g \in work'.pending => StillSpared(g)
    BY <1>1, <1>5, <2>1 DEF StillSpared, Shunned, SameRepair, RelUnchanged
  <2>3. QED
    BY <1>7, <2>2, SparedKept DEF IInv
<1>13. QED
  BY <1>9, <1>10, <1>11, <1>12 DEF IInv

LEMMA RelAnsweredInv ==
  ASSUME IInv, NEW p \in Cars, RelAnswered(p)
  PROVE  IInv'
<1>1. /\ rel[p] = "asked" /\ Moved("exit", "Opening") /\ rel' = [rel EXCEPT ![p] = "waits"]
      /\ RelUnchanged /\ UNCHANGED <<door, going, car, released, used>>
  BY DEF RelAnswered
<1>2. "exit" \in Gates /\ "Opening" \in Positions
  BY DEF Gates, Positions
<1>3. gate' \in [Gates -> Barrier]
  BY <1>1, <1>2, MovedFacts, TypeFacts DEF IInv
<1>4. rel' \in [Cars -> Steps] /\ \A q \in Cars : rel'[q] = rel[q] \/ rel[q] = "asked"
  BY <1>1, StepsFacts, TypeFacts DEF IInv
<1>5. TypeOK'
  BY <1>1, <1>3, <1>4, TypeFacts, TypeNext DEF IInv, RelUnchanged, sweeping
<1>6. QED
  BY <1>1, <1>2, <1>4, <1>5, AnsweredInv DEF RelUnchanged

LEMMA RelSendsInv ==
  ASSUME IInv, NEW p \in Cars, RelSends(p)
  PROVE  IInv'
<1>1. /\ rel[p] = "waits" /\ rel' = [rel EXCEPT ![p] = "none"]
      /\ RelUnchanged /\ UNCHANGED <<door, gate, car>>
      /\ (\E ks : Waited("exit", ks))
      /\ released' \in {released, released \cup {p}}
      /\ Routed(p, "exit") \/ going' = going
  BY DEF RelSends, RelEnds
<1>2. used' \subseteq Rare /\ used \subseteq used'
  BY <1>1, WaitedFacts
<1>3. going' \subseteq Cars /\ rel' \in [Cars -> Steps] /\ released' \subseteq Cars
  BY <1>1, RoutedFacts, StepsFacts, TypeFacts DEF IInv
<1>4. TypeOK'
  BY <1>1, <1>2, <1>3, TypeFacts, TypeNext DEF IInv, RelUnchanged, sweeping
<1>5. \A q \in Cars : Justified(q)
  BY <1>1, TypeFacts DEF IInv, Justified
<1>6. ASSUME NEW g \in Gates, Passing(g)'
      PROVE  Passing(g)
  <2>1. CASE g = "entry"
    BY <1>1, <1>6, <2>1 DEF Passing, RelUnchanged
  <2>2. CASE g = "exit"
    <3>1. PICK q \in Cars : /\ car'[q] = "paid"
                            /\ rel'[q] \in {"asked", "waits"} \/ q \in released'
      BY <1>6, <2>2 DEF Passing
    <3>2. car[q] = "paid" /\ (rel[q] \in {"asked", "waits"} \/ q \in released)
      BY <1>1, <3>1, TypeFacts DEF IInv
    <3>3. QED
      BY <2>2, <3>2 DEF Passing
  <2>3. QED
    BY <2>1, <2>2, GatesFacts
<1>7. \A g \in Gates : Shunned(g)
  BY <1>6 DEF Shunned
<1>8. UNCHANGED <<gate, work>>
  BY <1>1 DEF RelUnchanged
<1>9. QED
  BY <1>2, <1>4, <1>5, <1>7, <1>8, TrafficInv

LEMMA DriveOutInv ==
  ASSUME IInv, NEW p \in Cars, DriveOut(p)
  PROVE  IInv'
<1>1. /\ car' = [car EXCEPT ![p] = "out"] /\ going' = going \ {p} /\ sweepDue' = TRUE
      /\ UNCHANGED <<gate, holding>> /\ Scheduled(work, {})
      /\ UNCHANGED <<door, health, reports, released, leg, rel, sweep>>
  BY DEF DriveOut
<1>2. work \in Work /\ work' \in Work /\ used' \subseteq Rare /\ used \subseteq used'
  BY <1>1, ScheduledFacts, TypeFacts DEF IInv
<1>3. car' \in [Cars -> Whereabouts] /\ going' \subseteq Cars
  BY <1>1, TypeFacts DEF IInv, Whereabouts
<1>4. TypeOK'
  BY <1>1, <1>2, <1>3, TypeFacts, TypeNext DEF IInv
<1>5. \A q \in Cars : (car'[q] = "paid" => car[q] = "paid") /\ Justified(q)
  BY <1>1, TypeFacts DEF IInv, Justified
<1>6. Opened'
  BY <1>1, OpenedKept DEF IInv, SameHold
<1>7. Unpaid'
  BY <1>1, <1>2, <1>5, UnpaidKept DEF IInv
<1>8. QED
  BY <1>1, <1>2, <1>4, <1>5, <1>6, <1>7, ScheduledInv

-----------------------------------------------------------------------------
(* Sweeps.                                                                 *)

LEMMA SweepGoesOnFacts ==
  ASSUME TypeOK, NEW s \in Sweeps, SweepGoesOn(s)
  PROVE  /\ sweep' \in Sweeps /\ door' \in [Gates -> Positions]
         /\ used' \subseteq Rare /\ used \subseteq used'
<1>1. CASE sweep' = Quiet /\ UNCHANGED <<door, used>>
  BY <1>1, TypeFacts DEF Quiet, Sweeps
<1>2. ASSUME NEW g \in s.left, NEW now \in {g, "lost"},
             sweep' = [s EXCEPT !.left = s.left \ {g}, !.now = now],
             Sends(g, "Closing") \/ Loses(g, "Closing")
      PROVE  /\ sweep' \in Sweeps /\ door' \in [Gates -> Positions]
             /\ used' \subseteq Rare /\ used \subseteq used'
  <2>1. g \in Gates
    BY DEF Sweeps
  <2>2. sweep' \in Sweeps
    BY <1>2, <2>1 DEF Sweeps
  <2>3. door' \in {door, Obeyed(door, g, "Closing")}
    BY <1>2 DEF Sends, Loses
  <2>4. door' \in [Gates -> Positions]
    <3>1. door \in [Gates -> Positions]
      BY TypeFacts
    <3>2. Obeyed(door, g, "Closing") \in [Gates -> Positions]
      BY <2>1, <3>1, ObeyedFacts
    <3>3. QED
      BY <2>3, <3>1, <3>2
  <2>5. used' \subseteq Rare /\ used \subseteq used'
    BY <1>2, CostsFacts DEF Sends, Loses
  <2>6. QED
    BY <2>2, <2>4, <2>5
<1>3. QED
  BY <1>1, <1>2 DEF SweepGoesOn

LEMMA SweepBeginsInv ==
  ASSUME IInv, SweepBegins
  PROVE  IInv'
<1> DEFINE s == [busy |-> InUse, left |-> Gates, now |-> "none"]
<1>1. /\ sweepDue' = FALSE /\ UNCHANGED gate /\ SweepGoesOn(s)
      /\ UNCHANGED <<health, reports, going, work, traffic>>
  BY DEF SweepBegins, SweepUnchanged
<1>2. s \in Sweeps
  BY DEF Sweeps, InUse, Gates
<1> HIDE DEF s
<1>3. /\ sweep' \in Sweeps /\ door' \in [Gates -> Positions]
      /\ used' \subseteq Rare /\ used \subseteq used'
  BY <1>1, <1>2, SweepGoesOnFacts DEF IInv
<1>4. TypeOK'
  BY <1>1, <1>3, TypeFacts, TypeNext DEF IInv, traffic
<1>5. (\A g \in Gates : Shunned(g)) /\ (\A p \in Cars : Justified(p))
  BY <1>1, PassingKept DEF Shunned, Justified, traffic
<1>6. QED
  BY <1>1, <1>3, <1>4, <1>5, TrafficInv

\* An answer, or none.
LEMMA SweepAnsweredInv ==
  ASSUME IInv, SweepFails \/ \E g \in Gates : SweepAnswered(g)
  PROVE  IInv'
<1> DEFINE s == [sweep EXCEPT !.now = "none"]
<1>1. /\ SweepGoesOn(s) /\ UNCHANGED sweepDue
      /\ UNCHANGED <<health, reports, going, work, traffic>>
  BY DEF SweepAnswered, SweepFails, SweepUnchanged
<1>2. s \in Sweeps /\ "Closing" \in Positions
  BY TypeFacts DEF IInv, Sweeps, Positions
<1> HIDE DEF s
<1>3. /\ sweep' \in Sweeps /\ door' \in [Gates -> Positions]
      /\ used' \subseteq Rare /\ used \subseteq used'
  BY <1>1, <1>2, SweepGoesOnFacts DEF IInv
<1>4. CASE SweepFails
  <2>1. UNCHANGED gate
    BY <1>4 DEF SweepFails
  <2>2. TypeOK'
    BY <1>1, <1>3, <2>1, TypeFacts, TypeNext DEF IInv, traffic
  <2>3. (\A g \in Gates : Shunned(g)) /\ (\A p \in Cars : Justified(p))
    BY <1>1, PassingKept DEF Shunned, Justified, traffic
  <2>4. QED
    BY <1>1, <1>3, <2>1, <2>2, <2>3, TrafficInv
<1>5. ASSUME NEW g \in Gates, SweepAnswered(g)
      PROVE  IInv'
  <2>1. Moved(g, "Closing")
    BY <1>5 DEF SweepAnswered
  <2>2. gate' \in [Gates -> Barrier]
    BY <1>2, <2>1, MovedFacts, TypeFacts DEF IInv
  <2>3. TypeOK'
    BY <1>1, <1>3, <2>2, TypeFacts, TypeNext DEF IInv, traffic
  <2>4. QED
    BY <1>1, <1>2, <1>3, <2>1, <2>3, AnsweredInv DEF traffic
<1>6. QED
  BY <1>4, <1>5

-----------------------------------------------------------------------------
(* Webhooks about gates.                                                   *)

\* What is left of s when its element i is taken.
Without(s, i) == SubSeq(s, 1, i - 1) \o SubSeq(s, i + 1, Len(s))

LEMMA WithoutFacts ==
  ASSUME NEW S, NEW s \in Seq(S), NEW i \in 1 .. Len(s)
  PROVE  /\ Without(s, i) \in Seq(S) /\ Len(Without(s, i)) = Len(s) - 1
         /\ \A j \in 1 .. Len(s) - 1 : Without(s, i)[j] = IF j < i THEN s[j] ELSE s[j + 1]
<1> DEFINE n == Len(s)
           u == SubSeq(s, 1, i - 1)
           v == SubSeq(s, i + 1, n)
           t == Without(s, i)
<1>1. n \in Nat /\ i \in Nat /\ 1 <= i /\ i <= n
  OBVIOUS
<1>2. /\ u \in Seq(S) /\ Len(u) = i - 1
      /\ \A j \in 1 .. i - 1 : u[j] = s[j]
  <2>1. \A j \in 1 .. i - 1 : j \in 1 .. n
    BY <1>1
  <2>2. \A j \in 1 .. i - 1 : s[j] \in S
    BY <2>1
  <2>3. QED
    BY <1>1, <2>2, SubSeqProperties
<1>3. /\ v \in Seq(S) /\ Len(v) = n - i
      /\ \A j \in 1 .. n - i : v[j] = s[i + j]
  <2>1. \A j \in i + 1 .. n : s[j] \in S
    BY <1>1
  <2>2. v \in Seq(S) /\ Len(v) = n - i
    BY <1>1, <2>1, SubSeqProperties
  <2>3. \A j \in 1 .. n - i : v[j] = s[i + j]
    BY <1>1, <2>1, SubSeqProperties
  <2>4. QED
    BY <2>2, <2>3
<1>4. t = u \o v
  BY DEF Without
<1> HIDE DEF u, v, n, t
<1>5. /\ t \in Seq(S) /\ Len(t) = n - 1
      /\ \A j \in 1 .. n - 1 : t[j] = IF j <= i - 1 THEN u[j] ELSE v[j - (i - 1)]
  <2>1. u \in Seq(S) /\ v \in Seq(S)
    BY <1>2, <1>3
  <2>2. /\ u \o v \in Seq(S) /\ Len(u \o v) = Len(u) + Len(v)
        /\ \A j \in 1 .. Len(u) + Len(v) :
             (u \o v)[j] = IF j <= Len(u) THEN u[j] ELSE v[j - Len(u)]
    BY <2>1, ConcatProperties
  <2>3. Len(u) + Len(v) = n - 1
    BY <1>1, <1>2, <1>3
  <2>4. QED
    BY <1>2, <1>4, <2>2, <2>3
<1>6. ASSUME NEW j \in 1 .. n - 1
      PROVE  t[j] = IF j < i THEN s[j] ELSE s[j + 1]
  <2>1. CASE j < i
    <3>1. j \in 1 .. i - 1
      BY <1>1, <2>1
    <3>2. t[j] = u[j]
      BY <1>5, <3>1
    <3>3. QED
      BY <1>2, <2>1, <3>1, <3>2
  <2>2. CASE ~(j < i)
    <3>1. j - (i - 1) \in 1 .. n - i /\ i + (j - (i - 1)) = j + 1 /\ j \in Nat
      BY <1>1, <2>2
    <3>2. ~(j <= i - 1)
      BY <1>1, <2>2
    <3>3. t[j] = v[j - (i - 1)]
      BY <1>5, <3>2
    <3>4. QED
      BY <1>3, <2>2, <3>1, <3>3
  <2>3. QED
    BY <2>1, <2>2
<1>7. QED
  BY <1>5, <1>6 DEF n, t

LEMMA TakenFacts ==
  ASSUME TypeOK, NEW g \in Gates, NEW what, Takes(g, what)
  PROVE  /\ reports' \in [Gates -> Seq(Reported)]
         /\ \A h \in Gates : h # g => reports'[h] = reports[h]
         /\ \E i \in 1 .. Len(reports[g]) :
              /\ reports[g][i] = what /\ Len(reports'[g]) = Len(reports[g]) - 1
              /\ \A j \in 1 .. Len(reports[g]) - 1 :
                   reports'[g][j] = IF j < i THEN reports[g][j] ELSE reports[g][j + 1]
<1> DEFINE s == reports[g]
<1>1. s \in Seq(Reported) /\ reports \in [Gates -> Seq(Reported)]
  BY TypeFacts
<1>2. DOMAIN s = 1 .. Len(s)
  BY <1>1
<1>3. PICK i \in DOMAIN s : s[i] = what /\ reports' = [reports EXCEPT ![g] = Without(s, i)]
  BY DEF Takes, Without
<1>4. /\ Without(s, i) \in Seq(Reported) /\ Len(Without(s, i)) = Len(s) - 1
      /\ \A j \in 1 .. Len(s) - 1 : Without(s, i)[j] = IF j < i THEN s[j] ELSE s[j + 1]
  BY <1>1, <1>2, WithoutFacts
<1>5. reports'[g] = Without(s, i) /\ reports' \in [Gates -> Seq(Reported)]
  BY <1>1, <1>3, <1>4
<1>6. \A h \in Gates : h # g => reports'[h] = reports[h]
  BY <1>1, <1>3
<1>7. QED
  BY <1>2, <1>3, <1>4, <1>5, <1>6

LEMMA GateMovedInv ==
  ASSUME IInv, NEW g \in Gates, NEW to \in {"Open", "Closed"}, GateMoved(g, to)
  PROVE  IInv'
<1> DEFINE b == gate[g]
           enforce == /\ to = "Open" /\ (b.shut \/ b.held # {})
                      /\ ~b.broken /\ ~b.maint /\ g \notin work.pending
<1>1. PICK ks : Tells(g, At(b, to), enforce, "Closing", ks) /\ Costs(ks)
  BY DEF GateMoved
<1>2. Takes(g, to) /\ WebhookUnchanged /\ UNCHANGED <<work, leg, rel>>
  BY DEF GateMoved
<1>3. b \in Barrier /\ to \in Positions /\ enforce \in BOOLEAN
  BY TypeFacts DEF IInv, Positions
<1> HIDE DEF enforce
<1>4. At(b, to) \in Barrier /\ SameHold(b, At(b, to)) /\ SameRepair(b, At(b, to))
  BY <1>3, AtFacts
<1>5. /\ gate' \in [Gates -> Barrier] /\ door' \in [Gates -> Positions]
      /\ SameHold(At(b, to), gate'[g]) /\ SameRepair(At(b, to), gate'[g])
      /\ \A h \in Gates : h # g => gate'[h] = gate[h]
  BY <1>1, <1>3, <1>4, TellsFacts DEF IInv
<1>6. \A h \in Gates : SameHold(gate[h], gate'[h]) /\ SameRepair(gate[h], gate'[h])
  BY <1>4, <1>5 DEF SameHold, SameRepair
<1>7. used' \subseteq Rare /\ used \subseteq used'
  BY <1>1, CostsFacts
<1>8. TypeOK'
  <2>1. reports' \in [Gates -> Seq(Reported)]
    BY <1>2, TakenFacts DEF IInv
  <2>2. QED
    BY <1>2, <1>5, <1>7, <2>1, TypeFacts, TypeNext DEF IInv, WebhookUnchanged, sweeping
<1>9. Opened'
  BY <1>6, OpenedKept DEF IInv
<1>10. Unpaid'
  <2>1. \A q \in Cars : Justified(q)
    BY <1>2 DEF Justified, WebhookUnchanged
  <2>2. QED
    BY <1>6, <1>7, <2>1, UnpaidKept DEF IInv, SameHold
<1>11. Spared'
  <2>1. \A h \in Gates : Passing(h)' => Passing(h)
    BY <1>2, PassingKept DEF WebhookUnchanged
  <2>2. \A h \in Gates : h \in work'.pending => StillSpared(h)
    BY <1>2, <1>6, <2>1 DEF StillSpared, Shunned, SameRepair
  <2>3. QED
    BY <1>7, <2>2, SparedKept DEF IInv
<1>12. QED
  BY <1>8, <1>9, <1>10, <1>11 DEF IInv

LEMMA GateBrokenInv ==
  ASSUME IInv, NEW g \in Gates, GateBroken(g)
  PROVE  IInv'
<1> DEFINE next == [gate[g] EXCEPT !.broken = TRUE]
           w == WithBroken(work, {g})
<1>1. /\ Takes(g, "broken") /\ gate' = [gate EXCEPT ![g] = next]
      /\ WebhookUnchanged /\ UNCHANGED <<door, leg, rel>> /\ Scheduled(w, {})
  BY DEF GateBroken
<1>2. gate[g] \in Barrier
  BY TypeFacts DEF IInv
<1>3. next \in Barrier /\ next.broken /\ (next.maint <=> gate[g].maint) /\ SameHold(gate[g], next)
  BY <1>2, BrokenFacts
<1> HIDE DEF next
<1>4. gate' \in [Gates -> Barrier] /\ gate'[g] = next /\ \A h \in Gates : h # g => gate'[h] = gate[h]
  BY <1>1, <1>3, TypeFacts DEF IInv
<1>5. \A h \in Gates : /\ SameHold(gate[h], gate'[h]) /\ (gate[h].broken => gate'[h].broken)
                       /\ (gate[h].maint => gate'[h].maint)
  BY <1>3, <1>4 DEF SameHold
<1>6. /\ w \in Work
      /\ \A h \in w.pending : gate'[h].broken \/ h \in work.pending
  BY WithBrokenFacts, TypeFacts DEF IInv
<1>7. w.pending \subseteq Gates
  BY <1>6, WorkFields
<1> HIDE DEF w
<1>8. work' \in Work /\ used' \subseteq Rare /\ used \subseteq used'
  BY <1>1, <1>6, ScheduledFacts
<1>9. TypeOK'
  <2>1. reports' \in [Gates -> Seq(Reported)]
    BY <1>1, TakenFacts DEF IInv
  <2>2. QED
    BY <1>1, <1>4, <1>8, <2>1, TypeFacts, TypeNext DEF IInv, WebhookUnchanged, sweeping
<1>10. Opened'
  BY <1>5, OpenedKept DEF IInv
<1>11. Unpaid'
  <2>1. \A q \in Cars : Justified(q)
    BY <1>1 DEF Justified, WebhookUnchanged
  <2>2. QED
    BY <1>5, <1>8, <2>1, UnpaidKept DEF IInv, SameHold
<1>12. \A h \in w.pending :
         gate'[h].broken \/ (h \in work.pending /\ (gate[h].broken => gate'[h].broken))
  BY <1>5, <1>6, <1>7
<1>13. UNCHANGED <<car, rel, released, holding>>
  BY <1>1 DEF WebhookUnchanged
<1>14. QED
  BY <1>1, <1>6, <1>9, <1>10, <1>11, <1>12, <1>13, ScheduledInv

\* Waiting cars are begun with anew: no step of it lets a car out that has not paid.
LEMMA RestartedFacts ==
  ASSUME TypeOK, Restarted, UNCHANGED <<car, released>>
  PROVE  /\ leg' \in [Cars -> Steps] /\ rel' \in [Cars -> Steps]
         /\ \A p \in Cars : /\ Justified(p)
                            /\ rel'[p] \in {"asked", "waits"} => rel[p] \in {"asked", "waits"}
<1>1. leg' \in [Cars -> Steps] /\ rel' \in [Cars -> Steps]
  BY StepsFacts, TypeFacts DEF Restarted
<1>2. ASSUME NEW p \in Cars
      PROVE  /\ Justified(p)
             /\ rel'[p] \in {"asked", "waits"} => rel[p] \in {"asked", "waits"}
  <2>1. rel'[p] = rel[p] \/ (rel'[p] = "start" /\ car[p] = "paid")
    BY DEF Restarted
  <2>2. QED
    BY <2>1 DEF Justified
<1>3. QED
  BY <1>1, <1>2

LEMMA GateFixedInv ==
  ASSUME IInv, NEW g \in Gates, GateFixed(g)
  PROVE  IInv'
<1> DEFINE b == [gate[g] EXCEPT !.broken = FALSE, !.maint = FALSE, !.worn = FALSE]
           close == ~b.open /\ g \notin InUse
           v == [work EXCEPT !.pending = work.pending \ {g}, !.stuck = work.stuck \ {g},
                             !.todo = work.todo \ {g}]
           w == Ended(v)
<1>1. PICK ks : Tells(g, b, close, "Closing", ks) /\ Scheduled(w, ks)
  BY DEF GateFixed
<1>2. Takes(g, "fixed") /\ WebhookUnchanged /\ Restarted
  BY DEF GateFixed
<1>3. gate[g] \in Barrier /\ work \in Work /\ close \in BOOLEAN
  BY TypeFacts DEF IInv
<1>4. b \in Barrier /\ SameHold(gate[g], b)
  BY <1>3, RepairedFacts
<1> HIDE DEF b, close
<1>5. /\ gate' \in [Gates -> Barrier] /\ door' \in [Gates -> Positions]
      /\ SameHold(b, gate'[g]) /\ \A h \in Gates : h # g => gate'[h] = gate[h]
  BY <1>1, <1>3, <1>4, TellsFacts DEF IInv
<1>6. \A h \in Gates : SameHold(gate[h], gate'[h])
  BY <1>4, <1>5 DEF SameHold
<1>7. v \in Work /\ v.pending = work.pending \ {g}
  BY <1>3 DEF Work
<1> HIDE DEF v
<1>8. w \in Work /\ w.pending = work.pending \ {g}
  BY <1>7, PlainFacts
<1> HIDE DEF w
<1>9. work' \in Work /\ used' \subseteq Rare /\ used \subseteq used'
  BY <1>1, <1>8, ScheduledFacts
<1>10. UNCHANGED <<health, going, car, released, holding, sweep, sweepDue>>
  BY <1>2 DEF WebhookUnchanged, sweeping
<1>11. TypeOK'
  <2>1. reports' \in [Gates -> Seq(Reported)]
    BY <1>2, TakenFacts DEF IInv
  <2>2. leg' \in [Cars -> Steps] /\ rel' \in [Cars -> Steps]
    BY <1>2, <1>10, RestartedFacts DEF IInv
  <2>3. QED
    BY <1>5, <1>9, <1>10, <2>1, <2>2, TypeFacts, TypeNext DEF IInv
<1>12. Opened'
  BY <1>6, OpenedKept DEF IInv
<1>13. \A p \in Cars : /\ Justified(p)
                       /\ rel'[p] \in {"asked", "waits"} => rel[p] \in {"asked", "waits"}
  BY <1>2, <1>10, RestartedFacts DEF IInv
<1>14. Unpaid'
  BY <1>6, <1>9, <1>13, UnpaidKept DEF IInv, SameHold
<1>15. \A h \in w.pending :
         gate'[h].broken \/ (h \in work.pending /\ (gate[h].broken => gate'[h].broken))
  <2>1. work.pending \subseteq Gates
    BY <1>3, WorkFields
  <2>2. QED
    BY <1>5, <1>8, <2>1
<1>16. QED
  BY <1>1, <1>8, <1>10, <1>11, <1>12, <1>13, <1>14, <1>15, ScheduledInv

-----------------------------------------------------------------------------
(* Staff.                                                                  *)

LEMMA StaffTakesFacts ==
  ASSUME TypeOK, NEW g \in Gates, StaffTakes(g)
  PROVE  work' \in Work /\ work'.pending = work.pending \ {g}
<1>1. work' = [work EXCEPT !.pending = work.pending \ {g}]
  BY DEF StaffTakes
<1>2. QED
  BY <1>1, TypeFacts DEF Work

\* Staff take a gate, in a step that lets cars out or not.
LEMMA StaffInv ==
  ASSUME IInv, TypeOK', NEW g \in Gates, StaffTakes(g), used \subseteq used',
         SameRepair(gate[g], gate'[g]), gate'[g].open => ~gate'[g].shut /\ gate'[g].held = {},
         gate'[g].held \subseteq gate[g].held, \A h \in Gates : h # g => gate'[h] = gate[h],
         UNCHANGED <<car, released, holding>>,
         \A p \in Cars : /\ Justified(p)
                         /\ rel'[p] \in {"asked", "waits"} => rel[p] \in {"asked", "waits"}
  PROVE  IInv'
<1>1. \A h \in Gates : SameRepair(gate[h], gate'[h]) /\ gate'[h].held \subseteq gate[h].held
  BY DEF SameRepair
<1>2. work'.pending = work.pending \ {g}
  BY StaffTakesFacts DEF IInv
<1>3. Opened'
  BY DEF IInv, Opened
<1>4. Unpaid'
  BY <1>1, <1>2, UnpaidKept DEF IInv
<1>5. \A h \in Gates : Passing(h)' => Passing(h)
  BY PassingKept
<1>6. \A h \in Gates : h \in work'.pending => StillSpared(h)
  BY <1>1, <1>2, <1>5 DEF StillSpared, Shunned, SameRepair
<1>7. Spared'
  BY <1>2, <1>6, SparedKept DEF IInv
<1>8. QED
  BY <1>3, <1>4, <1>7 DEF IInv

LEMMA StaffOpensInv ==
  ASSUME IInv, NEW g \in Gates, StaffOpens(g)
  PROVE  IInv'
<1> DEFINE send == gate[g].pos \notin {"Open", "Opening"}
           held == [gate[g] EXCEPT !.open = TRUE, !.shut = FALSE, !.held = {}]
<1>1. PICK ks : Tells(g, held, send, "Opening", ks) /\ Costs({"staff"} \cup ks)
  BY DEF StaffOpens
<1>2. /\ StaffTakes(g)
      /\ UNCHANGED <<health, reports, going, car, released, holding, sweep, sweepDue>>
  BY DEF StaffOpens, StaffUnchanged, sweeping
<1>3. gate[g] \in Barrier /\ send \in BOOLEAN
  BY TypeFacts DEF IInv
<1>4. held \in Barrier /\ ~held.shut /\ held.held = {} /\ SameRepair(gate[g], held)
  BY <1>3 DEF Barrier, SameRepair
<1> HIDE DEF held, send
<1>5. /\ gate' \in [Gates -> Barrier] /\ door' \in [Gates -> Positions]
      /\ SameHold(held, gate'[g]) /\ SameRepair(held, gate'[g])
      /\ \A h \in Gates : h # g => gate'[h] = gate[h]
  BY <1>1, <1>3, <1>4, TellsFacts DEF IInv
<1>6. leg' \in [Cars -> Steps] /\ rel' \in [Cars -> Steps]
  BY StepsFacts, TypeFacts DEF IInv, StaffOpens
<1>7. work' \in Work /\ used' \subseteq Rare /\ used \subseteq used' /\ "staff" \in used'
  BY <1>1, <1>2, CostsFacts, StaffTakesFacts DEF IInv
<1>8. TypeOK'
  BY <1>2, <1>5, <1>6, <1>7, TypeFacts, TypeNext DEF IInv
<1>9. ASSUME NEW p \in Cars
      PROVE  /\ Justified(p)
             /\ rel'[p] \in {"asked", "waits"} => rel[p] \in {"asked", "waits"}
  <2>1. rel'[p] = rel[p] \/ (rel'[p] = "start" /\ (car[p] = "paid" \/ gate[g].held # {}))
    BY DEF StaffOpens
  <2>2. gate[g].held # {} => LetOut'
    BY <1>7 DEF IInv, Unpaid, LetOut
  <2>3. QED
    BY <1>2, <2>1, <2>2 DEF Justified
<1>10. SameRepair(gate[g], gate'[g]) /\ ~gate'[g].shut /\ gate'[g].held = {}
  BY <1>4, <1>5 DEF SameRepair, SameHold
<1>11. QED
  BY <1>2, <1>5, <1>7, <1>8, <1>9, <1>10, StaffInv

LEMMA StaffClosesInv ==
  ASSUME IInv, NEW g \in Gates, StaffCloses(g)
  PROVE  IInv'
<1> DEFINE send == gate[g].pos \notin {"Closed", "Closing"}
           held == [gate[g] EXCEPT !.open = FALSE, !.shut = TRUE]
<1>1. PICK ks : Tells(g, held, send, "Closing", ks) /\ Costs({"shut"} \cup ks)
  BY DEF StaffCloses
<1>2. /\ StaffTakes(g)
      /\ UNCHANGED <<health, reports, going, car, released, holding, sweep, sweepDue, leg, rel>>
  BY DEF StaffCloses, StaffUnchanged, sweeping
<1>3. gate[g] \in Barrier /\ send \in BOOLEAN
  BY TypeFacts DEF IInv
<1>4. held \in Barrier /\ ~held.open /\ held.held = gate[g].held /\ SameRepair(gate[g], held)
  BY <1>3 DEF Barrier, SameRepair
<1> HIDE DEF held, send
<1>5. /\ gate' \in [Gates -> Barrier] /\ door' \in [Gates -> Positions]
      /\ SameHold(held, gate'[g]) /\ SameRepair(held, gate'[g])
      /\ \A h \in Gates : h # g => gate'[h] = gate[h]
  BY <1>1, <1>3, <1>4, TellsFacts DEF IInv
<1>6. work' \in Work /\ used' \subseteq Rare /\ used \subseteq used'
  BY <1>1, <1>2, CostsFacts, StaffTakesFacts DEF IInv
<1>7. TypeOK'
  BY <1>2, <1>5, <1>6, TypeFacts, TypeNext DEF IInv
<1>8. \A p \in Cars : /\ Justified(p)
                      /\ rel'[p] \in {"asked", "waits"} => rel[p] \in {"asked", "waits"}
  BY <1>2 DEF Justified
<1>9. SameRepair(gate[g], gate'[g]) /\ ~gate'[g].open /\ gate'[g].held = gate[g].held
  BY <1>4, <1>5 DEF SameRepair, SameHold
<1>10. QED
  BY <1>2, <1>5, <1>6, <1>7, <1>8, <1>9, StaffInv

LEMMA StaffAutoInv ==
  ASSUME IInv, NEW gs \in SUBSET Gates, StaffAuto(gs)
  PROVE  IInv'
<1> DEFINE freed(g) == [gate[g] EXCEPT !.open = FALSE, !.shut = FALSE]
<1>1. /\ gate' = [g \in Gates |-> IF g \in gs THEN freed(g) ELSE gate[g]]
      /\ sweepDue' = TRUE /\ Restarted
      /\ UNCHANGED <<simulator, car, released, holding, sweep>>
      /\ \E ks : Scheduled(work, ks)
  BY DEF StaffAuto
<1>2. PICK ks : Scheduled(work, ks)
  BY <1>1
<1>3. ASSUME NEW g \in Gates
      PROVE  /\ freed(g) \in Barrier /\ ~freed(g).open /\ freed(g).held = gate[g].held
             /\ SameRepair(gate[g], freed(g))
  <2>1. gate[g] \in Barrier
    BY TypeFacts DEF IInv
  <2>2. QED
    BY <2>1 DEF Barrier, SameRepair
<1> HIDE DEF freed
<1>4. gate' \in [Gates -> Barrier]
  BY <1>1, <1>3, TypeFacts DEF IInv
<1>5. \A g \in Gates : /\ SameRepair(gate[g], gate'[g]) /\ gate'[g].held = gate[g].held
                       /\ gate'[g] = gate[g] \/ ~gate'[g].open
  BY <1>1, <1>3 DEF SameRepair
<1>6. work \in Work /\ work' \in Work /\ used' \subseteq Rare /\ used \subseteq used'
  BY <1>2, ScheduledFacts, TypeFacts DEF IInv
<1>7. /\ leg' \in [Cars -> Steps] /\ rel' \in [Cars -> Steps]
      /\ \A p \in Cars : /\ Justified(p)
                         /\ rel'[p] \in {"asked", "waits"} => rel[p] \in {"asked", "waits"}
  BY <1>1, RestartedFacts DEF IInv
<1>8. TypeOK'
  BY <1>1, <1>4, <1>6, <1>7, TypeFacts, TypeNext DEF IInv, simulator
<1>9. Opened'
  BY <1>5 DEF IInv, Opened
<1>10. Unpaid'
  BY <1>5, <1>6, <1>7, UnpaidKept DEF IInv
<1>11. \A h \in work.pending :
         gate'[h].broken \/ (h \in work.pending /\ (gate[h].broken => gate'[h].broken))
  BY <1>5, <1>6, WorkFields DEF SameRepair
<1>12. UNCHANGED <<car, released, holding>>
  BY <1>1
<1>13. QED
  BY <1>2, <1>6, <1>7, <1>8, <1>9, <1>10, <1>11, <1>12, ScheduledInv

\* A step that only goes on with the schedule.
LEMMA OnlyScheduledInv ==
  ASSUME IInv, NEW w \in Work, w.pending = work.pending, NEW ks, Scheduled(w, ks),
         UNCHANGED <<simulator, gate, traffic, sweeping>>
  PROVE  IInv'
<1>1. work' \in Work /\ used' \subseteq Rare /\ used \subseteq used'
  BY ScheduledFacts
<1>2. UNCHANGED <<door, health, reports, going, gate, car, released, leg, rel, holding, sweep,
                  sweepDue>>
  BY DEF simulator, traffic, sweeping
<1>3. TypeOK'
  BY <1>1, <1>2, TypeFacts, TypeNext DEF IInv
<1>4. Opened'
  BY <1>2, OpenedKept DEF IInv, SameHold
<1>5. Unpaid'
  <2>1. \A p \in Cars : Justified(p)
    BY <1>2 DEF Justified
  <2>2. QED
    BY <1>1, <1>2, <2>1, UnpaidKept DEF IInv
<1>6. QED
  BY <1>2, <1>3, <1>4, <1>5, ScheduledInv

LEMMA StaffRepairsInv ==
  ASSUME IInv, NEW g \in Gates, StaffRepairs(g)
  PROVE  IInv'
<1>1. Started(work) \in Work /\ Started(work).pending = work.pending
  BY PlainFacts, TypeFacts DEF IInv
<1>2. UNCHANGED <<simulator, gate, traffic, sweeping>>
  BY DEF StaffRepairs
<1>3. CASE Scheduled(Started(work), {"staff"})
  BY <1>1, <1>2, <1>3, OnlyScheduledInv
<1>4. CASE gate[g].broken /\ work' = Queued(Started(work), {g}) /\ Costs({"staff"})
  <2>1. work' \in Work /\ work'.pending \subseteq work.pending \cup {g}
    BY <1>1, <1>4, QueuedFacts
  <2>2. used' \subseteq Rare /\ used \subseteq used'
    BY <1>4, CostsFacts
  <2>3. UNCHANGED <<door, health, reports, going, gate, car, released, leg, rel, holding, sweep,
                    sweepDue>>
    BY <1>2 DEF simulator, traffic, sweeping
  <2>4. TypeOK'
    BY <2>1, <2>2, <2>3, TypeFacts, TypeNext DEF IInv
  <2>5. Opened'
    BY <2>3, OpenedKept DEF IInv, SameHold
  <2>6. Unpaid'
    <3>1. \A p \in Cars : Justified(p)
      BY <2>3 DEF Justified
    <3>2. QED
      BY <2>2, <2>3, <3>1, UnpaidKept DEF IInv
  <2>7. Spared'
    <3>1. \A h \in Gates : Passing(h)' => Passing(h)
      BY <2>3, PassingKept
    <3>2. \A h \in Gates : h \in work'.pending => gate'[h].broken \/ StillSpared(h)
      BY <1>4, <2>1, <2>3, <3>1 DEF StillSpared, Shunned
    <3>3. QED
      BY <2>2, <3>2, SparedKept DEF IInv
  <2>8. QED
    BY <2>4, <2>5, <2>6, <2>7 DEF IInv
<1>5. QED
  BY <1>3, <1>4 DEF StaffRepairs

-----------------------------------------------------------------------------
(* The queue's worker.                                                     *)

LEMMA DroppedFacts ==
  ASSUME TypeOK, NEW g \in Gates, work.jobs[g] > 0
  PROVE  Dropped(g) \in Work /\ Dropped(g).pending = work.pending \ {g}
<1> DEFINE jobs == [work.jobs EXCEPT ![g] = work.jobs[g] - 1]
<1>1. work \in Work /\ work.jobs[g] \in Nat /\ work.jobs \in [Gates -> Nat]
  BY TypeFacts, WorkFields
<1>2. work.jobs[g] - 1 \in Nat
  BY <1>1
<1>3. jobs \in [Gates -> Nat]
  BY <1>1, <1>2
<1>4. Dropped(g) = [work EXCEPT !.jobs = jobs, !.pending = work.pending \ {g}]
  BY DEF Dropped
<1> HIDE DEF jobs
<1>5. QED
  BY <1>1, <1>3, <1>4 DEF Work

LEMMA WorkerInv ==
  ASSUME IInv, NEW g \in Gates, Worker(g)
  PROVE  IInv'
<1>1. /\ work' = Dropped(g) /\ work.jobs[g] > 0
      /\ UNCHANGED <<door, reports, going, car, released, leg, rel, holding, sweep, sweepDue>>
  BY DEF Worker, RepairNeedless, RepairSent, RepairDropped, RepairUnchanged, traffic, sweeping
<1>2. work' \in Work /\ work'.pending = work.pending \ {g}
  BY <1>1, DroppedFacts DEF IInv
<1>3. /\ health' \in {health, Repaired(g)}
      /\ gate' = gate \/ gate' = [gate EXCEPT ![g] = [gate[g] EXCEPT !.maint = TRUE]]
  BY DEF Worker, RepairNeedless, RepairSent, RepairDropped
<1>4. used' \subseteq Rare /\ used \subseteq used'
  BY CostsFacts, TypeFacts DEF IInv, Worker, RepairNeedless, RepairSent, RepairDropped
<1> DEFINE next == [gate[g] EXCEPT !.maint = TRUE]
<1>5. next \in Barrier /\ next.maint /\ (next.broken <=> gate[g].broken) /\ SameHold(gate[g], next)
  BY MaintFacts, TypeFacts DEF IInv
<1>6. gate' = gate \/ gate' = [gate EXCEPT ![g] = next]
  BY <1>3
<1> HIDE DEF next
<1>7. gate' \in [Gates -> Barrier] /\ health' \in [Gates -> Healths]
  <2>1. gate' \in [Gates -> Barrier]
    BY <1>5, <1>6, TypeFacts DEF IInv
  <2>2. Repaired(g) \in [Gates -> Healths]
    BY TypeFacts DEF IInv, Healths, Repaired
  <2>3. QED
    BY <1>3, <2>1, <2>2, TypeFacts DEF IInv
<1>8. \A h \in Gates : /\ SameHold(gate[h], gate'[h]) /\ (gate'[h].broken <=> gate[h].broken)
  <2>1. CASE gate' = gate
    BY <2>1 DEF SameHold
  <2>2. CASE gate' = [gate EXCEPT ![g] = next]
    <3>1. gate'[g] = next /\ \A h \in Gates : h # g => gate'[h] = gate[h]
      BY <2>2, TypeFacts DEF IInv
    <3>2. QED
      BY <1>5, <3>1 DEF SameHold
  <2>3. QED
    BY <1>6, <2>1, <2>2
<1>9. TypeOK'
  BY <1>1, <1>2, <1>4, <1>7, TypeFacts, TypeNext DEF IInv
<1>10. Opened'
  BY <1>8, OpenedKept DEF IInv
<1>11. Unpaid'
  <2>1. \A p \in Cars : Justified(p)
    BY <1>1 DEF Justified
  <2>2. QED
    BY <1>4, <1>8, <2>1, UnpaidKept DEF IInv, SameHold
<1>12. Spared'
  <2>1. \A h \in Gates : Passing(h)' => Passing(h)
    BY <1>1, PassingKept
  <2>2. \A h \in Gates : h \in work'.pending => StillSpared(h)
    BY <1>2, <1>8, <2>1 DEF StillSpared, Shunned
  <2>3. QED
    BY <1>4, <2>2, SparedKept DEF IInv
<1>13. QED
  BY <1>9, <1>10, <1>11, <1>12 DEF IInv

-----------------------------------------------------------------------------
(* Every step.                                                             *)

LEMMA InitInv == Init => IInv
<1> SUFFICES ASSUME Init
             PROVE  IInv
  OBVIOUS
<1> DEFINE b == [pos |-> "Closed", broken |-> FALSE, maint |-> FALSE,
                 open |-> FALSE, shut |-> FALSE, worn |-> FALSE, held |-> {}]
<1>1. b \in Barrier /\ ~b.open /\ b.held = {}
  BY DEF Barrier, Positions
<1>2. gate = [g \in Gates |-> b]
  BY DEF Init
<1> HIDE DEF b
<1>3. gate \in [Gates -> Barrier]
  BY <1>1, <1>2
<1>4. work \in Work /\ work.pending = {}
  BY DEF Init, Work
<1>5. sweep \in [busy : SUBSET Gates, left : SUBSET Gates, now : Gates \cup {"none", "lost"}]
  BY DEF Init, Quiet
<1>6. TypeOK
  <2>1. door \in [Gates -> Positions] /\ health \in [Gates -> {"fine", "broken", "inRepair", "stuck"}]
    BY DEF Init, Positions
  <2>2. reports \in [Gates -> Seq({"Open", "Closed", "broken", "fixed"})]
    BY DEF Init
  <2>3. car \in [Cars -> {"away", "entry", "driving", "parked", "paid", "out"}]
    BY DEF Init
  <2>4. leg \in [Cars -> Steps] /\ rel \in [Cars -> Steps]
    BY DEF Init, Steps
  <2>5. released = {} /\ going = {} /\ holding = {} /\ used = {} /\ sweepDue = FALSE
    BY DEF Init
  <2>6. QED
    BY <1>3, <1>4, <1>5, <2>1, <2>2, <2>3, <2>4, <2>5 DEF TypeOK
<1>7. Opened
  BY <1>1, <1>2 DEF Opened
<1>8. Unpaid
  BY <1>1, <1>2 DEF Init, Unpaid
<1>9. Spared
  BY <1>4 DEF Spared
<1>10. QED
  BY <1>6, <1>7, <1>8, <1>9 DEF IInv

LEMMA StutterInv ==
  ASSUME IInv, UNCHANGED vars
  PROVE  IInv'
<1>1. UNCHANGED <<door, health, reports, going, gate, work, car, released,
                  leg, rel, holding, sweep, sweepDue, used>>
  BY DEF vars
<1>2. TypeOK'
  BY <1>1, TypeFacts, TypeNext DEF IInv
<1>3. (\A g \in Gates : Shunned(g)) /\ (\A p \in Cars : Justified(p))
  BY <1>1, PassingKept DEF Shunned, Justified
<1>4. QED
  BY <1>1, <1>2, <1>3, TrafficInv

LEMMA NextInv == IInv /\ [Next]_vars => IInv'
<1> SUFFICES ASSUME IInv, [Next]_vars
             PROVE  IInv'
  OBVIOUS
<1>1. ASSUME NEW g \in Gates, Simulator(g)
      PROVE  IInv'
  BY <1>1, MoveInv, BreakInv, MendInv, JamInv DEF Simulator
<1>2. ASSUME NEW g \in Gates, GateWebhook(g)
      PROVE  IInv'
  BY <1>2, GateMovedInv, GateBrokenInv, GateFixedInv DEF GateWebhook
<1>3. ASSUME NEW g \in Gates, Worker(g)
      PROVE  IInv'
  BY <1>3, WorkerInv
<1>4. ASSUME NEW p \in Cars, Dispatch(p) \/ Leg(p) \/ Neglect(p)
      PROVE  IInv'
  BY <1>4, DispatchInv, LegChecksInv, LegAnsweredInv, LegSendsInv, NeglectInv DEF Leg
<1>5. ASSUME NEW p \in Cars, Drive(p)
      PROVE  IInv'
  BY <1>5, DriveInInv, ParkInv, DriveOutInv DEF Drive
<1>6. ASSUME NEW p \in Cars, HoldExit(p) \/ Pay(p) \/ Release(p)
      PROVE  IInv'
  BY <1>6, HoldExitInv, PayInv, RelChecksInv, RelAnsweredInv, RelSendsInv DEF Release
<1>7. CASE Sweeping
  BY <1>7, SweepBeginsInv, SweepAnsweredInv DEF Sweeping
<1>8. CASE Staff
  BY <1>8, StaffOpensInv, StaffClosesInv, StaffRepairsInv, StaffAutoInv DEF Staff
<1>9. CASE WearCheck
  <2>1. work \in Work
    BY TypeFacts DEF IInv
  <2>2. UNCHANGED <<simulator, gate, traffic, sweeping>> /\ Scheduled(work, {})
    BY <1>9 DEF WearCheck
  <2>3. QED
    BY <2>1, <2>2, OnlyScheduledInv
<1>10. CASE UNCHANGED vars
  BY <1>10, StutterInv
<1>11. QED
  BY <1>1, <1>2, <1>3, <1>4, <1>5, <1>6, <1>7, <1>8, <1>9, <1>10 DEF Next

-----------------------------------------------------------------------------
(* What a step does to a gate that is held, open or closed.                *)

Stands(g) == gate[g].open /\ gate'[g].open /\ door'[g] = "Closing" => door[g] = "Closing"
Loss == "lost" \in used' \ used
Shuts(g) == InService(g) /\ InService(g)' /\ LeftOpen(g)' => LeftOpen(g) \/ Loss
Minded(g) == Stands(g) /\ Shuts(g)

LEMMA SameMinded ==
  ASSUME NEW g \in Gates, door'[g] = door[g] \/ door'[g] = "Opening",
         gate'[g].pos = "Open" => gate[g].pos = "Open",
         health'[g] = health[g], reports'[g] = reports[g],
         gate'[g].shut => gate[g].shut, gate'[g].held \subseteq gate[g].held
  PROVE  Minded(g)
BY DEF Minded, Stands, Shuts, LeftOpen

\* A gate that goes down is not held open, and not left open.
LEMMA ClosingMinded ==
  ASSUME NEW g \in Gates, ~gate[g].open \/ ~gate'[g].open, gate'[g].pos # "Open"
  PROVE  Minded(g)
BY DEF Minded, Stands, Shuts, LeftOpen

\* Steps that do nothing to the gates.
LEMMA IdleMinded ==
  ASSUME UNCHANGED <<door, gate, health, reports>>
  PROVE  \A g \in Gates : Minded(g)
BY SameMinded

LEMMA SaysMinded ==
  ASSUME TypeOK, NEW g \in Gates, NEW what \in Reported, NEW ks, Says(g, what, ks),
         \/ door' = [door EXCEPT ![g] = what]
         \/ what = "broken" /\ door' = door
         \/ \E d \in {"Open", "Closed"} : door' = [door EXCEPT ![g] = d],
         what # "Closing", gate' = gate, \A h \in Gates : h # g => health'[h] = health[h]
  PROVE  \A h \in Gates : Minded(h)
<1> SUFFICES ASSUME NEW h \in Gates
             PROVE  Minded(h)
  OBVIOUS
<1>1. CASE h # g
  <2>1. door'[h] = door[h] /\ reports'[h] = reports[h]
    BY <1>1, SaysFacts, TypeFacts
  <2>2. QED
    BY <1>1, <2>1, SameMinded
<1>2. CASE h = g
  <2>1. Stands(g)
    BY TypeFacts DEF Stands
  <2>2. Len(reports'[g]) = Len(reports[g]) + 1 /\ Len(reports[g]) \in Nat
    BY SaysFacts, TypeFacts
  <2>3. reports'[g] # <<>>
    BY <2>2
  <2>4. QED
    BY <1>2, <2>1, <2>3 DEF Minded, Shuts, LeftOpen
<1>3. QED
  BY <1>1, <1>2

LEMMA SimulatorMinded ==
  ASSUME IInv, NEW g \in Gates, Simulator(g)
  PROVE  \A h \in Gates : Minded(h)
<1>0. TypeOK /\ "broken" \in Reported /\ "fixed" \in Reported /\ {"Open", "Closed"} \subseteq Reported
  BY DEF IInv, Reported
<1>1. CASE Move(g)
  <2>1. PICK to \in {"Open", "Closed"} : door' = [door EXCEPT ![g] = to] /\ Says(g, to, {})
    BY <1>1 DEF Move
  <2>2. to # "Closing" /\ to \in Reported /\ gate' = gate /\ \A h \in Gates : health'[h] = health[h]
    BY <1>0, <1>1 DEF Move, Outside
  <2>3. QED
    BY <1>0, <2>1, <2>2, SaysMinded
<1>2. CASE Break(g)
  <2>1. door' = door /\ Says(g, "broken", {"break"}) /\ gate' = gate
    BY <1>2 DEF Break, Outside
  <2>2. \A h \in Gates : h # g => health'[h] = health[h]
    BY <1>2, TypeFacts DEF IInv, Break
  <2>3. QED
    BY <1>0, <2>1, <2>2, SaysMinded
<1>3. CASE Mend(g)
  <2>1. /\ Says(g, "fixed", {}) /\ gate' = gate
        /\ \E d \in {"Open", "Closed"} : door' = [door EXCEPT ![g] = d]
    BY <1>3 DEF Mend, Outside
  <2>2. \A h \in Gates : h # g => health'[h] = health[h]
    BY <1>3, TypeFacts DEF IInv, Mend
  <2>3. QED
    BY <1>0, <2>1, <2>2, SaysMinded
<1>4. CASE Jam(g)
  <2>1. UNCHANGED <<door, reports, gate>> /\ health' = [health EXCEPT ![g] = "stuck"]
    BY <1>4 DEF Jam, Outside
  <2>2. health'[g] = "stuck" /\ \A h \in Gates : h # g => health'[h] = health[h]
    BY <2>1, TypeFacts DEF IInv
  <2>3. Minded(g)
    BY <2>1, <2>2 DEF Minded, Stands, Shuts, LeftOpen
  <2>4. \A h \in Gates : h # g => Minded(h)
    BY <2>1, <2>2, SameMinded
  <2>5. QED
    BY <2>3, <2>4
<1>5. QED
  BY <1>1, <1>2, <1>3, <1>4 DEF Simulator

\* Answers to commands, and commands to open.
LEMMA OpensMinded ==
  ASSUME TypeOK, NEW g \in Gates,
         door' = door \/ door' = Obeyed(door, g, "Opening"),
         gate' = gate \/ Moved(g, "Opening"), UNCHANGED <<health, reports>>
  PROVE  \A h \in Gates : Minded(h)
<1> SUFFICES ASSUME NEW h \in Gates
             PROVE  Minded(h)
  OBVIOUS
<1>1. door'[h] = door[h] \/ door'[h] = "Opening"
  BY ObeyedFacts, TypeFacts
<1>2. CASE gate' = gate
  BY <1>1, <1>2, SameMinded
<1>3. CASE Moved(g, "Opening")
  <2>1. "Opening" \in Positions
    BY DEF Positions
  <2>2. /\ SameHold(gate[h], gate'[h])
        /\ gate'[h].pos = "Open" => gate[h].pos = "Open"
    BY <1>3, <2>1, MovedFacts, TypeFacts
  <2>3. QED
    BY <1>1, <2>2, SameMinded DEF SameHold
<1>4. QED
  BY <1>2, <1>3

LEMMA LegMinded ==
  ASSUME IInv, NEW p \in Cars, Leg(p)
  PROVE  \A h \in Gates : Minded(h)
<1>1. "entry" \in Gates
  BY DEF Gates
<1>2. UNCHANGED <<health, reports>>
  BY DEF Leg, LegChecks, LegAnswered, LegSends, LegUnchanged
<1>3. door' = door \/ door' = Obeyed(door, "entry", "Opening")
  BY DEF Leg, LegChecks, LegAnswered, LegSends, Sends, Loses
<1>4. gate' = gate \/ Moved("entry", "Opening")
  BY DEF Leg, LegChecks, LegAnswered, LegSends
<1>5. QED
  BY <1>1, <1>2, <1>3, <1>4, OpensMinded DEF IInv

LEMMA ReleaseMinded ==
  ASSUME IInv, NEW p \in Cars, Release(p)
  PROVE  \A h \in Gates : Minded(h)
<1>1. "exit" \in Gates
  BY DEF Gates
<1>2. UNCHANGED <<health, reports>>
  BY DEF Release, RelChecks, RelAnswered, RelSends, RelUnchanged
<1>3. door' = door \/ door' = Obeyed(door, "exit", "Opening")
  BY DEF Release, RelChecks, RelAnswered, RelSends, Sends, Loses, Rerouted
<1>4. CASE RelChecks(p)
  <2> DEFINE b == gate["exit"]
             next == [b EXCEPT !.held = b.held \ {p}]
  <2>1. gate' = [gate EXCEPT !["exit"] = next]
    BY <1>4 DEF RelChecks
  <2>2. b \in Barrier
    BY <1>1, TypeFacts DEF IInv
  <2>3. next.pos = b.pos /\ (next.shut <=> b.shut) /\ next.held \subseteq b.held
    BY <2>2 DEF Barrier
  <2> HIDE DEF next
  <2>4. gate'["exit"] = next /\ \A h \in Gates : h # "exit" => gate'[h] = gate[h]
    BY <1>1, <2>1, TypeFacts DEF IInv
  <2>5. ASSUME NEW h \in Gates
        PROVE  Minded(h)
    <3>0. Obeyed(door, "exit", "Opening")[h] \in {door[h], "Opening"}
      BY <1>1, ObeyedFacts, TypeFacts DEF IInv
    <3>1. door'[h] = door[h] \/ door'[h] = "Opening"
      BY <1>3, <3>0
    <3>2. /\ gate'[h].pos = gate[h].pos /\ (gate'[h].shut <=> gate[h].shut)
          /\ gate'[h].held \subseteq gate[h].held
      BY <2>3, <2>4
    <3>3. QED
      BY <1>2, <3>1, <3>2, SameMinded
  <2>6. QED
    BY <2>5
<1>5. CASE RelAnswered(p) \/ RelSends(p)
  <2>1. gate' = gate \/ Moved("exit", "Opening")
    BY <1>5 DEF RelAnswered, RelSends
  <2>2. QED
    BY <1>1, <1>2, <1>3, <2>1, OpensMinded DEF IInv
<1>6. QED
  BY <1>4, <1>5 DEF Release

LEMMA HoldExitMinded ==
  ASSUME IInv, NEW p \in Cars, HoldExit(p)
  PROVE  \A h \in Gates : Minded(h)
<1> DEFINE b == gate["exit"]
           close == /\ ~b.broken /\ ~b.maint /\ "exit" \notin work.pending
                    /\ b.pos \notin {"Closed", "Closing"}
           held == [b EXCEPT !.held = b.held \cup {p}]
<1>1. PICK ks : Tells("exit", held, close, "Closing", ks) /\ Costs({"suspect"} \cup ks)
  BY DEF HoldExit
<1>2. ~b.open /\ UNCHANGED <<health, reports>>
  BY DEF HoldExit
<1>3. "exit" \in Gates /\ b \in Barrier /\ close \in BOOLEAN
  BY TypeFacts DEF IInv, Gates
<1>4. held \in Barrier /\ held.pos = b.pos
  BY <1>3, HeldFacts, FieldTypes
<1> HIDE DEF held
<1>5. InService("exit") /\ b.pos = "Open" => close
  BY DEF InService
<1> HIDE DEF close
<1>6. /\ gate'["exit"].pos = b.pos \/ gate'["exit"].pos = "Closing"
      /\ close => gate'["exit"].pos = "Closing" \/ ks = {"lost"}
      /\ \A h \in Gates : h # "exit" => gate'[h] = gate[h] /\ door'[h] = door[h]
  BY <1>1, <1>3, <1>4, TellsFacts DEF IInv
<1>7. Minded("exit")
  <2>1. ks = {"lost"} => Loss
    BY <1>1, CostsFacts DEF Loss
  <2>2. QED
    BY <1>2, <1>5, <1>6, <2>1 DEF Minded, Stands, Shuts, LeftOpen
<1>8. \A h \in Gates : h # "exit" => Minded(h)
  BY <1>2, <1>6, SameMinded
<1>9. QED
  BY <1>7, <1>8

LEMMA SweepGoesOnMinded ==
  ASSUME TypeOK, NEW s \in Sweeps, SweepGoesOn(s)
  PROVE  /\ \A h \in Gates : Stands(h)
         /\ \A h \in Gates : door'[h] = "Open" => door[h] = "Open"
<1>1. CASE UNCHANGED door
  BY <1>1 DEF Stands
<1>2. ASSUME NEW g \in s.left, Closable(g, s.busy), Sends(g, "Closing") \/ Loses(g, "Closing")
      PROVE  /\ \A h \in Gates : Stands(h)
             /\ \A h \in Gates : door'[h] = "Open" => door[h] = "Open"
  <2>1. g \in Gates /\ ~gate[g].open
    BY <1>2 DEF Sweeps, Closable
  <2>2. door' \in {door, Obeyed(door, g, "Closing")}
    BY <1>2 DEF Sends, Loses
  <2>3. \A h \in Gates : door'[h] \in {door[h], "Closing"} /\ (h # g => door'[h] = door[h])
    BY <2>1, <2>2, ObeyedFacts, TypeFacts
  <2>4. QED
    BY <2>1, <2>3 DEF Stands
<1>3. QED
  BY <1>1, <1>2 DEF SweepGoesOn

LEMMA SweepingMinded ==
  ASSUME IInv, Sweeping
  PROVE  \A h \in Gates : Minded(h)
<1>1. UNCHANGED <<health, reports>>
  BY DEF Sweeping, SweepBegins, SweepAnswered, SweepFails, SweepUnchanged
<1>2. PICK s \in Sweeps : SweepGoesOn(s)
  <2>1. [busy |-> InUse, left |-> Gates, now |-> "none"] \in Sweeps
    BY DEF Sweeps, InUse, Gates
  <2>2. [sweep EXCEPT !.now = "none"] \in Sweeps
    BY TypeFacts DEF IInv, Sweeps
  <2>3. QED
    BY <2>1, <2>2 DEF Sweeping, SweepBegins, SweepAnswered, SweepFails
<1>3. /\ \A h \in Gates : Stands(h)
      /\ \A h \in Gates : door'[h] = "Open" => door[h] = "Open"
  BY <1>2, SweepGoesOnMinded DEF IInv
<1>4. \A h \in Gates : /\ SameHold(gate[h], gate'[h])
                       /\ gate'[h].pos = "Open" => gate[h].pos = "Open"
  <2>1. CASE UNCHANGED gate
    BY <2>1 DEF SameHold
  <2>2. ASSUME NEW g \in Gates, Moved(g, "Closing")
        PROVE  \A h \in Gates : /\ SameHold(gate[h], gate'[h])
                                /\ gate'[h].pos = "Open" => gate[h].pos = "Open"
    <3>1. "Closing" \in Positions
      BY DEF Positions
    <3>2. QED
      BY <2>2, <3>1, MovedFacts, TypeFacts DEF IInv
  <2>3. QED
    BY <2>1, <2>2 DEF Sweeping, SweepBegins, SweepAnswered, SweepFails
<1>5. \A h \in Gates : Shuts(h)
  BY <1>1, <1>3, <1>4 DEF Shuts, LeftOpen, SameHold
<1>6. QED
  BY <1>3, <1>5 DEF Minded

LEMMA GateMovedMinded ==
  ASSUME IInv, NEW g \in Gates, NEW to \in {"Open", "Closed"}, GateMoved(g, to)
  PROVE  \A h \in Gates : Minded(h)
<1> DEFINE b == gate[g]
           enforce == /\ to = "Open" /\ (b.shut \/ b.held # {})
                      /\ ~b.broken /\ ~b.maint /\ g \notin work.pending
<1>1. PICK ks : Tells(g, At(b, to), enforce, "Closing", ks) /\ Costs(ks)
  BY DEF GateMoved
<1>2. Takes(g, to) /\ health' = health
  BY DEF GateMoved, WebhookUnchanged
<1>3. b \in Barrier /\ to \in Positions /\ enforce \in BOOLEAN
  BY TypeFacts DEF IInv, Positions
<1>4. enforce => ~b.open
  BY DEF IInv, Opened
<1>5. InService(g) /\ to = "Open" /\ (b.shut \/ b.held # {}) => enforce
  BY DEF InService
<1> HIDE DEF enforce
<1>6. At(b, to) \in Barrier /\ At(b, to).pos = to /\ SameHold(b, At(b, to))
  BY <1>3, AtFacts
<1>7. /\ SameHold(At(b, to), gate'[g]) /\ (~enforce => door' = door)
      /\ gate'[g].pos \in {to, "Closing"}
      /\ enforce => gate'[g].pos = "Closing" \/ ks = {"lost"}
      /\ \A h \in Gates : h # g => gate'[h] = gate[h] /\ door'[h] = door[h]
  BY <1>1, <1>3, <1>6, TellsFacts DEF IInv
<1>8. Minded(g)
  <2>1. Stands(g)
    BY <1>4, <1>7 DEF Stands
  <2>2. Shuts(g)
    <3> SUFFICES ASSUME InService(g), LeftOpen(g)'
                 PROVE  Loss
      BY DEF Shuts
    <3>1. gate'[g].pos = "Open" /\ (gate'[g].shut \/ gate'[g].held # {})
      BY DEF LeftOpen
    <3>2. to = "Open" /\ (b.shut \/ b.held # {})
      BY <1>6, <1>7, <3>1 DEF SameHold
    <3>3. ks = {"lost"}
      BY <1>5, <1>7, <3>1, <3>2
    <3>4. QED
      BY <1>1, <3>3, CostsFacts DEF Loss
  <2>3. QED
    BY <2>1, <2>2 DEF Minded
<1>9. ASSUME NEW h \in Gates, h # g
      PROVE  Minded(h)
  <2>1. reports'[h] = reports[h]
    BY <1>2, <1>9, TakenFacts DEF IInv
  <2>2. QED
    BY <1>2, <1>7, <1>9, <2>1, SameMinded
<1>10. QED
  BY <1>8, <1>9

LEMMA GateBrokenMinded ==
  ASSUME IInv, NEW g \in Gates, GateBroken(g)
  PROVE  \A h \in Gates : Minded(h)
<1> DEFINE next == [gate[g] EXCEPT !.broken = TRUE]
<1>1. /\ Takes(g, "broken") /\ gate' = [gate EXCEPT ![g] = next]
      /\ UNCHANGED <<door, health>>
  BY DEF GateBroken, WebhookUnchanged
<1>2. next.broken
  BY BrokenFacts, TypeFacts DEF IInv
<1> HIDE DEF next
<1>3. gate'[g].broken /\ \A h \in Gates : h # g => gate'[h] = gate[h] /\ reports'[h] = reports[h]
  BY <1>1, <1>2, TakenFacts, TypeFacts DEF IInv
<1>4. Minded(g)
  BY <1>1, <1>3 DEF Minded, Stands, Shuts, InService
<1>5. \A h \in Gates : h # g => Minded(h)
  BY <1>1, <1>3, SameMinded
<1>6. QED
  BY <1>4, <1>5

LEMMA GateFixedMinded ==
  ASSUME IInv, NEW g \in Gates, GateFixed(g)
  PROVE  \A h \in Gates : Minded(h)
<1> DEFINE b == [gate[g] EXCEPT !.broken = FALSE, !.maint = FALSE, !.worn = FALSE]
           close == ~b.open /\ g \notin InUse
<1>1. PICK ks : Tells(g, b, close, "Closing", ks)
  BY DEF GateFixed
<1>2. Takes(g, "fixed") /\ health' = health
  BY DEF GateFixed, WebhookUnchanged
<1>3. gate[g] \in Barrier /\ close \in BOOLEAN
  BY TypeFacts DEF IInv
<1>4. b \in Barrier /\ SameHold(gate[g], b)
  BY <1>3, RepairedFacts
<1>5. close => ~gate[g].open
  BY <1>4 DEF SameHold
<1> HIDE DEF b, close
<1>6. /\ ~close => door' = door
      /\ \A h \in Gates : h # g => gate'[h] = gate[h] /\ door'[h] = door[h]
  BY <1>1, <1>3, <1>4, TellsFacts DEF IInv
<1>7. Minded(g)
  <2>1. Stands(g)
    BY <1>5, <1>6 DEF Stands
  <2>2. ~InService(g)
    BY <1>2 DEF Takes, InService, Mending
  <2>3. QED
    BY <2>1, <2>2 DEF Minded, Shuts
<1>8. ASSUME NEW h \in Gates, h # g
      PROVE  Minded(h)
  <2>1. reports'[h] = reports[h]
    BY <1>2, <1>8, TakenFacts DEF IInv
  <2>2. QED
    BY <1>2, <1>6, <1>8, <2>1, SameMinded
<1>9. QED
  BY <1>7, <1>8

LEMMA StaffOpensMinded ==
  ASSUME IInv, NEW g \in Gates, StaffOpens(g)
  PROVE  \A h \in Gates : Minded(h)
<1> DEFINE send == gate[g].pos \notin {"Open", "Opening"}
           held == [gate[g] EXCEPT !.open = TRUE, !.shut = FALSE, !.held = {}]
<1>1. PICK ks : Tells(g, held, send, "Opening", ks)
  BY DEF StaffOpens
<1>2. UNCHANGED <<health, reports>>
  BY DEF StaffOpens, StaffUnchanged
<1>3. gate[g] \in Barrier /\ send \in BOOLEAN
  BY TypeFacts DEF IInv
<1>4. held \in Barrier /\ ~held.shut /\ held.held = {}
  BY <1>3 DEF Barrier
<1> HIDE DEF held, send
<1>5. /\ SameHold(held, gate'[g]) /\ door'[g] \in {door[g], "Opening"}
      /\ \A h \in Gates : h # g => gate'[h] = gate[h] /\ door'[h] = door[h]
  BY <1>1, <1>3, <1>4, TellsFacts DEF IInv
<1>6. Minded(g)
  BY <1>4, <1>5 DEF Minded, Stands, Shuts, LeftOpen, SameHold
<1>7. \A h \in Gates : h # g => Minded(h)
  BY <1>2, <1>5, SameMinded
<1>8. QED
  BY <1>6, <1>7

LEMMA StaffClosesMinded ==
  ASSUME IInv, NEW g \in Gates, StaffCloses(g)
  PROVE  \A h \in Gates : Minded(h)
<1> DEFINE send == gate[g].pos \notin {"Closed", "Closing"}
           held == [gate[g] EXCEPT !.open = FALSE, !.shut = TRUE]
<1>1. PICK ks : Tells(g, held, send, "Closing", ks) /\ Costs({"shut"} \cup ks)
  BY DEF StaffCloses
<1>2. UNCHANGED <<health, reports>>
  BY DEF StaffCloses, StaffUnchanged
<1>3. gate[g] \in Barrier /\ send \in BOOLEAN
  BY TypeFacts DEF IInv
<1>4. held \in Barrier /\ ~held.open /\ held.pos = gate[g].pos
  BY <1>3 DEF Barrier
<1>5. gate[g].pos = "Open" => send
  OBVIOUS
<1> HIDE DEF held, send
<1>6. /\ SameHold(held, gate'[g])
      /\ gate'[g].pos = gate[g].pos \/ gate'[g].pos = "Closing"
      /\ send => gate'[g].pos = "Closing" \/ ks = {"lost"}
      /\ \A h \in Gates : h # g => gate'[h] = gate[h] /\ door'[h] = door[h]
  BY <1>1, <1>3, <1>4, TellsFacts DEF IInv
<1>7. Minded(g)
  <2>1. Stands(g)
    BY <1>4, <1>6 DEF Stands, SameHold
  <2>2. ks = {"lost"} => Loss
    BY <1>1, CostsFacts DEF Loss
  <2>3. QED
    BY <1>5, <1>6, <2>1, <2>2 DEF Minded, Shuts, LeftOpen
<1>8. \A h \in Gates : h # g => Minded(h)
  BY <1>2, <1>6, SameMinded
<1>9. QED
  BY <1>7, <1>8

LEMMA StaffAutoMinded ==
  ASSUME IInv, NEW gs \in SUBSET Gates, StaffAuto(gs)
  PROVE  \A h \in Gates : Minded(h)
<1> SUFFICES ASSUME NEW h \in Gates
             PROVE  Minded(h)
  OBVIOUS
<1>1. UNCHANGED <<door, health, reports>>
  BY DEF StaffAuto, simulator
<1>2. gate'[h] = gate[h] \/ gate'[h] = [gate[h] EXCEPT !.open = FALSE, !.shut = FALSE]
  BY DEF StaffAuto
<1>3. gate[h] \in Barrier
  BY TypeFacts DEF IInv
<1>4. /\ gate'[h].pos = gate[h].pos /\ gate'[h].held = gate[h].held
      /\ gate'[h].shut => gate[h].shut
  BY <1>2, <1>3 DEF Barrier
<1>5. QED
  BY <1>1, <1>4, SameMinded

LEMMA WorkerMinded ==
  ASSUME IInv, NEW g \in Gates, Worker(g)
  PROVE  \A h \in Gates : Minded(h)
<1>1. UNCHANGED <<door, reports>>
  BY DEF Worker, RepairNeedless, RepairSent, RepairDropped, RepairUnchanged
<1>2. \/ UNCHANGED <<health, gate>>
      \/ /\ health' = Repaired(g)
         /\ gate' = gate \/ gate' = [gate EXCEPT ![g] = [gate[g] EXCEPT !.maint = TRUE]]
  BY DEF Worker, RepairNeedless, RepairSent, RepairDropped
<1>3. CASE UNCHANGED <<health, gate>>
  BY <1>1, <1>3, IdleMinded
<1>4. CASE /\ health' = Repaired(g)
           /\ gate' = gate \/ gate' = [gate EXCEPT ![g] = [gate[g] EXCEPT !.maint = TRUE]]
  <2>1. health'[g] \in {"inRepair", "stuck"}
    BY <1>4, TypeFacts DEF IInv, Repaired
  <2>2. \A h \in Gates : h # g => health'[h] = health[h] /\ gate'[h] = gate[h]
    BY <1>4, TypeFacts DEF IInv, Repaired
  <2>3. Minded(g)
    BY <1>1, <2>1 DEF Minded, Stands, Shuts, LeftOpen
  <2>4. \A h \in Gates : h # g => Minded(h)
    BY <1>1, <2>2, SameMinded
  <2>5. QED
    BY <2>3, <2>4
<1>5. QED
  BY <1>2, <1>3, <1>4

LEMMA NextMinded == IInv /\ [Next]_vars => \A g \in Gates : Minded(g)
<1> SUFFICES ASSUME IInv, [Next]_vars
             PROVE  \A g \in Gates : Minded(g)
  OBVIOUS
<1>1. ASSUME NEW g \in Gates, Simulator(g) \/ GateWebhook(g) \/ Worker(g)
      PROVE  \A h \in Gates : Minded(h)
  BY <1>1, SimulatorMinded, GateMovedMinded, GateBrokenMinded, GateFixedMinded, WorkerMinded
     DEF GateWebhook
<1>2. ASSUME NEW p \in Cars, Leg(p) \/ HoldExit(p) \/ Release(p)
      PROVE  \A h \in Gates : Minded(h)
  BY <1>2, LegMinded, HoldExitMinded, ReleaseMinded
<1>3. ASSUME NEW p \in Cars, Dispatch(p) \/ Neglect(p) \/ Drive(p) \/ Pay(p)
      PROVE  \A h \in Gates : Minded(h)
  <2>1. UNCHANGED <<door, gate, health, reports>>
    BY <1>3 DEF Dispatch, Neglect, Drive, DriveIn, Park, DriveOut, Pay, NotGates, simulator
  <2>2. QED
    BY <2>1, IdleMinded
<1>4. CASE Sweeping
  BY <1>4, SweepingMinded
<1>5. CASE Staff
  <2>1. ASSUME NEW g \in Gates, StaffRepairs(g)
        PROVE  \A h \in Gates : Minded(h)
    <3>1. UNCHANGED <<door, gate, health, reports>>
      BY <2>1 DEF StaffRepairs, simulator
    <3>2. QED
      BY <3>1, IdleMinded
  <2>2. QED
    BY <1>5, <2>1, StaffOpensMinded, StaffClosesMinded, StaffAutoMinded DEF Staff
<1>6. CASE WearCheck \/ UNCHANGED vars
  <2>1. UNCHANGED <<door, gate, health, reports>>
    BY <1>6 DEF WearCheck, simulator, vars
  <2>2. QED
    BY <2>1, IdleMinded
<1>7. QED
  BY <1>1, <1>2, <1>3, <1>4, <1>5, <1>6 DEF Next

-----------------------------------------------------------------------------
(* The theorems.                                                           *)

\* The inductive invariant holds in every state.
THEOREM Invariant == Spec => []IInv
<1>1. Init => IInv
  BY InitInv
<1>2. IInv /\ [Next]_vars => IInv'
  BY NextInv
<1>3. QED
  BY <1>1, <1>2, PTL DEF Spec

\* The variables keep their types: no count of the tasks for a gate goes below zero.
THEOREM TypeCorrect == Spec => []TypeOK
<1>1. IInv => TypeOK
  BY DEF IInv
<1>2. QED
  BY <1>1, Invariant, PTL

\* No sound gate is sent to repair while a car that was let into it is on its way, with
\* any number of cars and whatever goes wrong (main.py:372).
THEOREM RepairsSpareCars == Spec => RepairSparesCars
<1>1. IInv /\ [Next]_vars =>
        \A g \in Gates :
          /\ gate'[g].maint /\ ~gate[g].maint /\ ~gate[g].broken /\ g \in work.pending
          /\ g = "exit" => ~({"staff", "suspect"} \subseteq used)
          => ~Passing(g)
  BY DEF IInv, Spared, LetOut
<1>2. QED
  BY <1>1, Invariant, PTL DEF Spec, RepairSparesCars

\* Nothing automatic closes a gate that staff hold open (4.33).
THEOREM OpenGatesStand == Spec => StaffOpenStands
<1>1. IInv /\ [Next]_vars =>
        \A g \in Gates :
          gate[g].open /\ gate'[g].open /\ door'[g] = "Closing" => door[g] = "Closing"
  BY NextMinded DEF Minded, Stands
<1>2. QED
  BY <1>1, Invariant, PTL DEF Spec, StaffOpenStands

\* No gate in service that is to be held closed comes to be left open (main.py:2670),
\* unless the command of that very step fails.
THEOREM HeldGatesShut == Spec => HeldGateShuts
<1>1. IInv /\ [Next]_vars =>
        \A g \in Gates :
          InService(g) /\ InService(g)' /\ LeftOpen(g)' => LeftOpen(g) \/ "lost" \in used' \ used
  BY NextMinded DEF Minded, Shuts, Loss
<1>2. QED
  BY <1>1, Invariant, PTL DEF Spec, HeldGateShuts
=============================================================================

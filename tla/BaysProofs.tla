----------------------------- MODULE BaysProofs -----------------------------
(***************************************************************************)
(* Proofs about Bays, for any plates, bays and bounds: whatever happens,   *)
(* and however often.                                                      *)
(***************************************************************************)
EXTENDS Bays, TLAPS

USE BaysAssumption

-----------------------------------------------------------------------------
(* The inductive invariant.                                                *)

\* active_dispatches says what the sessions say, and a plate without a session has no bay.
Agrees ==
  \A p \in Plates : active[p] = sess[p].spot /\ (sess[p].id = 0 => sess[p].spot = "none")

IInv == TypeOK /\ Agrees

LEMMA TypeFacts ==
  ASSUME TypeOK
  PROVE  /\ pos \in [Plates -> Places \cup BayNames]
         /\ goal \in [Plates -> BayNames \cup {"none"}] /\ visits \in [Plates -> 0..MaxVisits]
         /\ faulty \in [BayNames -> {"fine", "broken", "inRepair"}]
         /\ inbox \in [Plates -> Seq(Webhook)] /\ news \subseteq News
         /\ bay \in [BayNames -> Spot] /\ pending \subseteq BayNames /\ deferred \subseteq BayNames
         /\ sess \in [Plates -> Session] /\ active \in [Plates -> BayNames \cup {"none"}]
         /\ leg \in [Plates -> Leg] /\ calls \subseteq Call
         /\ repair \in [BayNames -> {"none", "queued", "sent"}]
         /\ (listed = {} \/ \E l \in Listed : listed = {l})
         /\ ids \in 0..MaxIds /\ used \in [Rare -> Nat]
BY DEF TypeOK

-----------------------------------------------------------------------------
(* What the helpers return.                                                *)

Statuses == {"available", "reserved", "occupied", "broken", "maintenance"}

LEMMA SpotFacts ==
  ASSUME NEW s \in Spot
  PROVE  /\ FreeSpot \in Spot /\ Vacant(s) \in Spot /\ SetBroken(s) \in Spot /\ SetFixed(s) \in Spot
         /\ s.status \in Statuses /\ s.who \in Plates \cup {"none", "unknown"}
         /\ \A st \in Statuses : /\ [s EXCEPT !.status = st] \in Spot
                                 /\ [s EXCEPT !.maint = TRUE, !.status = st] \in Spot
                                 /\ \A w \in Plates \cup {"none", "unknown"} :
                                      [s EXCEPT !.status = st, !.who = w] \in Spot
BY DEF Spot, FreeSpot, Vacant, SetBroken, SetFixed, Statuses

LEMMA SessionFacts ==
  ASSUME NEW s \in Session
  PROVE  /\ Nobody \in Session /\ Nobody.id = 0 /\ Nobody.spot = "none"
         /\ s.id \in 0..MaxIds /\ s.spot \in BayNames \cup {"none"}
         /\ [s EXCEPT !.departed = TRUE] \in Session /\ [s EXCEPT !.stay = "left"] \in Session
         /\ [s EXCEPT !.phase = "arrived"] \in Session
         /\ [s EXCEPT !.spot = "none", !.phase = "arrived"] \in Session
         /\ \A i \in 0..MaxIds : [Nobody EXCEPT !.id = i] \in Session
         /\ \A b \in BayNames :
              /\ [s EXCEPT !.spot = b, !.phase = "assigned"] \in Session
              /\ [s EXCEPT !.spot = b, !.phase = "parked",
                    !.stay = IF @ = "driving" THEN "parked" ELSE @] \in Session
<1> DEFINE ids0 == 0..MaxIds
<1>0. 0 \in ids0
  OBVIOUS
<1> HIDE DEF ids0
<1>1. /\ Nobody \in Session /\ Nobody.id = 0 /\ Nobody.spot = "none"
      /\ s.id \in ids0 /\ s.spot \in BayNames \cup {"none"}
      /\ \A i \in ids0 : [Nobody EXCEPT !.id = i] \in Session
  <2>1. Nobody \in Session /\ Nobody.id = 0 /\ Nobody.spot = "none"
    BY <1>0 DEF Session, Nobody, ids0
  <2>2. s.id \in ids0 /\ s.spot \in BayNames \cup {"none"}
    BY DEF Session, ids0
  <2>3. \A i \in ids0 : [Nobody EXCEPT !.id = i] \in Session
    BY <2>1 DEF Session, ids0
  <2>4. QED
    BY <2>1, <2>2, <2>3
<1>2. /\ [s EXCEPT !.departed = TRUE] \in Session /\ [s EXCEPT !.stay = "left"] \in Session
      /\ [s EXCEPT !.phase = "arrived"] \in Session
      /\ [s EXCEPT !.spot = "none", !.phase = "arrived"] \in Session
  BY DEF Session
<1>3. ASSUME NEW b \in BayNames
      PROVE  /\ [s EXCEPT !.spot = b, !.phase = "assigned"] \in Session
             /\ [s EXCEPT !.spot = b, !.phase = "parked",
                    !.stay = IF @ = "driving" THEN "parked" ELSE @] \in Session
  <2>1. (IF s.stay = "driving" THEN "parked" ELSE s.stay) \in {"driving", "parked", "left"}
    BY DEF Session
  <2>2. QED
    BY <1>3, <2>1 DEF Session
<1>4. QED
  BY <1>1, <1>2, <1>3 DEF ids0

LEMMA RarelyType ==
  ASSUME TypeOK, NEW k \in Rare, Rarely(k)
  PROVE  used' \in [Rare -> Nat]
<1> "all" \in Rare
  BY DEF Rare
<1>0. used[k] \in Nat /\ used["all"] \in Nat
  BY TypeFacts
<1>1. used[k] + 1 \in Nat /\ used["all"] + 1 \in Nat /\ used[k] + 1 + 1 \in Nat
  BY <1>0
<1>2. used' = [used EXCEPT ![k] = used[k] + 1, !["all"] = @ + 1]
  BY DEF Rarely
<1>3. [used EXCEPT ![k] = used[k] + 1] \in [Rare -> Nat]
  BY <1>1, TypeFacts
<1>4. QED
  BY <1>2, <1>3 DEF Rare

LEMMA PostType ==
  ASSUME TypeOK, NEW p \in Plates, NEW ws \in Seq(Webhook), Post(p, ws)
  PROVE  inbox' \in [Plates -> Seq(Webhook)]
<1>1. inbox[p] \o ws \in Seq(Webhook)
  BY TypeFacts
<1>2. QED
  BY <1>1, TypeFacts DEF Post

LEMMA EventType ==
  \A kind \in {"entry", "entryOut", "park", "left", "gone"}, b \in BayNames \cup {"none"} :
    Event(kind, b) \in Webhook
BY DEF Event, Webhook

LEMMA ReportType ==
  \A kind \in {"broken", "fixed", "collision", "neglect"}, b \in BayNames \cup {"none"},
     p \in Plates \cup {"none"} : Report(kind, b, p) \in News
BY DEF Report, News

\* Bays taken and given back.
LEMMA BaysType ==
  ASSUME NEW bs \in [BayNames -> Spot], NEW p \in Plates, NEW b \in BayNames
  PROVE  /\ Vacated(bs, b) \in [BayNames -> Spot] /\ Freed(bs, p) \in [BayNames -> Spot]
         /\ Reserved(bs, b, p) \in [BayNames -> Spot] /\ Occupied(bs, b, p) \in [BayNames -> Spot]
         /\ Unreserved(bs, b, p) \in [BayNames -> Spot]
         /\ Unreserved(bs, "none", p) \in [BayNames -> Spot]
<1>1. bs[b] \in Spot
  OBVIOUS
<1>2. Vacated(bs, b) \in [BayNames -> Spot]
  BY <1>1, SpotFacts DEF Vacated
<1>3. Freed(bs, p) \in [BayNames -> Spot]
  BY SpotFacts DEF Freed
<1>4. \A st \in Statuses, w \in Plates \cup {"none", "unknown"} :
        [bs EXCEPT ![b].status = st, ![b].who = w] \in [BayNames -> Spot]
  <2> SUFFICES ASSUME NEW st \in Statuses, NEW w \in Plates \cup {"none", "unknown"}
               PROVE  [bs EXCEPT ![b].status = st, ![b].who = w] \in [BayNames -> Spot]
    OBVIOUS
  <2> DEFINE x == [bs[b] EXCEPT !.status = st, !.who = w]
  <2>1. x \in Spot
    BY <1>1, SpotFacts
  <2>2. [bs EXCEPT ![b].status = st, ![b].who = w] = [bs EXCEPT ![b] = x]
    OBVIOUS
  <2> HIDE DEF x
  <2>3. QED
    BY <2>1, <2>2
<1>5. Reserved(bs, b, p) \in [BayNames -> Spot] /\ Occupied(bs, b, p) \in [BayNames -> Spot]
  BY <1>4 DEF Reserved, Occupied, Statuses
<1>6. Unreserved(bs, b, p) \in [BayNames -> Spot]
  BY <1>4 DEF Unreserved, Statuses
<1>7. Unreserved(bs, "none", p) \in [BayNames -> Spot]
  BY DEF Unreserved
<1>8. QED
  BY <1>2, <1>3, <1>5, <1>6, <1>7

LEMMA UnreservedType ==
  ASSUME NEW bs \in [BayNames -> Spot], NEW p \in Plates, NEW b \in BayNames \cup {"none"}
  PROVE  Unreserved(bs, b, p) \in [BayNames -> Spot]
<1>1. CASE b \in BayNames
  BY <1>1, BaysType
<1>2. CASE b = "none"
  BY <1>2 DEF Unreserved
<1>3. QED
  BY <1>1, <1>2

LEMMA MovedType ==
  ASSUME TypeOK, NEW p \in Plates, NEW b \in BayNames
  PROVE  Moved(bay, p, b) \in [BayNames -> Spot]
<1> DEFINE old == sess[p].spot
           freed == IF /\ sess[p].id # 0 /\ old \notin {"none", b}
                       /\ bay[old].who = p /\ bay[old].status # "occupied"
                    THEN Vacated(bay, old) ELSE bay
<1>1. old \in BayNames \cup {"none"}
  BY TypeFacts, SessionFacts
<1> HIDE DEF old
<1>2. freed \in [BayNames -> Spot]
  BY <1>1, TypeFacts, BaysType
<1> HIDE DEF freed
<1>3. Occupied(freed, b, p) \in [BayNames -> Spot]
  BY <1>2, BaysType
<1>4. QED
  BY <1>3 DEF Moved, freed, old

LEMMA OverdueType ==
  ASSUME TypeOK, NEW ps
  PROVE  Overdue(ps) \in [BayNames -> Spot]
<1>1. \A b \in BayNames : bay[b] \in Spot /\ [bay[b] EXCEPT !.status = "available", !.who = "none"] \in Spot
  BY TypeFacts, SpotFacts DEF Statuses
<1>2. QED
  BY <1>1 DEF Overdue

-----------------------------------------------------------------------------
(* The steps.                                                              *)

\* Of the simulator, which changes neither bays nor sessions.
LEMMA OutsideInv ==
  ASSUME IInv, Outside, pos' \in [Plates -> Places \cup BayNames],
         goal' \in [Plates -> BayNames \cup {"none"}], visits' \in [Plates -> 0..MaxVisits],
         faulty' \in [BayNames -> {"fine", "broken", "inRepair"}],
         inbox' \in [Plates -> Seq(Webhook)], news' \subseteq News, used' \in [Rare -> Nat]
  PROVE  IInv'
<1>1. TypeOK'
  BY TypeFacts DEF IInv, TypeOK, Outside
<1>2. Agrees'
  BY DEF IInv, Agrees, Outside
<1>3. QED
  BY <1>1, <1>2 DEF IInv

LEMMA SimulatorInv ==
  ASSUME IInv, Simulator
  PROVE  IInv'
<1>1. /\ TypeOK /\ pos \in [Plates -> Places \cup BayNames]
      /\ goal \in [Plates -> BayNames \cup {"none"}] /\ visits \in [Plates -> 0..MaxVisits]
      /\ faulty \in [BayNames -> {"fine", "broken", "inRepair"}]
      /\ inbox \in [Plates -> Seq(Webhook)] /\ news \subseteq News /\ used \in [Rare -> Nat]
      /\ {"away", "entry", "road"} \subseteq Places
  BY TypeFacts DEF IInv, Places
<1>2. ASSUME NEW p \in Plates, Arrive(p)
      PROVE  IInv'
  <2>1. visits[p] + 1 \in 0..MaxVisits
    BY <1>1, <1>2 DEF Arrive
  <2>2. visits' \in [Plates -> 0..MaxVisits]
    BY <1>1, <1>2, <2>1 DEF Arrive
  <2>3. inbox' \in [Plates -> Seq(Webhook)]
    <3>1. <<Event("entry", "none")>> \in Seq(Webhook)
      BY EventType
    <3>2. QED
      BY <1>1, <1>2, <3>1, PostType DEF Arrive
  <2>4. pos' \in [Plates -> Places \cup BayNames] /\ goal' \in [Plates -> BayNames \cup {"none"}]
    BY <1>1, <1>2 DEF Arrive
  <2>5. QED
    BY <1>1, <1>2, <2>2, <2>3, <2>4, OutsideInv DEF Arrive
<1>3. ASSUME NEW p \in Plates, DriveIn(p)
      PROVE  IInv'
  <2>1. inbox' \in [Plates -> Seq(Webhook)]
    <3>1. <<Event("entryOut", "none")>> \in Seq(Webhook)
      BY EventType
    <3>2. QED
      BY <1>1, <1>3, <3>1, PostType DEF DriveIn
  <2>2. pos' \in [Plates -> Places \cup BayNames]
    BY <1>1, <1>3 DEF DriveIn
  <2>3. QED
    BY <1>1, <1>3, <2>1, <2>2, OutsideInv DEF DriveIn
<1>4. ASSUME NEW p \in Plates, Neglect(p)
      PROVE  IInv'
  <2>1. inbox' \in [Plates -> Seq(Webhook)]
    <3>1. <<Event("entryOut", "none")>> \in Seq(Webhook)
      BY EventType
    <3>2. QED
      BY <1>1, <1>4, <3>1, PostType DEF Neglect
  <2>2. pos' \in [Plates -> Places \cup BayNames]
    BY <1>1, <1>4 DEF Neglect
  <2>5. news' \subseteq News
    <3>1. Report("neglect", "none", p) \in News
      BY ReportType
    <3>2. QED
      BY <1>1, <1>4, <3>1 DEF Neglect
  <2>3. used' \in [Rare -> Nat]
    BY <1>1, <1>4, RarelyType DEF Neglect, Rare
  <2>4. QED
    BY <1>1, <1>4, <2>1, <2>2, <2>3, <2>5, OutsideInv DEF Neglect
<1>5. ASSUME NEW p \in Plates, NEW b \in BayNames, ParkAt(p, b) \/ Straddle(p, b)
      PROVE  IInv'
  <2>1. inbox' \in [Plates -> Seq(Webhook)]
    <3>1. <<Event("park", b)>> \in Seq(Webhook)
      BY EventType
    <3>2. QED
      BY <1>1, <1>5, <3>1, PostType DEF ParkAt, Straddle
  <2>2. /\ pos' \in [Plates -> Places \cup BayNames]
        /\ goal' \in [Plates -> BayNames \cup {"none"}]
    BY <1>1, <1>5 DEF ParkAt, Straddle
  <2>3. used' \in [Rare -> Nat]
    BY <1>1, <1>5, RarelyType DEF ParkAt, Straddle, Rare
  <2>4. QED
    BY <1>1, <1>5, <2>1, <2>2, <2>3, OutsideInv DEF ParkAt, Straddle
<1>6. ASSUME NEW p \in Plates, Collide(p)
      PROVE  IInv'
  <2>1. goal[p] \in BayNames /\ goal' \in [Plates -> BayNames \cup {"none"}]
    BY <1>1, <1>6 DEF Collide
  <2>2. news' \subseteq News
    BY <1>1, <1>6, <2>1, ReportType DEF Collide
  <2>3. QED
    BY <1>1, <1>6, <2>1, <2>2, OutsideInv DEF Collide
<1>7. ASSUME NEW p \in Plates, GiveUp(p)
      PROVE  IInv'
  <2>1. pos' \in [Plates -> Places \cup BayNames]
    BY <1>1, <1>7 DEF GiveUp
  <2>2. QED
    BY <1>1, <1>7, <2>1, OutsideInv DEF GiveUp
<1>8. ASSUME NEW p \in Plates, Leave(p)
      PROVE  IInv'
  <2>1. inbox' \in [Plates -> Seq(Webhook)]
    <3>1. pos[p] \in BayNames
      BY <1>8 DEF Leave
    <3>2. <<Event("left", pos[p]), Event("gone", "none")>> \in Seq(Webhook)
      BY <3>1, EventType
    <3>3. QED
      BY <1>1, <1>8, <3>2, PostType DEF Leave
  <2>2. pos' \in [Plates -> Places \cup BayNames]
    BY <1>1, <1>8 DEF Leave
  <2>3. QED
    BY <1>1, <1>8, <2>1, <2>2, OutsideInv DEF Leave
<1>9. ASSUME NEW b \in BayNames, Break(b)
      PROVE  IInv'
  <2>1. news' \subseteq News /\ faulty' \in [BayNames -> {"fine", "broken", "inRepair"}]
    BY <1>1, <1>9, ReportType DEF Break
  <2>2. used' \in [Rare -> Nat]
    BY <1>1, <1>9, RarelyType DEF Break, Rare
  <2>3. QED
    BY <1>1, <1>9, <2>1, <2>2, OutsideInv DEF Break
<1>10. ASSUME NEW b \in BayNames, Mend(b)
       PROVE  IInv'
  <2>1. news' \subseteq News /\ faulty' \in [BayNames -> {"fine", "broken", "inRepair"}]
    BY <1>1, <1>10, ReportType DEF Mend
  <2>2. QED
    BY <1>1, <1>10, <2>1, OutsideInv DEF Mend
<1>11. QED
  BY <1>2, <1>3, <1>4, <1>5, <1>6, <1>7, <1>8, <1>9, <1>10 DEF Simulator

LEMMA CompleteInv ==
  ASSUME IInv, NEW ps, Complete(ps)
  PROVE  /\ sess' \in [Plates -> Session] /\ active' \in [Plates -> BayNames \cup {"none"}]
         /\ Agrees'
<1>1. sess \in [Plates -> Session] /\ active \in [Plates -> BayNames \cup {"none"}]
  BY TypeFacts DEF IInv
<1>2. /\ \A p \in Plates : sess'[p] = IF p \in ps THEN Nobody ELSE sess[p]
      /\ \A p \in Plates : active'[p] = IF p \in ps THEN "none" ELSE active[p]
  BY DEF Complete
<1>3. \A p \in Plates : (IF p \in ps THEN Nobody ELSE sess[p]) \in Session
  BY <1>1, SessionFacts
<1>4. sess' \in [Plates -> Session] /\ active' \in [Plates -> BayNames \cup {"none"}]
  BY <1>1, <1>3 DEF Complete
<1>5. Agrees'
  BY <1>1, <1>2, SessionFacts DEF IInv, Agrees
<1>6. QED
  BY <1>4, <1>5

LEMMA StartLegsType ==
  ASSUME TypeOK, NEW ps, NEW ss \in [Plates -> Session], StartLegs(ps, ss)
  PROVE  leg' \in [Plates -> Leg]
<1>1. \A p \in Plates : [id |-> ss[p].id, spot |-> ss[p].spot, step |-> "asleep"] \in Leg
  <2>1. \A p \in Plates : ss[p].id \in 0..MaxIds /\ ss[p].spot \in BayNames \cup {"none"}
    BY SessionFacts
  <2>2. QED
    BY <2>1 DEF Leg
<1>2. leg \in [Plates -> Leg]
  BY TypeFacts
<1>3. QED
  BY <1>1, <1>2 DEF StartLegs

LEMMA CallFacts ==
  /\ \A c \in Call : /\ c.plate \in Plates /\ c.wish \in BayNames \cup {"none"}
                     /\ \A s \in {"begin", "goesOn", "waits"} : [c EXCEPT !.step = s] \in Call
  /\ \A p \in Plates, striped \in BOOLEAN, wish \in BayNames \cup {"none"} :
       Dispatch(p, striped, wish) \subseteq calls \cup Call
BY DEF Call, Dispatch

LEMMA OverstayType ==
  ASSUME TypeOK, NEW ps, Overstay(ps)
  PROVE  used' \in [Rare -> Nat]
<1>1. "slow" \in Rare
  BY DEF Rare
<1>2. QED
  BY <1>1, TypeFacts, RarelyType DEF Overstay

LEMMA BeginInv ==
  ASSUME IInv, NEW c \in calls, Begin(c)
  PROVE  IInv'
<1> DEFINE p == c.plate
           again == sess[p].id # 0 /\ ~Back(p)
           mine == IF again THEN [sess[p] EXCEPT !.phase = "arrived"]
                   ELSE [Nobody EXCEPT !.id = ids + 1]
<1>1. /\ TypeOK /\ Agrees /\ c \in Call /\ p \in Plates /\ calls \subseteq Call
      /\ bay \in [BayNames -> Spot] /\ sess \in [Plates -> Session]
      /\ active \in [Plates -> BayNames \cup {"none"}] /\ ids \in 0..MaxIds
  BY TypeFacts, CallFacts DEF IInv
<1>2. UNCHANGED <<pos, goal, visits, faulty, inbox, news, pending, deferred, leg, repair, listed>>
  BY DEF Begin, simulator
<1>3. CASE calls' = calls \ {c} /\ UNCHANGED <<bay, sess, active, ids, used>>
  <2>1. TypeOK'
    BY <1>1, <1>2, <1>3, TypeFacts DEF TypeOK
  <2>2. Agrees'
    BY <1>1, <1>3 DEF Agrees
  <2>3. QED
    BY <2>1, <2>2 DEF IInv
<1>4. ASSUME ~(active[p] # "none" /\ ~Back(p)), NEW late \in SUBSET Plates, Overstay(late),
             IF again THEN UNCHANGED ids ELSE ids < MaxIds /\ ids' = ids + 1,
             bay' = IF Back(p) THEN Unreserved(Overdue(late), sess[p].spot, p) ELSE Overdue(late),
             sess' = [q \in Plates |-> IF q \in late THEN Nobody ELSE IF q = p THEN mine ELSE sess[q]],
             active' = [q \in Plates |-> IF q \in late \cup {p} THEN "none" ELSE active[q]],
             calls' = (calls \ {c}) \cup
                {[c EXCEPT !.step = IF \E q \in late : sess[q].stay = "driving"
                                    THEN "waits" ELSE "goesOn"]}
      PROVE  IInv'
  <2>1. sess[p] \in Session
    BY <1>1
  <2>2. mine \in Session /\ mine.spot = "none" /\ mine.id # 0
    <3>1. CASE again
      <4>1. sess[p].spot = "none"
        BY <1>1, <1>4, <3>1 DEF Agrees
      <4>2. mine = [sess[p] EXCEPT !.phase = "arrived"] /\ sess[p].id # 0
        BY <3>1
      <4>3. [sess[p] EXCEPT !.phase = "arrived"].spot = sess[p].spot
            /\ [sess[p] EXCEPT !.phase = "arrived"].id = sess[p].id
        BY <2>1 DEF Session
      <4>4. QED
        BY <2>1, <4>1, <4>2, <4>3, SessionFacts
    <3>2. CASE ~again
      <4>1. ids + 1 \in 0..MaxIds /\ ids + 1 # 0
        BY <1>1, <1>4, <3>2
      <4>2. mine = [Nobody EXCEPT !.id = ids + 1]
        BY <3>2
      <4>3. mine \in Session
        BY <2>1, <4>1, <4>2, SessionFacts
      <4>4. mine.spot = "none" /\ mine.id = ids + 1
        BY <4>2 DEF Nobody
      <4>5. QED
        BY <4>1, <4>3, <4>4
    <3>3. QED
      BY <3>1, <3>2
  <2>3. ids' \in 0..MaxIds
    BY <1>1, <1>4
  <2> HIDE DEF mine, again
  <2>4. \A q \in Plates : (IF q \in late THEN Nobody ELSE IF q = p THEN mine ELSE sess[q]) \in Session
    BY <1>1, <2>1, <2>2, SessionFacts
  <2>5. sess' \in [Plates -> Session] /\ active' \in [Plates -> BayNames \cup {"none"}]
    BY <1>1, <1>4, <2>4
  <2>6. bay' \in [BayNames -> Spot]
    <3>1. sess[p].spot \in BayNames \cup {"none"}
      BY <2>1, SessionFacts
    <3>2. QED
      BY <1>1, <1>4, <3>1, OverdueType, UnreservedType
  <2>7. calls' \subseteq Call
    BY <1>1, <1>4, CallFacts
  <2>8. used' \in [Rare -> Nat]
    BY <1>1, <1>4, OverstayType
  <2>9. TypeOK'
    BY <1>1, <1>2, <2>3, <2>5, <2>6, <2>7, <2>8, TypeFacts DEF TypeOK
  <2>10. Agrees'
    BY <1>1, <1>4, <2>1, <2>2, SessionFacts DEF Agrees
  <2>11. QED
    BY <2>9, <2>10 DEF IInv
<1>5. CASE active[p] # "none" /\ ~Back(p)
  BY <1>3, <1>5 DEF Begin, parking
<1>6. CASE ~(active[p] # "none" /\ ~Back(p))
  <2>1. PICK late \in SUBSET {q \in Plates : Late(q) /\ (q = p => again)} :
           /\ Overstay(late)
           /\ IF again THEN UNCHANGED ids ELSE ids < MaxIds /\ ids' = ids + 1
           /\ bay' = IF Back(p) THEN Unreserved(Overdue(late), sess[p].spot, p)
                     ELSE Overdue(late)
           /\ sess' = [q \in Plates |-> IF q \in late THEN Nobody
                                       ELSE IF q = p THEN mine ELSE sess[q]]
           /\ active' = [q \in Plates |-> IF q \in late \cup {p} THEN "none" ELSE active[q]]
           /\ calls' = (calls \ {c}) \cup
                {[c EXCEPT !.step = IF \E q \in late : sess[q].stay = "driving"
                                    THEN "waits" ELSE "goesOn"]}
    BY <1>6 DEF Begin
  <2>2. late \in SUBSET Plates
    OBVIOUS
  <2> HIDE DEF again, mine
  <2>3. QED
    BY <1>4, <1>6, <2>1, <2>2
<1>7. QED
  BY <1>5, <1>6

LEMMA ResumeInv ==
  ASSUME IInv, NEW c \in calls, Resume(c)
  PROVE  IInv'
<1> DEFINE p == c.plate
<1>1. /\ TypeOK /\ Agrees /\ p \in Plates /\ calls' \subseteq Call
      /\ bay \in [BayNames -> Spot] /\ sess \in [Plates -> Session]
      /\ active \in [Plates -> BayNames \cup {"none"}]
      /\ pos \in [Plates -> Places \cup BayNames]
  BY TypeFacts, CallFacts DEF IInv, Resume
<1>2. UNCHANGED <<inbox, news, pending, deferred, repair, listed, ids>>
  BY DEF Resume
<1>3. ASSUME bay' \in [BayNames -> Spot], sess' \in [Plates -> Session],
             active' \in [Plates -> BayNames \cup {"none"}], leg' \in [Plates -> Leg],
             used' \in [Rare -> Nat], pos' \in [Plates -> Places \cup BayNames],
             UNCHANGED <<goal, visits, faulty>>, Agrees'
      PROVE  IInv'
  BY <1>1, <1>2, <1>3, TypeFacts DEF IInv, TypeOK
<1>4. ASSUME NEW b \in BayNames, Reserve(c, b)
      PROVE  IInv'
  <2>1. bay' \in [BayNames -> Spot]
    BY <1>1, <1>4, BaysType DEF Reserve
  <2>2. sess' \in [Plates -> Session] /\ active' \in [Plates -> BayNames \cup {"none"}] /\ Agrees'
    <3>1. CASE UNCHANGED <<sess, active>>
      BY <1>1, <3>1 DEF Agrees
    <3>2. CASE sess[p].id # 0 /\ AssignSpot(p, b)
      <4> DEFINE x == [sess[p] EXCEPT !.spot = b, !.phase = "assigned"]
      <4>1. x \in Session
        BY <1>1, SessionFacts
      <4>2. x.spot = b /\ x.id = sess[p].id
        <5>1. sess[p] \in Session
          BY <1>1
        <5>2. QED
          BY <5>1 DEF Session
      <4>3. sess' = [sess EXCEPT ![p] = x] /\ active' = [active EXCEPT ![p] = b]
        BY <3>2 DEF AssignSpot
      <4> HIDE DEF x
      <4>4. /\ \A q \in Plates : sess'[q] = IF q = p THEN x ELSE sess[q]
            /\ \A q \in Plates : active'[q] = IF q = p THEN b ELSE active[q]
        BY <1>1, <4>3
      <4>5. sess' \in [Plates -> Session] /\ active' \in [Plates -> BayNames \cup {"none"}]
        BY <1>1, <4>1, <4>3
      <4>6. Agrees'
        BY <1>1, <3>2, <4>2, <4>4 DEF Agrees
      <4>7. QED
        BY <4>5, <4>6
    <3>3. QED
      BY <1>4, <3>1, <3>2 DEF Reserve
  <2>3. leg' \in [Plates -> Leg]
    BY <1>1, <1>4, <2>2, StartLegsType DEF Reserve
  <2>4. QED
    BY <1>1, <1>3, <1>4, <2>1, <2>2, <2>3, TypeFacts DEF Reserve, simulator
<1>5. CASE NoGate(c)
  <2>1. used' \in [Rare -> Nat]
    BY <1>1, <1>5, RarelyType DEF NoGate, Rare
  <2>2. Agrees'
    BY <1>1, <1>5 DEF NoGate, Agrees
  <2>3. QED
    BY <1>1, <1>3, <1>5, <2>1, <2>2, TypeFacts DEF NoGate, simulator
<1>6. CASE TurnAway(c)
  <2>1. sess' \in [Plates -> Session] /\ active' \in [Plates -> BayNames \cup {"none"}] /\ Agrees'
    <3>1. CASE UNCHANGED <<sess, active>>
      BY <1>1, <3>1 DEF Agrees
    <3>2. CASE Complete({p})
      BY <3>2, CompleteInv
    <3>3. QED
      BY <1>6, <3>1, <3>2 DEF TurnAway
  <2>2. pos' \in [Plates -> Places \cup BayNames]
    BY <1>1, <1>6 DEF TurnAway, Places
  <2>3. QED
    BY <1>1, <1>3, <1>6, <2>1, <2>2, TypeFacts DEF TurnAway
<1>7. CASE Unavailable(c)
  <2>1. Agrees'
    BY <1>1, <1>7 DEF Unavailable, Agrees
  <2>2. QED
    BY <1>1, <1>3, <1>7, <2>1, TypeFacts DEF Unavailable, simulator
<1>8. QED
  BY <1>4, <1>5, <1>6, <1>7 DEF Resume

LEMMA LegStepInv ==
  ASSUME IInv, NEW p \in Plates, LegStep(p)
  PROVE  IInv'
<1>1. /\ TypeOK /\ Agrees /\ leg \in [Plates -> Leg] /\ leg[p] \in Leg /\ used \in [Rare -> Nat]
      /\ goal \in [Plates -> BayNames \cup {"none"}]
  BY TypeFacts DEF IInv
<1>2. /\ leg[p].spot \in BayNames \cup {"none"} /\ NoLeg \in Leg
      /\ \A s \in {"asleep", "gate"} : [leg[p] EXCEPT !.step = s] \in Leg
  <2>1. 0 \in 0..MaxIds
    OBVIOUS
  <2>2. NoLeg \in Leg
    BY <2>1 DEF NoLeg, Leg
  <2>3. QED
    BY <1>1, <2>2 DEF Leg
<1>3. ASSUME leg' \in [Plates -> Leg], goal' \in [Plates -> BayNames \cup {"none"}],
             used' \in [Rare -> Nat], LegUnchanged, UNCHANGED <<pos, visits, faulty>>
      PROVE  IInv'
  <2>1. TypeOK'
    BY <1>1, <1>3, TypeFacts DEF TypeOK, LegUnchanged
  <2>2. Agrees'
    BY <1>1, <1>3 DEF Agrees, LegUnchanged
  <2>3. QED
    BY <2>1, <2>2 DEF IInv
<1>4. CASE LegCheck(p)
  <2>1. leg' \in [Plates -> Leg]
    BY <1>1, <1>2, <1>4 DEF LegCheck
  <2>2. QED
    BY <1>1, <1>3, <1>4, <2>1 DEF LegCheck, simulator
<1>5. CASE LegEnds(p)
  <2>1. leg' \in [Plates -> Leg]
    BY <1>1, <1>2, <1>5 DEF LegEnds
  <2>2. used' \in [Rare -> Nat]
    BY <1>1, <1>5, RarelyType DEF LegEnds, Rare
  <2>3. QED
    BY <1>1, <1>3, <1>5, <2>1, <2>2 DEF LegEnds, simulator
<1>6. CASE LegSends(p)
  <2>1. leg' \in [Plates -> Leg]
    <3>1. leg' = [leg EXCEPT ![p] = [leg[p] EXCEPT !.step = "asleep"]] \/ leg' = [leg EXCEPT ![p] = NoLeg]
      BY <1>6 DEF LegSends
    <3>2. QED
      BY <1>1, <1>2, <3>1
  <2>2. goal' \in [Plates -> BayNames \cup {"none"}] /\ UNCHANGED <<pos, visits, faulty>>
    BY <1>1, <1>2, <1>6 DEF LegSends, Goto
  <2>3. QED
    BY <1>1, <1>3, <1>6, <2>1, <2>2 DEF LegSends
<1>7. QED
  BY <1>4, <1>5, <1>6 DEF LegStep

\* What is known of repairs stays well typed.
LEMMA QueueType ==
  ASSUME TypeOK, NEW b \in BayNames
  PROVE  /\ \A bs : QueueRepair(bs, b) =>
              /\ pending' \subseteq BayNames /\ deferred' \subseteq BayNames
              /\ repair' \in [BayNames -> {"none", "queued", "sent"}]
         /\ PopReady(b) =>
              /\ pending' \subseteq BayNames /\ deferred' \subseteq BayNames
              /\ repair' \in [BayNames -> {"none", "queued", "sent"}]
<1>1. /\ pending \subseteq BayNames /\ deferred \subseteq BayNames
      /\ repair \in [BayNames -> {"none", "queued", "sent"}]
      /\ [repair EXCEPT ![b] = IF @ = "none" THEN "queued" ELSE @]
           \in [BayNames -> {"none", "queued", "sent"}]
  BY TypeFacts
<1>2. QED
  BY <1>1 DEF QueueRepair, PopReady

LEMMA RepairsInv ==
  ASSUME IInv, NEW b \in BayNames, Maintain(b) \/ RepairStep(b)
  PROVE  IInv'
<1>1. /\ TypeOK /\ Agrees /\ bay \in [BayNames -> Spot] /\ bay[b] \in Spot
      /\ repair \in [BayNames -> {"none", "queued", "sent"}]
      /\ faulty \in [BayNames -> {"fine", "broken", "inRepair"}]
      /\ pending \subseteq BayNames /\ deferred \subseteq BayNames /\ used \in [Rare -> Nat]
  BY TypeFacts DEF IInv
<1>2. ASSUME RepairUnchanged, bay' \in [BayNames -> Spot],
             repair' \in [BayNames -> {"none", "queued", "sent"}],
             faulty' \in [BayNames -> {"fine", "broken", "inRepair"}],
             pending' \subseteq BayNames, deferred' \subseteq BayNames, used' \in [Rare -> Nat]
      PROVE  IInv'
  <2>1. TypeOK'
    BY <1>1, <1>2, TypeFacts DEF TypeOK, RepairUnchanged
  <2>2. Agrees'
    BY <1>1, <1>2 DEF Agrees, RepairUnchanged
  <2>3. QED
    BY <2>1, <2>2 DEF IInv
<1>3. CASE Maintain(b)
  <2>1. used' \in [Rare -> Nat]
    BY <1>1, <1>3, RarelyType DEF Maintain, Rare
  <2>2. QED
    BY <1>1, <1>2, <1>3, <2>1, QueueType DEF Maintain
<1>4. CASE RepairPutOff(b)
  <2>1. repair' \in [BayNames -> {"none", "queued", "sent"}]
    BY <1>1, <1>4 DEF RepairPutOff
  <2>2. QED
    BY <1>1, <1>2, <1>4, <2>1 DEF RepairPutOff
<1>5. CASE RepairSent(b)
  <2>1. /\ repair' \in [BayNames -> {"none", "queued", "sent"}]
        /\ faulty' \in [BayNames -> {"fine", "broken", "inRepair"}]
    BY <1>1, <1>5 DEF RepairSent
  <2>2. QED
    BY <1>1, <1>2, <1>5, <2>1 DEF RepairSent
<1>6. CASE RepairAnswered(b)
  <2>1. repair' \in [BayNames -> {"none", "queued", "sent"}]
    BY <1>1, <1>6 DEF RepairAnswered
  <2>2. bay' \in [BayNames -> Spot]
    <3> DEFINE x == [bay[b] EXCEPT !.maint = TRUE, !.status = "maintenance"]
    <3>1. x \in Spot
      BY <1>1, SpotFacts DEF Statuses
    <3>2. bay' = [bay EXCEPT ![b] = x]
      BY <1>6 DEF RepairAnswered
    <3> HIDE DEF x
    <3>3. QED
      BY <1>1, <3>1, <3>2
  <2>3. QED
    BY <1>1, <1>2, <1>6, <2>1, <2>2 DEF RepairAnswered
<1>7. CASE RepairRetried(b)
  <2>1. repair' \in [BayNames -> {"none", "queued", "sent"}]
    BY <1>1, <1>7 DEF RepairRetried
  <2>2. QED
    BY <1>1, <1>2, <1>7, <2>1 DEF RepairRetried
<1>8. CASE RepairDropped(b)
  <2>1. repair' \in [BayNames -> {"none", "queued", "sent"}]
    BY <1>1, <1>8 DEF RepairDropped
  <2>2. used' \in [Rare -> Nat]
    BY <1>1, <1>8, RarelyType DEF RepairDropped, Rare
  <2>3. QED
    BY <1>1, <1>2, <1>8, <2>1, <2>2 DEF RepairDropped
<1>9. QED
  BY <1>3, <1>4, <1>5, <1>6, <1>7, <1>8 DEF RepairStep

\* A session and its entry among the active dispatches change together.
LEMMA SetAgrees ==
  ASSUME IInv, NEW p \in Plates, NEW s \in Session, NEW a \in BayNames \cup {"none"},
         sess' = [sess EXCEPT ![p] = s], active' = [active EXCEPT ![p] = a],
         a = s.spot, s.id = 0 => s.spot = "none"
  PROVE  /\ sess' \in [Plates -> Session] /\ active' \in [Plates -> BayNames \cup {"none"}]
         /\ Agrees'
<1>1. /\ sess \in [Plates -> Session] /\ active \in [Plates -> BayNames \cup {"none"}]
      /\ Agrees
  BY TypeFacts DEF IInv
<1>2. /\ \A q \in Plates : sess'[q] = IF q = p THEN s ELSE sess[q]
      /\ \A q \in Plates : active'[q] = IF q = p THEN a ELSE active[q]
  BY <1>1
<1>3. Agrees'
  BY <1>1, <1>2 DEF Agrees
<1>4. sess' \in [Plates -> Session] /\ active' \in [Plates -> BayNames \cup {"none"}]
  BY <1>1
<1>5. QED
  BY <1>3, <1>4

\* A session changes that keeps its bay.
LEMMA SameSpotAgrees ==
  ASSUME IInv, NEW p \in Plates, NEW s \in Session, sess' = [sess EXCEPT ![p] = s],
         active' = active, s.spot = sess[p].spot, s.id = sess[p].id
  PROVE  sess' \in [Plates -> Session] /\ active' \in [Plates -> BayNames \cup {"none"}] /\ Agrees'
<1>1. /\ sess \in [Plates -> Session] /\ active \in [Plates -> BayNames \cup {"none"}]
      /\ Agrees
  BY TypeFacts DEF IInv
<1>2. \A q \in Plates : sess'[q] = IF q = p THEN s ELSE sess[q]
  BY <1>1
<1>3. Agrees'
  BY <1>1, <1>2 DEF Agrees
<1>4. QED
  BY <1>1, <1>3

LEMMA HandleType ==
  ASSUME TypeOK, NEW p \in Plates, NEW kind, NEW b, Handle(p, kind, b)
  PROVE  /\ inbox' \in [Plates -> Seq(Webhook)]
         /\ UNCHANGED <<pos, goal, visits, faulty, news, leg, listed, used>>
<1>1. inbox[p] \in Seq(Webhook) /\ inbox[p] # <<>>
  BY TypeFacts DEF Handle
<1>2. Tail(inbox[p]) \in Seq(Webhook)
  BY <1>1
<1>3. QED
  BY <1>2, TypeFacts DEF Handle, simulator

LEMMA SpotActionInv ==
  ASSUME IInv, NEW p \in Plates, CarSpotAction(p)
  PROVE  IInv'
<1>1. /\ TypeOK /\ Agrees /\ bay \in [BayNames -> Spot] /\ sess \in [Plates -> Session]
      /\ sess[p] \in Session /\ active \in [Plates -> BayNames \cup {"none"}]
      /\ ids \in 0..MaxIds /\ calls \subseteq Call
  BY TypeFacts DEF IInv
<1>2. ASSUME inbox' \in [Plates -> Seq(Webhook)],
             UNCHANGED <<pos, goal, visits, faulty, news, leg, listed, used>>,
             bay' \in [BayNames -> Spot], sess' \in [Plates -> Session],
             active' \in [Plates -> BayNames \cup {"none"}], ids' \in 0..MaxIds, calls' \subseteq Call,
             pending' \subseteq BayNames, deferred' \subseteq BayNames,
             repair' \in [BayNames -> {"none", "queued", "sent"}], Agrees'
      PROVE  IInv'
  BY <1>1, <1>2, TypeFacts DEF IInv, TypeOK
<1>3. ASSUME UNCHANGED <<sess, active>>
      PROVE  sess' \in [Plates -> Session] /\ active' \in [Plates -> BayNames \cup {"none"}] /\ Agrees'
  BY <1>1, <1>3 DEF Agrees
<1>4. CASE EntryIn(p)
  <2>1. calls' \subseteq Call
    BY <1>1, <1>4, CallFacts DEF EntryIn
  <2>2. QED
    BY <1>1, <1>2, <1>3, <1>4, <2>1, HandleType, TypeFacts DEF EntryIn, parking
<1>5. CASE EntryOut(p)
  <2>1. sess' \in [Plates -> Session] /\ active' \in [Plates -> BayNames \cup {"none"}] /\ Agrees'
    <3>1. CASE Complete({p})
      BY <3>1, CompleteInv
    <3>2. CASE UNCHANGED <<sess, active>>
      BY <1>3, <3>2
    <3>3. CASE sess' = [sess EXCEPT ![p].departed = TRUE] /\ UNCHANGED active
      <4> DEFINE s == [sess[p] EXCEPT !.departed = TRUE]
      <4>1. s \in Session /\ s.spot = sess[p].spot /\ s.id = sess[p].id
        <5>1. s \in Session
          BY <1>1, SessionFacts
        <5>2. s.spot = sess[p].spot /\ s.id = sess[p].id
          BY <1>1 DEF Session
        <5>3. QED
          BY <5>1, <5>2
      <4>2. sess' = [sess EXCEPT ![p] = s]
        BY <3>3
      <4> HIDE DEF s
      <4>3. QED
        BY <3>3, <4>1, <4>2, SameSpotAgrees
    <3>4. QED
      BY <1>5, <3>1, <3>2, <3>3 DEF EntryOut
  <2>2. QED
    BY <1>1, <1>2, <1>5, <2>1, HandleType, TypeFacts DEF EntryOut
<1>6. ASSUME NEW b \in BayNames, ParkIn(p, b)
      PROVE  IInv'
  <2> DEFINE s0 == IF sess[p].id = 0 THEN [Nobody EXCEPT !.id = ids + 1] ELSE sess[p]
             s == [s0 EXCEPT !.spot = b, !.phase = "parked",
                    !.stay = IF @ = "driving" THEN "parked" ELSE @]
  <2>1. sess' = [sess EXCEPT ![p] = s] /\ active' = [active EXCEPT ![p] = b]
        /\ bay' = Moved(bay, p, b)
    BY <1>6 DEF ParkIn
  <2>2. ids' \in 0..MaxIds /\ s0 \in Session /\ s0.id # 0
    <3>1. CASE sess[p].id = 0
      <4>1. ids + 1 \in 0..MaxIds /\ ids + 1 # 0 /\ ids' = ids + 1
        BY <1>1, <1>6, <3>1 DEF ParkIn
      <4>2. [Nobody EXCEPT !.id = ids + 1] \in Session /\ [Nobody EXCEPT !.id = ids + 1].id = ids + 1
        BY <1>1, <4>1, SessionFacts DEF Nobody
      <4>3. QED
        BY <3>1, <4>1, <4>2
    <3>2. CASE sess[p].id # 0
      BY <1>1, <1>6, <3>2 DEF ParkIn
    <3>3. QED
      BY <3>1, <3>2
  <2> HIDE DEF s0
  <2>3. s \in Session /\ s.spot = b /\ s.id # 0
    <3>1. s.spot = b /\ s.id = s0.id
      BY <2>2 DEF Session
    <3>2. QED
      BY <2>2, <3>1, SessionFacts
  <2> HIDE DEF s
  <2>4. sess' \in [Plates -> Session] /\ active' \in [Plates -> BayNames \cup {"none"}] /\ Agrees'
    BY <2>1, <2>3, SetAgrees
  <2>5. bay' \in [BayNames -> Spot]
    BY <1>1, <2>1, MovedType
  <2>6. QED
    BY <1>1, <1>2, <1>6, <2>2, <2>4, <2>5, HandleType, TypeFacts DEF ParkIn
<1>7. ASSUME NEW b \in BayNames, ParkOut(p, b)
      PROVE  IInv'
  <2>1. sess' \in [Plates -> Session] /\ active' \in [Plates -> BayNames \cup {"none"}] /\ Agrees'
    <3>1. CASE UNCHANGED <<sess, active>>
      BY <1>3, <3>1
    <3>2. CASE sess' = [sess EXCEPT ![p].stay = "left"] /\ UNCHANGED active
      <4> DEFINE s == [sess[p] EXCEPT !.stay = "left"]
      <4>1. s \in Session /\ s.spot = sess[p].spot /\ s.id = sess[p].id
        <5>1. s \in Session
          BY <1>1, SessionFacts
        <5>2. s.spot = sess[p].spot /\ s.id = sess[p].id
          BY <1>1 DEF Session
        <5>3. QED
          BY <5>1, <5>2
      <4>2. sess' = [sess EXCEPT ![p] = s]
        BY <3>2
      <4> HIDE DEF s
      <4>3. QED
        BY <3>2, <4>1, <4>2, SameSpotAgrees
    <3>3. QED
      BY <1>7, <3>1, <3>2 DEF ParkOut
  <2>2. bay' \in [BayNames -> Spot]
    BY <1>1, <1>7, BaysType DEF ParkOut
  <2>3. QED
    BY <1>1, <1>2, <1>7, <2>1, <2>2, HandleType, QueueType, TypeFacts DEF ParkOut
<1>8. CASE Gone(p)
  <2>1. sess' \in [Plates -> Session] /\ active' \in [Plates -> BayNames \cup {"none"}] /\ Agrees'
    <3>1. CASE Complete({p})
      BY <3>1, CompleteInv
    <3>2. CASE UNCHANGED <<sess, active>>
      BY <1>3, <3>2
    <3>3. QED
      BY <1>8, <3>1, <3>2 DEF Gone, parking
  <2>2. bay' \in [BayNames -> Spot]
    <3>1. bay' = bay \/ bay' = Freed(bay, p)
      BY <1>8 DEF Gone, parking
    <3>2. Freed(bay, p) \in [BayNames -> Spot]
      BY <1>1, SpotFacts DEF Freed
    <3>3. QED
      BY <1>1, <3>1, <3>2
  <2>3. QED
    BY <1>1, <1>2, <1>8, <2>1, <2>2, HandleType, TypeFacts DEF Gone
<1>9. QED
  BY <1>4, <1>5, <1>6, <1>7, <1>8 DEF CarSpotAction

LEMMA NewsActionInv ==
  ASSUME IInv, NewsAction
  PROVE  IInv'
<1>1. /\ TypeOK /\ Agrees /\ bay \in [BayNames -> Spot] /\ sess \in [Plates -> Session]
      /\ active \in [Plates -> BayNames \cup {"none"}] /\ leg \in [Plates -> Leg]
      /\ ids \in 0..MaxIds /\ calls \subseteq Call
      /\ pending \subseteq BayNames /\ deferred \subseteq BayNames
      /\ repair \in [BayNames -> {"none", "queued", "sent"}]
  BY TypeFacts DEF IInv
<1>2. ASSUME NEW n, HandleNews(n), UNCHANGED ids,
             bay' \in [BayNames -> Spot], sess' \in [Plates -> Session],
             active' \in [Plates -> BayNames \cup {"none"}], leg' \in [Plates -> Leg],
             calls' \subseteq Call, pending' \subseteq BayNames, deferred' \subseteq BayNames,
             repair' \in [BayNames -> {"none", "queued", "sent"}], Agrees'
      PROVE  IInv'
  <2>1. news' \subseteq News
    BY <1>1, <1>2, TypeFacts DEF HandleNews
  <2>2. QED
    BY <1>1, <1>2, <2>1, TypeFacts DEF IInv, TypeOK, HandleNews, simulator
<1>3. ASSUME UNCHANGED <<sess, active>>
      PROVE  sess' \in [Plates -> Session] /\ active' \in [Plates -> BayNames \cup {"none"}] /\ Agrees'
  BY <1>1, <1>3 DEF Agrees
<1>4. ASSUME NEW b \in BayNames, BayBroken(b)
      PROVE  IInv'
  <2>1. HandleNews(Report("broken", b, "none")) /\ UNCHANGED <<sess, active, leg, calls, ids>>
    BY <1>4 DEF BayBroken
  <2>2. bay' \in [BayNames -> Spot]
    <3>1. bay' = [bay EXCEPT ![b] = SetBroken(bay[b])] /\ SetBroken(bay[b]) \in Spot
      BY <1>1, <1>4, SpotFacts DEF BayBroken
    <3>2. QED
      BY <1>1, <3>1
  <2>3. /\ pending' \subseteq BayNames /\ deferred' \subseteq BayNames
        /\ repair' \in [BayNames -> {"none", "queued", "sent"}]
    <3>1. CASE deferred' = deferred \cup {b} /\ UNCHANGED <<pending, repair>>
      BY <1>1, <3>1
    <3>2. CASE \E bs : QueueRepair(bs, b)
      BY <1>1, <3>2, QueueType
    <3>3. QED
      BY <1>4, <3>1, <3>2 DEF BayBroken
  <2>4. QED
    BY <1>1, <1>2, <1>3, <2>1, <2>2, <2>3
<1>5. ASSUME NEW b \in BayNames, BayFixed(b)
      PROVE  IInv'
  <2>1. /\ HandleNews(Report("fixed", b, "none"))
        /\ UNCHANGED <<sess, active, leg, calls, repair, ids>>
        /\ deferred' = deferred \ {b} /\ pending' = pending \ {b}
    BY <1>5 DEF BayFixed
  <2>2. bay' \in [BayNames -> Spot]
    <3>1. bay' = [bay EXCEPT ![b] = SetFixed(bay[b])] /\ SetFixed(bay[b]) \in Spot
      BY <1>1, <1>5, SpotFacts DEF BayFixed
    <3>2. QED
      BY <1>1, <3>1
  <2>3. pending' \subseteq BayNames /\ deferred' \subseteq BayNames
    BY <1>1, <2>1
  <2>4. QED
    BY <1>1, <1>2, <1>3, <2>1, <2>2, <2>3
<1>6. ASSUME NEW p \in Plates, NEW b \in BayNames, Collision(p, b)
      PROVE  IInv'
  <2> DEFINE mine == sess[p].id # 0 /\ sess[p].spot = b /\ sess[p].stay = "driving"
             bs == IF mine THEN Unreserved(bay, b, p) ELSE bay
  <2>1. /\ HandleNews(Report("collision", b, p)) /\ UNCHANGED <<pending, deferred, repair, ids>>
        /\ leg' = [leg EXCEPT ![p] = NoLeg]
        /\ bay' = [bs EXCEPT ![b].status = "occupied",
                             ![b].who = IF @ = "none" THEN "unknown" ELSE @]
        /\ \/ /\ sess' = [sess EXCEPT ![p].spot = "none", ![p].phase = "arrived"]
              /\ active' = [active EXCEPT ![p] = "none"]
           \/ UNCHANGED <<sess, active>>
        /\ calls' \in {calls, Dispatch(p, FALSE, "none")}
    BY <1>6 DEF Collision
  <2>2. bs \in [BayNames -> Spot]
    BY <1>1, BaysType
  <2> HIDE DEF bs
  <2>3. bay' \in [BayNames -> Spot]
    <3> DEFINE w == IF bs[b].who = "none" THEN "unknown" ELSE bs[b].who
               x == [bs[b] EXCEPT !.status = "occupied", !.who = w]
    <3>1. bs[b] \in Spot /\ w \in Plates \cup {"none", "unknown"}
      BY <2>2, SpotFacts
    <3>2. bay' = [bs EXCEPT ![b] = x]
      BY <2>1
    <3> HIDE DEF w
    <3>3. x \in Spot
      BY <3>1, SpotFacts DEF Statuses
    <3> HIDE DEF x
    <3>4. QED
      BY <2>2, <3>2, <3>3
  <2>4. sess' \in [Plates -> Session] /\ active' \in [Plates -> BayNames \cup {"none"}] /\ Agrees'
    <3>1. CASE UNCHANGED <<sess, active>>
      BY <1>3, <3>1
    <3>2. CASE /\ sess' = [sess EXCEPT ![p].spot = "none", ![p].phase = "arrived"]
               /\ active' = [active EXCEPT ![p] = "none"]
      <4> DEFINE s == [sess[p] EXCEPT !.spot = "none", !.phase = "arrived"]
      <4>1. sess[p] \in Session
        BY <1>1
      <4>2. s.spot = "none"
        BY <4>1 DEF Session
      <4>3. s \in Session
        BY <4>1, SessionFacts
      <4>4. sess' = [sess EXCEPT ![p] = s]
        BY <3>2
      <4> HIDE DEF s
      <4>5. QED
        BY <3>2, <4>2, <4>3, <4>4, SetAgrees
    <3>3. QED
      BY <2>1, <3>1, <3>2
  <2>5. leg' \in [Plates -> Leg]
    <3>1. 0 \in 0..MaxIds
      OBVIOUS
    <3>2. NoLeg \in Leg
      BY <3>1 DEF NoLeg, Leg
    <3>3. QED
      BY <1>1, <2>1, <3>2
  <2>6. calls' \subseteq Call
    <3>1. Dispatch(p, FALSE, "none") \subseteq calls \cup Call
      BY CallFacts
    <3>2. QED
      BY <1>1, <2>1, <3>1
  <2>7. QED
    BY <1>1, <1>2, <2>1, <2>3, <2>4, <2>5, <2>6
<1>7. ASSUME NEW p \in Plates, Neglected(p)
      PROVE  IInv'
  <2>1. HandleNews(Report("neglect", "none", p)) /\ UNCHANGED <<pending, deferred, leg, calls, repair, ids>>
    BY <1>7 DEF Neglected
  <2>2. sess' \in [Plates -> Session] /\ active' \in [Plates -> BayNames \cup {"none"}] /\ Agrees'
    <3>1. CASE Complete({p})
      BY <3>1, CompleteInv
    <3>2. CASE UNCHANGED <<sess, active>>
      BY <1>3, <3>2
    <3>3. QED
      BY <1>7, <3>1, <3>2 DEF Neglected, parking
  <2>3. bay' \in [BayNames -> Spot]
    <3>1. bay' = bay \/ bay' = Unreserved(bay, sess[p].spot, p)
      BY <1>7 DEF Neglected, parking
    <3>2. sess[p].spot \in BayNames \cup {"none"}
      BY <1>1, SessionFacts
    <3>3. Unreserved(bay, sess[p].spot, p) \in [BayNames -> Spot]
      BY <1>1, <3>2, UnreservedType
    <3>4. QED
      BY <1>1, <3>1, <3>3
  <2>4. QED
    BY <1>1, <1>2, <2>1, <2>2, <2>3
<1>8. QED
  BY <1>4, <1>5, <1>6, <1>7 DEF NewsAction

LEMMA StaffDispatchInv ==
  ASSUME IInv, NEW p \in Plates, NEW b \in BayNames, StaffDispatch(p, b)
  PROVE  IInv'
<1>1. /\ TypeOK /\ Agrees /\ calls \subseteq Call
      /\ UNCHANGED <<pos, goal, visits, faulty, inbox, news, bay, sess, active,
                     pending, deferred, leg, repair, listed, ids>>
  BY TypeFacts DEF IInv, StaffDispatch, simulator, parking
<1>2. calls' \subseteq Call
  BY <1>1, CallFacts DEF StaffDispatch
<1>3. used' \in [Rare -> Nat]
  BY <1>1, RarelyType DEF StaffDispatch, Rare
<1>4. TypeOK'
  BY <1>1, <1>2, <1>3, TypeFacts DEF TypeOK
<1>5. Agrees'
  BY <1>1 DEF Agrees
<1>6. QED
  BY <1>4, <1>5 DEF IInv

LEMMA ReapInv ==
  ASSUME IInv, Reap
  PROVE  IInv'
<1>1. /\ TypeOK /\ Agrees
      /\ UNCHANGED <<pos, goal, visits, faulty, inbox, news, pending, deferred, leg, calls,
                     repair, listed, ids>>
  BY DEF IInv, Reap, simulator
<1>2. PICK late : Overstay(late) /\ bay' = Overdue(late) /\ Complete(late)
  BY DEF Reap
<1>3. bay' \in [BayNames -> Spot] /\ used' \in [Rare -> Nat]
  BY <1>1, <1>2, OverdueType, OverstayType
<1>4. sess' \in [Plates -> Session] /\ active' \in [Plates -> BayNames \cup {"none"}] /\ Agrees'
  BY <1>2, CompleteInv
<1>5. TypeOK'
  BY <1>1, <1>3, <1>4, TypeFacts DEF TypeOK
<1>6. QED
  BY <1>4, <1>5 DEF IInv

LEMMA EnsureOpenInv ==
  ASSUME IInv, EnsureOpen
  PROVE  IInv'
<1>1. /\ TypeOK /\ Agrees /\ sess \in [Plates -> Session]
      /\ UNCHANGED <<pos, goal, visits, faulty, bay, sess, active, inbox, news, pending,
                     deferred, calls, repair, listed, ids, used>>
  BY TypeFacts DEF IInv, EnsureOpen, simulator, parking
<1>2. leg' \in [Plates -> Leg]
  BY <1>1, StartLegsType DEF EnsureOpen
<1>3. TypeOK'
  BY <1>1, <1>2, TypeFacts DEF TypeOK
<1>4. Agrees'
  BY <1>1 DEF Agrees
<1>5. QED
  BY <1>3, <1>4 DEF IInv

LEMMA SyncReadInv ==
  ASSUME IInv, SyncRead
  PROVE  IInv'
<1>1. /\ TypeOK /\ Agrees
      /\ UNCHANGED <<pos, goal, visits, faulty, bay, sess, active, inbox, news, pending,
                     deferred, leg, calls, repair, ids>>
  BY DEF IInv, SyncRead, simulator, parking
<1>2. \E l \in Listed : listed' = {l}
  BY DEF SyncRead, Listed
<1>3. used' \in [Rare -> Nat]
  BY <1>1, RarelyType DEF SyncRead, Rare
<1>4. TypeOK'
  BY <1>1, <1>2, <1>3, TypeFacts DEF TypeOK
<1>5. Agrees'
  BY <1>1 DEF Agrees
<1>6. QED
  BY <1>4, <1>5 DEF IInv

LEMMA SyncApplyInv ==
  ASSUME IInv, SyncApply
  PROVE  IInv'
<1>1. /\ TypeOK /\ Agrees /\ sess \in [Plates -> Session]
      /\ active \in [Plates -> BayNames \cup {"none"}]
      /\ UNCHANGED <<pos, goal, visits, faulty, inbox, news, pending, deferred, calls, repair,
                     ids, used>>
      /\ listed' = {}
  BY TypeFacts DEF IInv, SyncApply, simulator
<1>2. PICK l \in Listed :
        /\ sess' = Emptied(Loaded(l))
        /\ active' = [p \in Plates |-> IF sess'[p].spot # "none" THEN sess'[p].spot ELSE active[p]]
        /\ \E w \in [BayNames -> Plates \cup {"none"}] : bay' = Reclaimed(Loaded(l), sess', w)
        /\ StartLegs(Waiting(sess'), sess')
  <2>1. \A l \in listed : l \in Listed
    BY <1>1, TypeFacts
  <2>2. QED
    BY <2>1 DEF SyncApply
<1>3. \A p \in Plates : /\ sess'[p] \in Session /\ sess'[p].spot = sess[p].spot
                        /\ sess'[p].id = sess[p].id
  <2> SUFFICES ASSUME NEW p \in Plates
               PROVE  /\ sess'[p] \in Session /\ sess'[p].spot = sess[p].spot
                      /\ sess'[p].id = sess[p].id
    OBVIOUS
  <2>1. sess'[p] = sess[p] \/ sess'[p] = [sess[p] EXCEPT !.stay = "left"]
    BY <1>2 DEF Emptied
  <2>2. sess[p] \in Session /\ [sess[p] EXCEPT !.stay = "left"] \in Session
    BY <1>1, SessionFacts
  <2>3. /\ [sess[p] EXCEPT !.stay = "left"].spot = sess[p].spot
        /\ [sess[p] EXCEPT !.stay = "left"].id = sess[p].id
    BY <2>2 DEF Session
  <2>4. QED
    BY <2>1, <2>2, <2>3
<1>4. sess' \in [Plates -> Session]
  BY <1>2, <1>3 DEF Emptied
<1>5. \A p \in Plates : active'[p] = sess'[p].spot
  BY <1>1, <1>2, <1>3 DEF Agrees
<1>6. active' \in [Plates -> BayNames \cup {"none"}]
  <2>1. \A p \in Plates : sess'[p].spot \in BayNames \cup {"none"}
    BY <1>3, SessionFacts
  <2>2. QED
    BY <1>1, <1>2, <2>1
<1>7. bay' \in [BayNames -> Spot]
  <2>1. PICK w \in [BayNames -> Plates \cup {"none"}] : bay' = Reclaimed(Loaded(l), sess', w)
    BY <1>2
  <2>2. Loaded(l) \in [BayNames -> Spot]
    <3>1. \A b \in BayNames : l[b].broken \in BOOLEAN /\ l[b].maint \in BOOLEAN
      BY DEF Listed
    <3>2. QED
      BY <3>1 DEF Loaded, Spot
  <2> DEFINE bs == Loaded(l)
  <2> HIDE DEF bs
  <2>3. \A b \in BayNames : \A st \in {"occupied", "reserved"} :
          [bs[b] EXCEPT !.who = w[b], !.status = st] \in Spot
    <3>1. \A b \in BayNames : bs[b] \in Spot /\ w[b] \in Plates \cup {"none"}
      BY <2>2 DEF bs
    <3>2. QED
      BY <3>1 DEF Spot
  <2>4. QED
    BY <2>1, <2>2, <2>3 DEF Reclaimed, bs
<1>8. leg' \in [Plates -> Leg]
  BY <1>1, <1>2, <1>4, StartLegsType
<1>9. TypeOK'
  BY <1>1, <1>4, <1>6, <1>7, <1>8, TypeFacts DEF TypeOK
<1>10. Agrees'
  BY <1>1, <1>3, <1>5 DEF Agrees
<1>11. QED
  BY <1>9, <1>10 DEF IInv

LEMMA InitInv == Init => IInv
<1> SUFFICES ASSUME Init PROVE IInv
  OBVIOUS
<1>1. 0 \in 0..MaxIds /\ 0 \in 0..MaxVisits
  OBVIOUS
<1>2. NoLeg \in Leg /\ Nobody \in Session /\ Nobody.id = 0 /\ Nobody.spot = "none"
  BY <1>1 DEF NoLeg, Leg, Nobody, Session
<1>3. FreeSpot \in Spot
  BY DEF FreeSpot, Spot
<1>4. /\ pos \in [Plates -> Places \cup BayNames] /\ goal \in [Plates -> BayNames \cup {"none"}]
      /\ visits \in [Plates -> 0..MaxVisits] /\ faulty \in [BayNames -> {"fine", "broken", "inRepair"}]
      /\ inbox \in [Plates -> Seq(Webhook)] /\ news \subseteq News
  BY <1>1 DEF Init, Places
<1>5. /\ bay \in [BayNames -> Spot] /\ sess \in [Plates -> Session]
      /\ active \in [Plates -> BayNames \cup {"none"}] /\ leg \in [Plates -> Leg]
  BY <1>2, <1>3 DEF Init
<1>6. /\ pending \subseteq BayNames /\ deferred \subseteq BayNames /\ calls \subseteq Call
      /\ repair \in [BayNames -> {"none", "queued", "sent"}] /\ listed = {}
      /\ ids \in 0..MaxIds /\ used \in [Rare -> Nat]
  BY <1>1 DEF Init
<1>7. TypeOK
  BY <1>4, <1>5, <1>6 DEF TypeOK
<1>8. Agrees
  BY <1>2 DEF Init, Agrees
<1>9. QED
  BY <1>7, <1>8 DEF IInv

LEMMA NextInv ==
  ASSUME IInv, [Next]_vars
  PROVE  IInv'
<1>1. CASE UNCHANGED vars
  <2>1. TypeOK'
    BY <1>1, TypeFacts DEF IInv, TypeOK, vars
  <2>2. Agrees'
    BY <1>1 DEF IInv, Agrees, vars
  <2>3. QED
    BY <2>1, <2>2 DEF IInv
<1>2. CASE Simulator
  BY <1>2, SimulatorInv
<1>3. CASE \E p \in Plates : CarSpotAction(p) \/ LegStep(p)
  BY <1>3, SpotActionInv, LegStepInv
<1>4. CASE NewsAction
  BY <1>4, NewsActionInv
<1>5. CASE Dispatching
  BY <1>5, BeginInv, ResumeInv DEF Dispatching
<1>6. CASE \E b \in BayNames : Maintain(b) \/ RepairStep(b)
  BY <1>6, RepairsInv
<1>7. CASE \E p \in Plates, b \in BayNames : StaffDispatch(p, b)
  BY <1>7, StaffDispatchInv
<1>8. CASE Reap \/ EnsureOpen \/ SyncRead \/ SyncApply
  BY <1>8, ReapInv, EnsureOpenInv, SyncReadInv, SyncApplyInv
<1>9. QED
  BY <1>1, <1>2, <1>3, <1>4, <1>5, <1>6, <1>7, <1>8 DEF Next

-----------------------------------------------------------------------------
(* Occupied bays.                                                          *)

\* Taking, giving back and promising bays leaves the occupied ones as they are.
LEMMA OccupiedFacts ==
  ASSUME NEW bs \in [BayNames -> Spot], NEW b \in BayNames, bs[b].status = "occupied",
         NEW p \in Plates
  PROVE  /\ \A x \in BayNames \cup {"none"} : Unreserved(bs, x, p)[b].status = "occupied"
         /\ \A x \in BayNames : bs[x].status # "occupied" =>
              /\ Reserved(bs, x, p)[b].status = "occupied"
              /\ Vacated(bs, x)[b].status = "occupied"
         /\ \A x \in BayNames : Occupied(bs, x, p)[b].status = "occupied"
<1>1. ASSUME NEW x \in BayNames, bs[x].status # "occupied"
      PROVE  /\ Reserved(bs, x, p)[b].status = "occupied"
             /\ Vacated(bs, x)[b].status = "occupied"
  BY <1>1 DEF Reserved, Vacated
<1>2. ASSUME NEW x \in BayNames \cup {"none"}
      PROVE  Unreserved(bs, x, p)[b].status = "occupied"
  <2>1. CASE x # "none" /\ Held(bs[x], p)
    <3>1. x # b
      BY <2>1 DEF Held
    <3>2. QED
      BY <2>1, <3>1 DEF Unreserved
  <2>2. QED
    BY <2>1 DEF Unreserved
<1>3. ASSUME NEW x \in BayNames
      PROVE  Occupied(bs, x, p)[b].status = "occupied"
  <2>1. CASE x = b
    BY <2>1 DEF Occupied, Spot
  <2>2. CASE x # b
    BY <2>2 DEF Occupied
  <2>3. QED
    BY <2>1, <2>2
<1>4. QED
  BY <1>1, <1>2, <1>3

LEMMA MovedOccupied ==
  ASSUME TypeOK, NEW p \in Plates, NEW x \in BayNames, NEW b \in BayNames,
         bay[b].status = "occupied"
  PROVE  Moved(bay, p, x)[b].status = "occupied"
<1> DEFINE old == sess[p].spot
           freed == IF /\ sess[p].id # 0 /\ old \notin {"none", x}
                       /\ bay[old].who = p /\ bay[old].status # "occupied"
                    THEN Vacated(bay, old) ELSE bay
<1>1. old \in BayNames \cup {"none"} /\ bay \in [BayNames -> Spot]
  BY TypeFacts, SessionFacts
<1> HIDE DEF old
<1>2. freed \in [BayNames -> Spot]
  BY <1>1, BaysType
<1>3. freed[b].status = "occupied"
  BY <1>1, OccupiedFacts
<1> HIDE DEF freed
<1>4. Occupied(freed, x, p)[b].status = "occupied"
  BY <1>2, <1>3, OccupiedFacts
<1>5. QED
  BY <1>4 DEF Moved, freed, old

LEMMA OverdueOccupied ==
  ASSUME NEW ps, NEW b \in BayNames, bay[b].status = "occupied"
  PROVE  Overdue(ps)[b] = bay[b]
BY DEF Overdue, Held

\* What may free an occupied bay.
Frees(b) ==
  \/ \E p \in Plates : ParkOut(p, b) \/ (Gone(p) /\ bay[b].who = p)
  \/ SyncApply
  \/ BayFixed(b) /\ bay[b].who = "none"

LEMMA DispatchStays ==
  ASSUME IInv, NEW b \in BayNames, bay[b].status = "occupied", Dispatching
  PROVE  bay'[b].status = "occupied"
<1>1. TypeOK /\ bay \in [BayNames -> Spot]
  BY TypeFacts DEF IInv
<1>2. PICK c \in calls : Begin(c) \/ Resume(c)
  BY DEF Dispatching
<1>3. c.plate \in Plates /\ sess[c.plate].spot \in BayNames \cup {"none"}
  BY <1>1, CallFacts, TypeFacts, SessionFacts
<1>4. CASE Begin(c)
  <2>1. \/ bay' = bay
        \/ \E late : bay' = Overdue(late) \/ bay' = Unreserved(Overdue(late), sess[c.plate].spot, c.plate)
    BY <1>4 DEF Begin, parking
  <2>2. ASSUME NEW late
        PROVE  /\ Overdue(late)[b].status = "occupied"
               /\ Unreserved(Overdue(late), sess[c.plate].spot, c.plate)[b].status = "occupied"
    <3>1. Overdue(late) \in [BayNames -> Spot] /\ Overdue(late)[b].status = "occupied"
      BY <1>1, OverdueType, OverdueOccupied
    <3>2. QED
      BY <1>3, <3>1, OccupiedFacts
  <2>3. QED
    BY <2>1, <2>2
<1>5. CASE Resume(c)
  <2>1. bay' = bay \/ \E x \in BayNames : Reserve(c, x)
    BY <1>5 DEF Resume, NoGate, TurnAway, Unavailable
  <2>2. ASSUME NEW x \in BayNames, Reserve(c, x)
        PROVE  bay'[b].status = "occupied"
    <3>1. bay' = Reserved(bay, x, c.plate) /\ bay[x].status # "occupied"
      BY <2>2 DEF Reserve, Candidates, Dispatchable
    <3>2. QED
      BY <1>1, <1>3, <3>1, OccupiedFacts
  <2>3. QED
    BY <2>1, <2>2
<1>6. QED
  BY <1>2, <1>4, <1>5

LEMMA SpotActionStays ==
  ASSUME IInv, NEW p \in Plates, CarSpotAction(p), NEW b \in BayNames,
         bay[b].status = "occupied", ~Frees(b)
  PROVE  bay'[b].status = "occupied"
<1>1. TypeOK /\ bay \in [BayNames -> Spot]
  BY TypeFacts DEF IInv
<1>2. CASE EntryIn(p) \/ EntryOut(p)
  BY <1>2 DEF EntryIn, EntryOut, parking
<1>3. ASSUME NEW x \in BayNames, ParkIn(p, x)
      PROVE  bay'[b].status = "occupied"
  BY <1>1, <1>3, MovedOccupied DEF ParkIn
<1>4. ASSUME NEW x \in BayNames, ParkOut(p, x)
      PROVE  bay'[b].status = "occupied"
  BY <1>1, <1>4 DEF ParkOut, Vacated, Frees
<1>5. CASE Gone(p)
  <2>1. bay[b].who # p
    BY <1>5 DEF Frees
  <2>2. bay' = bay \/ bay' = Freed(bay, p)
    BY <1>5 DEF Gone, parking
  <2>3. QED
    BY <2>1, <2>2 DEF Freed
<1>6. QED
  BY <1>2, <1>3, <1>4, <1>5 DEF CarSpotAction

LEMMA NewsStays ==
  ASSUME IInv, NewsAction, NEW b \in BayNames, bay[b].status = "occupied", ~Frees(b)
  PROVE  bay'[b].status \notin {"available", "reserved"}
<1>1. TypeOK /\ bay \in [BayNames -> Spot]
  BY TypeFacts DEF IInv
<1>2. ASSUME NEW x \in BayNames, BayBroken(x)
      PROVE  bay'[b].status \notin {"available", "reserved"}
  <2>1. bay' = [bay EXCEPT ![x] = SetBroken(bay[x])]
    BY <1>2 DEF BayBroken
  <2>2. SetBroken(bay[b]).status \in {"occupied", "broken"}
    <3>1. bay[b] \in Spot
      BY <1>1
    <3>2. QED
      BY <3>1 DEF SetBroken, Spot
  <2>3. QED
    BY <1>1, <2>1, <2>2
<1>3. ASSUME NEW x \in BayNames, BayFixed(x)
      PROVE  bay'[b].status \notin {"available", "reserved"}
  <2>1. bay' = [bay EXCEPT ![x] = SetFixed(bay[x])]
    BY <1>3 DEF BayFixed
  <2>2. CASE x = b
    <3>1. bay[b].who # "none" /\ bay[b] \in Spot
      BY <1>1, <1>3, <2>2 DEF Frees
    <3>2. SetFixed(bay[b]).status = "occupied"
      BY <3>1 DEF SetFixed, Spot
    <3>3. QED
      BY <1>1, <2>1, <2>2, <3>2
  <2>3. CASE x # b
    BY <1>1, <2>1, <2>3
  <2>4. QED
    BY <2>2, <2>3
<1>4. ASSUME NEW p \in Plates, NEW x \in BayNames, Collision(p, x)
      PROVE  bay'[b].status \notin {"available", "reserved"}
  <2> DEFINE mine == sess[p].id # 0 /\ sess[p].spot = x /\ sess[p].stay = "driving"
             bs == IF mine THEN Unreserved(bay, x, p) ELSE bay
  <2>1. bay' = [bs EXCEPT ![x].status = "occupied",
                          ![x].who = IF @ = "none" THEN "unknown" ELSE @]
    BY <1>4 DEF Collision
  <2>2. bs \in [BayNames -> Spot] /\ bs[b].status = "occupied"
    BY <1>1, BaysType, OccupiedFacts
  <2> HIDE DEF bs
  <2>3. CASE x # b
    BY <2>1, <2>2, <2>3
  <2>4. CASE x = b
    <3>1. bs[b] \in Spot
      BY <2>2
    <3>2. bay'[b].status = "occupied"
      BY <2>1, <2>2, <2>4, <3>1 DEF Spot
    <3>3. QED
      BY <3>2
  <2>5. QED
    BY <2>3, <2>4
<1>5. ASSUME NEW p \in Plates, Neglected(p)
      PROVE  bay'[b].status \notin {"available", "reserved"}
  <2>1. bay' = bay \/ bay' = Unreserved(bay, sess[p].spot, p)
    BY <1>5 DEF Neglected, parking
  <2>2. sess[p].spot \in BayNames \cup {"none"}
    BY <1>1, TypeFacts, SessionFacts
  <2>3. QED
    BY <1>1, <2>1, <2>2, OccupiedFacts
<1>6. QED
  BY <1>2, <1>3, <1>4, <1>5 DEF NewsAction

LEMMA OccupiedStep ==
  ASSUME IInv, [Next]_vars, NEW b \in BayNames, bay[b].status = "occupied", ~Frees(b)
  PROVE  bay'[b].status \notin {"available", "reserved"}
<1>1. TypeOK /\ bay \in [BayNames -> Spot]
  BY TypeFacts DEF IInv
<1>2. CASE bay' = bay
  BY <1>2
<1>3. Simulator => bay' = bay
  BY DEF Simulator, Arrive, DriveIn, Neglect, Collide, GiveUp, Leave, ParkAt, Straddle, Break,
         Mend, Outside
<1>4. ASSUME NEW p \in Plates, CarSpotAction(p) \/ LegStep(p)
      PROVE  bay'[b].status \notin {"available", "reserved"}
  <2>1. LegStep(p) => bay' = bay
    BY DEF LegStep, LegCheck, LegEnds, LegSends, LegUnchanged
  <2>2. QED
    BY <1>2, <1>4, <2>1, SpotActionStays
<1>5. ASSUME NEW x \in BayNames, Maintain(x) \/ RepairStep(x)
      PROVE  bay'[b].status \notin {"available", "reserved"}
  <2>1. bay' = bay \/ bay' = [bay EXCEPT ![x].maint = TRUE, ![x].status = "maintenance"]
    BY <1>5 DEF Maintain, RepairStep, RepairPutOff, RepairSent, RepairAnswered, RepairRetried,
                RepairDropped
  <2>2. CASE bay' = [bay EXCEPT ![x].maint = TRUE, ![x].status = "maintenance"]
    <3>1. bay[b] \in Spot
      BY <1>1
    <3>2. QED
      BY <1>1, <2>2, <3>1 DEF Spot
  <2>3. QED
    BY <1>2, <2>1, <2>2
<1>6. \A p \in Plates, x \in BayNames : StaffDispatch(p, x) => bay' = bay
  BY DEF StaffDispatch, parking
<1>7. CASE Reap
  BY <1>7, OverdueOccupied DEF Reap
<1>8. EnsureOpen \/ SyncRead \/ UNCHANGED vars => bay' = bay
  BY DEF EnsureOpen, SyncRead, parking, vars
<1>9. ~SyncApply
  BY DEF Frees
<1>10. QED
  BY <1>2, <1>3, <1>4, <1>5, <1>6, <1>7, <1>8, <1>9, DispatchStays, NewsStays DEF Next

-----------------------------------------------------------------------------
(* The theorems.                                                           *)

\* In every reachable state the invariant holds.
THEOREM Invariant == Spec => []IInv
<1>1. IInv /\ [Next]_vars => IInv'
  BY NextInv
<1>2. QED
  BY InitInv, <1>1, PTL DEF Spec

\* Every variable keeps its type, however cars, staff, repairs and syncs interleave.
THEOREM TypeCorrect == Spec => []TypeOK
<1>1. IInv => TypeOK
  BY DEF IInv
<1>2. QED
  BY Invariant, <1>1, PTL

\* active_dispatches, which ends a dispatch early, says what the sessions say, whoever
\* begins, ends or moves a visit.
THEOREM ActiveAgrees == Spec => []ActiveIsAssigned
<1>1. IInv => ActiveIsAssigned
  BY DEF IInv, Agrees, ActiveIsAssigned
<1>2. QED
  BY Invariant, <1>1, PTL

\* A bay once seen occupied is not given to another before a car leaves it, its occupant's
\* exit or a sync (_handle_occupied_bay, main.py:2941): no reaping, penalty, dispatch or
\* parked car frees it, and a repair only a bay whose car nobody knows.
THEOREM OccupiedIsKept == Spec => OccupiedStays
<1> DEFINE Stays == \A b \in BayNames :
             bay[b].status = "occupied" /\ bay'[b].status \in {"available", "reserved"} => Frees(b)
<1>1. IInv /\ [Next]_vars => Stays
  BY OccupiedStep
<1>2. QED
  BY Invariant, <1>1, PTL DEF Spec, OccupiedStays, Frees

=============================================================================

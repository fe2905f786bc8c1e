-------------------------- MODULE BaysOrderProofs ---------------------------
(***************************************************************************)
(* Proofs about Bays as long as cars park where they are sent, staff do    *)
(* not dispatch, the bays are not loaded from the simulator's list, and    *)
(* nobody is archived who is still there: whatever breaks, is neglected,   *)
(* turned away or reaped, and however often.  Any of the four makes        *)
(* FreeIsEmpty or AllocatesBays false (README, section 5).                 *)
(***************************************************************************)
EXTENDS BaysProofs, SequenceTheorems

Disorders == {"astray", "staff", "sync", "slow"}
Orderly == \A k \in Disorders : used[k] = 0

-----------------------------------------------------------------------------
(* The inductive invariant.                                                *)

\* What is left of the webhooks of a visit.
Came == <<Event("entry", "none")>>
TurnedBack == <<Event("entry", "none"), Event("entryOut", "none")>>
WentIn == <<Event("entryOut", "none")>>
CameIn(b) == <<Event("entryOut", "none"), Event("park", b)>>
Parks(b) == <<Event("park", b)>>
WasIn(b) == <<Event("entryOut", "none"), Event("park", b), Event("left", b), Event("gone", "none")>>
Parked(b) == <<Event("park", b), Event("left", b), Event("gone", "none")>>
Left(b) == <<Event("left", b), Event("gone", "none")>>
Out == <<Event("gone", "none")>>

Assigned(p, b) == sess[p].phase = "assigned" /\ sess[p].spot = b
InBay(p, b) == sess[p].phase = "parked" /\ sess[p].stay = "parked" /\ sess[p].spot = b
NotParked(p) == sess[p].phase # "parked"
\* It drove out without parking, and nobody will send it on.
GivenUp(p) == sess[p].id = 0 \/ (sess[p].phase = "assigned" /\ sess[p].departed)

\* The stages of a visit: where the car is, what is still to be heard of it, and what
\* its session says.
Absent(p) ==
  pos[p] = "away" /\ goal[p] = "none" /\ (inbox[p] = <<>> \/ inbox[p] = TurnedBack) /\ GivenUp(p)
Arrived(p) == pos[p] = "entry" /\ goal[p] = "none" /\ inbox[p] = Came /\ GivenUp(p)
Waits(p) == pos[p] = "entry" /\ goal[p] = "none" /\ inbox[p] = <<>> /\ NotParked(p)
Refused(p) == pos[p] = "away" /\ goal[p] = "none" /\ inbox[p] = WentIn /\ NotParked(p)
Sent(p, b) ==
  /\ goal[p] = b /\ Assigned(p, b)
  /\ \/ pos[p] = "entry" /\ inbox[p] = <<>>
     \/ pos[p] = "road" /\ (inbox[p] = <<>> \/ inbox[p] = WentIn)
Within(p, b) ==
  /\ pos[p] = b /\ goal[p] = "none"
  /\ \/ (inbox[p] = CameIn(b) \/ inbox[p] = Parks(b)) /\ Assigned(p, b)
     \/ inbox[p] = <<>> /\ InBay(p, b)
Leaving(p, b) ==
  /\ pos[p] = "away" /\ goal[p] = "none"
  /\ \/ (inbox[p] = WasIn(b) \/ inbox[p] = Parked(b)) /\ Assigned(p, b)
     \/ inbox[p] = Left(b) /\ InBay(p, b)
Exiting(p) ==
  /\ pos[p] = "away" /\ goal[p] = "none" /\ inbox[p] = Out
  /\ sess[p].phase = "parked" /\ sess[p].stay = "left"
Course(p) ==
  \/ Absent(p) \/ Arrived(p) \/ Waits(p) \/ Refused(p) \/ Exiting(p)
  \/ \E b \in BayNames : Sent(p, b) \/ Within(p, b) \/ Leaving(p, b)

\* The phase tells whether there is a bay, and whether the car was in it.
Shape(s) ==
  /\ s.phase = "arrived" => s.spot = "none"
  /\ s.phase # "arrived" => s.id # 0 /\ s.spot # "none"
  /\ s.phase = "parked" <=> s.stay # "driving"

\* A bay that is promised is reserved, one with a parked car occupied.
Kept(p) ==
  /\ sess[p].phase = "assigned" => Held(bay[sess[p].spot], p)
  /\ sess[p].phase = "parked" /\ sess[p].stay = "parked" =>
       bay[sess[p].spot].who = p /\ bay[sess[p].spot].status = "occupied"

\* A gate is opened for a car at the entrance only when it is still to be sent.
LegFits(p) ==
  leg[p].step = "gate" /\ pos[p] = "entry" => Assigned(p, leg[p].spot) /\ ~sess[p].departed

Car(p) == Course(p) /\ Shape(sess[p]) /\ Kept(p) /\ LegFits(p)

InUse == {"reserved", "occupied"}
Named(s) == s.who \in Plates \cup {"none"} /\ (s.status \in InUse <=> s.who # "none")

\* A bay in repair, or whose repair was sent, is nobody's, and pending till then.
RepairFits(b) ==
  /\ faulty[b] = "inRepair" => repair[b] = "sent" \/ bay[b].maint
  /\ Report("fixed", b, "none") \in news => bay[b].maint /\ faulty[b] # "inRepair"
  /\ repair[b] # "none" => b \in pending /\ ~bay[b].maint
  /\ repair[b] = "sent" \/ bay[b].maint => bay[b].who = "none"
BayFits(b) == Named(bay[b]) /\ RepairFits(b)

\* A car is dispatched while it is at the entrance or has been refused there.
CallFits(c) ==
  /\ c.striped /\ c.wish = "none" /\ goal[c.plate] = "none"
  /\ \/ pos[c.plate] = "entry" /\ inbox[c.plate] = <<>>
     \/ pos[c.plate] = "away" /\ inbox[c.plate] = WentIn
  /\ IF c.step = "begin" THEN GivenUp(c.plate) ELSE sess[c.plate].spot = "none"
  /\ c.step = "goesOn" => sess[c.plate].id # 0

\* One dispatch of a plate at a time, and one that does not wait.
CallsApart ==
  \A c, d \in calls : c.plate = d.plate \/ (c.step # "waits" /\ d.step # "waits") => c = d

\* The only penalties are for cars that left the entrance.
NewsFits(n) ==
  /\ n.kind # "collision"
  /\ n.plate # "none" =>
       /\ pos[n.plate] = "away"
       /\ inbox[n.plate] = <<>> \/ inbox[n.plate] = TurnedBack \/ inbox[n.plate] = WentIn

Ordered ==
  /\ \A p \in Plates : Car(p)
  /\ \A b \in BayNames : BayFits(b)
  /\ \A c \in calls : CallFits(c)
  /\ CallsApart
  /\ \A n \in news : NewsFits(n)
  /\ listed = {}

-----------------------------------------------------------------------------
(* Webhooks and the stages they are heard in.                              *)

LEMMA EventFields ==
  /\ \A k, b, j, a : Event(k, b) = Event(j, a) <=> k = j /\ b = a
  /\ \A k, b, p, j, a, q : Report(k, b, p) = Report(j, a, q) <=> k = j /\ b = a /\ p = q
  /\ \A k, b, p : Report(k, b, p).kind = k /\ Report(k, b, p).bay = b /\ Report(k, b, p).plate = p
BY DEF Event, Report

LEMMA HeadsTails ==
  /\ Came # <<>> /\ Head(Came) = Event("entry", "none") /\ Tail(Came) = <<>>
  /\ TurnedBack # <<>> /\ Head(TurnedBack) = Event("entry", "none") /\ Tail(TurnedBack) = WentIn
  /\ WentIn # <<>> /\ Head(WentIn) = Event("entryOut", "none") /\ Tail(WentIn) = <<>>
  /\ Out # <<>> /\ Head(Out) = Event("gone", "none") /\ Tail(Out) = <<>>
  /\ \A b \in BayNames :
       /\ CameIn(b) # <<>> /\ Head(CameIn(b)) = Event("entryOut", "none") /\ Tail(CameIn(b)) = Parks(b)
       /\ Parks(b) # <<>> /\ Head(Parks(b)) = Event("park", b) /\ Tail(Parks(b)) = <<>>
       /\ WasIn(b) # <<>> /\ Head(WasIn(b)) = Event("entryOut", "none") /\ Tail(WasIn(b)) = Parked(b)
       /\ Parked(b) # <<>> /\ Head(Parked(b)) = Event("park", b) /\ Tail(Parked(b)) = Left(b)
       /\ Left(b) # <<>> /\ Head(Left(b)) = Event("left", b) /\ Tail(Left(b)) = Out
<1>1. \A x : Head(<<x>>) = x /\ Tail(<<x>>) = <<>> /\ <<x>> # <<>>
  OBVIOUS
<1>2. \A x, y : Head(<<x, y>>) = x /\ Tail(<<x, y>>) = <<y>> /\ <<x, y>> # <<>>
  OBVIOUS
<1>3. \A x, y, z : Head(<<x, y, z>>) = x /\ Tail(<<x, y, z>>) = <<y, z>> /\ <<x, y, z>> # <<>>
  OBVIOUS
<1>4. \A x, y, z, w : Head(<<x, y, z, w>>) = x /\ Tail(<<x, y, z, w>>) = <<y, z, w>>
                      /\ <<x, y, z, w>> # <<>>
  OBVIOUS
<1>5. QED
  BY <1>1, <1>2, <1>3, <1>4
     DEF Came, TurnedBack, WentIn, Out, CameIn, Parks, WasIn, Parked, Left

\* The tails tell the lists of webhooks apart that begin alike.
LEMMA ListsDiffer ==
  /\ WentIn # TurnedBack /\ Came # TurnedBack
  /\ \A b \in BayNames : WasIn(b) # WentIn /\ CameIn(b) # WentIn
<1>1. WentIn # TurnedBack /\ Came # TurnedBack
  BY HeadsTails
<1>2. \A b \in BayNames : WasIn(b) # WentIn /\ CameIn(b) # WentIn
  BY HeadsTails
<1>3. QED
  BY <1>1, <1>2

LEMMA Appended ==
  /\ <<>> \o Came = Came /\ <<>> \o WentIn = WentIn /\ Came \o WentIn = TurnedBack
  /\ \A b \in BayNames :
       /\ <<>> \o Parks(b) = Parks(b) /\ WentIn \o Parks(b) = CameIn(b)
       /\ CameIn(b) \o Left(b) = WasIn(b) /\ Parks(b) \o Left(b) = Parked(b)
       /\ <<>> \o Left(b) = Left(b)
<1>0. /\ \A s \in Seq(Webhook) : <<>> \o s = s
      /\ \A b \in BayNames : /\ Event("entry", "none") \in Webhook /\ Event("entryOut", "none") \in Webhook
                             /\ Event("park", b) \in Webhook /\ Event("left", b) \in Webhook
                             /\ Event("gone", "none") \in Webhook
      /\ Event("entry", "none") \in Webhook /\ Event("entryOut", "none") \in Webhook
  BY ConcatEmptySeq, EventType
<1>1. ASSUME NEW x \in Webhook, NEW y \in Webhook
      PROVE  <<x>> \o <<y>> = <<x, y>>
  <2>1. <<x>> \in Seq(Webhook) /\ <<y>> \in Seq(Webhook) /\ <<x, y>> \in Seq(Webhook)
    BY <1>1
  <2>2. /\ <<x>> \o <<y>> \in Seq(Webhook) /\ Len(<<x>> \o <<y>>) = 2
        /\ \A i \in 1 .. 2 : (<<x>> \o <<y>>)[i] =
              IF i <= 1 THEN <<x>>[i] ELSE <<y>>[i - 1]
    BY <2>1, ConcatProperties, Len(<<x>>) = 1, Len(<<y>>) = 1
  <2>3. \A i \in 1 .. 2 : (<<x>> \o <<y>>)[i] = <<x, y>>[i]
    BY <2>2
  <2>4. QED
    BY <2>1, <2>2, <2>3, SeqEqual, Len(<<x, y>>) = 2
<1>2. ASSUME NEW x \in Webhook, NEW y \in Webhook, NEW z \in Webhook
      PROVE  <<x>> \o <<y, z>> = <<x, y, z>>
  <2>1. <<x>> \in Seq(Webhook) /\ <<y, z>> \in Seq(Webhook) /\ <<x, y, z>> \in Seq(Webhook)
    BY <1>2
  <2>2. /\ <<x>> \o <<y, z>> \in Seq(Webhook) /\ Len(<<x>> \o <<y, z>>) = 3
        /\ \A i \in 1 .. 3 : (<<x>> \o <<y, z>>)[i] =
              IF i <= 1 THEN <<x>>[i] ELSE <<y, z>>[i - 1]
    BY <2>1, ConcatProperties, Len(<<x>>) = 1, Len(<<y, z>>) = 2
  <2>3. \A i \in 1 .. 3 : (<<x>> \o <<y, z>>)[i] = <<x, y, z>>[i]
    BY <2>2
  <2>4. QED
    BY <2>1, <2>2, <2>3, SeqEqual, Len(<<x, y, z>>) = 3
<1>3. ASSUME NEW x \in Webhook, NEW y \in Webhook, NEW z \in Webhook, NEW w \in Webhook
      PROVE  <<x, y>> \o <<z, w>> = <<x, y, z, w>>
  <2>1. <<x, y>> \in Seq(Webhook) /\ <<z, w>> \in Seq(Webhook) /\ <<x, y, z, w>> \in Seq(Webhook)
    BY <1>3
  <2>2. /\ <<x, y>> \o <<z, w>> \in Seq(Webhook) /\ Len(<<x, y>> \o <<z, w>>) = 4
        /\ \A i \in 1 .. 4 : (<<x, y>> \o <<z, w>>)[i] =
              IF i <= 2 THEN <<x, y>>[i] ELSE <<z, w>>[i - 2]
    BY <2>1, ConcatProperties, Len(<<x, y>>) = 2, Len(<<z, w>>) = 2
  <2>3. \A i \in 1 .. 4 : (<<x, y>> \o <<z, w>>)[i] = <<x, y, z, w>>[i]
    BY <2>2
  <2>4. QED
    BY <2>1, <2>2, <2>3, SeqEqual, Len(<<x, y, z, w>>) = 4
<1>4. /\ Came \in Seq(Webhook) /\ WentIn \in Seq(Webhook)
      /\ \A b \in BayNames : Parks(b) \in Seq(Webhook) /\ Left(b) \in Seq(Webhook)
  BY <1>0 DEF Came, WentIn, Parks, Left
<1>5. QED
  BY <1>0, <1>1, <1>2, <1>3, <1>4
     DEF Came, TurnedBack, WentIn, CameIn, Parks, WasIn, Parked, Left

\* The stage that the next webhook of a car tells.
LEMMA StageOfHead ==
  ASSUME NEW p \in Plates, Course(p), inbox[p] # <<>>, NEW b \in BayNames
  PROVE  /\ Head(inbox[p]) = Event("entry", "none") =>
              Arrived(p) \/ (Absent(p) /\ inbox[p] = TurnedBack)
         /\ Head(inbox[p]) = Event("entryOut", "none") =>
              \/ Refused(p)
              \/ \E a \in BayNames : \/ Leaving(p, a) /\ inbox[p] = WasIn(a)
                                     \/ Sent(p, a) /\ inbox[p] = WentIn
                                     \/ Within(p, a) /\ inbox[p] = CameIn(a)
         /\ Head(inbox[p]) = Event("park", b) =>
              \/ Leaving(p, b) /\ inbox[p] = Parked(b)
              \/ Within(p, b) /\ inbox[p] = Parks(b)
         /\ Head(inbox[p]) = Event("left", b) => Leaving(p, b) /\ inbox[p] = Left(b)
         /\ Head(inbox[p]) = Event("gone", "none") => Exiting(p)
<1>1. CASE Absent(p) \/ Arrived(p) \/ Waits(p) \/ Refused(p) \/ Exiting(p)
  BY <1>1, HeadsTails, EventFields DEF Absent, Arrived, Waits, Refused, Exiting
<1>2. ASSUME NEW a \in BayNames, Sent(p, a)
      PROVE  inbox[p] = WentIn
  BY <1>2 DEF Sent
<1>3. ASSUME NEW a \in BayNames, Within(p, a)
      PROVE  inbox[p] = CameIn(a) \/ inbox[p] = Parks(a)
  BY <1>3 DEF Within
<1>4. ASSUME NEW a \in BayNames, Leaving(p, a)
      PROVE  inbox[p] = WasIn(a) \/ inbox[p] = Parked(a) \/ inbox[p] = Left(a)
  BY <1>4 DEF Leaving
<1>5. ASSUME NEW a \in BayNames, Sent(p, a) \/ Within(p, a) \/ Leaving(p, a)
      PROVE  /\ Head(inbox[p]) # Event("entry", "none") /\ Head(inbox[p]) # Event("gone", "none")
             /\ Head(inbox[p]) = Event("entryOut", "none") =>
                  \/ Leaving(p, a) /\ inbox[p] = WasIn(a)
                  \/ Sent(p, a) /\ inbox[p] = WentIn
                  \/ Within(p, a) /\ inbox[p] = CameIn(a)
             /\ Head(inbox[p]) = Event("park", b) =>
                  /\ a = b
                  /\ \/ Leaving(p, b) /\ inbox[p] = Parked(b)
                     \/ Within(p, b) /\ inbox[p] = Parks(b)
             /\ Head(inbox[p]) = Event("left", b) => a = b /\ Leaving(p, b) /\ inbox[p] = Left(b)
  <2>1. CASE Sent(p, a)
    BY <1>2, <2>1, HeadsTails, EventFields
  <2>2. CASE Within(p, a)
    <3>1. CASE inbox[p] = CameIn(a)
      BY <2>2, <3>1, HeadsTails, EventFields
    <3>2. CASE inbox[p] = Parks(a)
      BY <2>2, <3>2, HeadsTails, EventFields
    <3>3. QED
      BY <1>3, <2>2, <3>1, <3>2
  <2>3. CASE Leaving(p, a)
    <3>1. CASE inbox[p] = WasIn(a)
      BY <2>3, <3>1, HeadsTails, EventFields
    <3>2. CASE inbox[p] = Parked(a)
      BY <2>3, <3>2, HeadsTails, EventFields
    <3>3. CASE inbox[p] = Left(a)
      BY <2>3, <3>3, HeadsTails, EventFields
    <3>4. QED
      BY <1>4, <2>3, <3>1, <3>2, <3>3
  <2>4. QED
    BY <1>5, <2>1, <2>2, <2>3
<1>6. CASE \E a \in BayNames : Sent(p, a) \/ Within(p, a) \/ Leaving(p, a)
  BY <1>5, <1>6
<1>7. QED
  BY <1>1, <1>6 DEF Course

-----------------------------------------------------------------------------
(* What the invariant says, and what keeps it.                             *)

LEMMA OrderedFacts ==
  ASSUME Ordered
  PROVE  /\ \A p \in Plates : Course(p) /\ Shape(sess[p]) /\ Kept(p) /\ LegFits(p)
         /\ \A b \in BayNames : Named(bay[b]) /\ RepairFits(b)
         /\ \A c \in calls : CallFits(c)
         /\ \A c, d \in calls : c.plate = d.plate \/ (c.step # "waits" /\ d.step # "waits") => c = d
         /\ \A n \in news : NewsFits(n)
         /\ listed = {}
BY DEF Ordered, Car, BayFits, CallsApart

\* A car that was let in for a bay, is in it, or was not yet reported gone from it, has it.
LEMMA Owner ==
  ASSUME Ordered, NEW p \in Plates, NEW b \in BayNames, Sent(p, b) \/ Within(p, b) \/ Leaving(p, b)
  PROVE  /\ bay[b].who = p /\ bay[b].status \in InUse /\ ~bay[b].maint /\ repair[b] # "sent"
         /\ sess[p].spot = b /\ sess[p].id # 0
         /\ Assigned(p, b) \/ InBay(p, b)
<1>1. Shape(sess[p]) /\ Kept(p) /\ RepairFits(b)
  BY OrderedFacts
<1>2. Assigned(p, b) \/ InBay(p, b)
  BY DEF Sent, Within, Leaving
<1>3. bay[b].who = p /\ bay[b].status \in InUse
  BY <1>1, <1>2 DEF Kept, Assigned, InBay, Held, InUse
<1>4. p # "none"
  BY BaysAssumption
<1>5. ~bay[b].maint /\ repair[b] # "sent"
  BY <1>1, <1>3, <1>4 DEF RepairFits
<1>6. sess[p].spot = b /\ sess[p].id # 0
  BY <1>1, <1>2 DEF Shape, Assigned, InBay
<1>7. QED
  BY <1>2, <1>3, <1>5, <1>6

\* Where a car is, when nobody waits for its bay.
LEMMA StageOfPlace ==
  ASSUME NEW p \in Plates, Course(p)
  PROVE  /\ pos[p] = "entry" =>
              Arrived(p) \/ Waits(p) \/ \E b \in BayNames : Sent(p, b)
         /\ pos[p] = "road" => \E b \in BayNames : Sent(p, b)
         /\ \A b \in BayNames : pos[p] = b => Within(p, b)
         /\ pos[p] = "away" /\ (inbox[p] = <<>> \/ inbox[p] = TurnedBack \/ inbox[p] = WentIn) =>
              Absent(p) \/ Refused(p)
         /\ goal[p] # "none" => goal[p] \in BayNames /\ Sent(p, goal[p])
<1>1. \A b \in BayNames : b # "away" /\ b # "entry" /\ b # "road" /\ b # "none"
  BY BaysAssumption DEF Places
<1>2. CASE Absent(p) \/ Arrived(p) \/ Waits(p) \/ Refused(p) \/ Exiting(p)
  BY <1>1, <1>2, HeadsTails, ListsDiffer, EventFields
     DEF Absent, Arrived, Waits, Refused, Exiting
<1>3. ASSUME NEW a \in BayNames, Sent(p, a)
      PROVE  /\ goal[p] = a /\ (pos[p] = "entry" \/ pos[p] = "road")
  BY <1>3 DEF Sent
<1>4. ASSUME NEW a \in BayNames, Within(p, a)
      PROVE  goal[p] = "none" /\ pos[p] = a
  BY <1>4 DEF Within
<1>5. ASSUME NEW a \in BayNames, Leaving(p, a)
      PROVE  /\ goal[p] = "none" /\ pos[p] = "away"
             /\ inbox[p] # <<>> /\ inbox[p] # TurnedBack /\ inbox[p] # WentIn
  <2>1. goal[p] = "none" /\ pos[p] = "away"
        /\ (inbox[p] = WasIn(a) \/ inbox[p] = Parked(a) \/ inbox[p] = Left(a))
    BY <1>5 DEF Leaving
  <2>2. WasIn(a) # <<>> /\ WasIn(a) # TurnedBack /\ WasIn(a) # WentIn
    BY HeadsTails, ListsDiffer, EventFields
  <2>3. Parked(a) # <<>> /\ Parked(a) # TurnedBack /\ Parked(a) # WentIn
    BY HeadsTails, EventFields
  <2>4. Left(a) # <<>> /\ Left(a) # TurnedBack /\ Left(a) # WentIn
    BY HeadsTails, EventFields
  <2>5. QED
    BY <2>1, <2>2, <2>3, <2>4
<1>6. CASE \E a \in BayNames : Sent(p, a)
  BY <1>1, <1>3, <1>6
<1>7. CASE \E a \in BayNames : Within(p, a)
  BY <1>1, <1>4, <1>7
<1>8. CASE \E a \in BayNames : Leaving(p, a)
  BY <1>1, <1>5, <1>8
<1>9. QED
  BY <1>2, <1>6, <1>7, <1>8 DEF Course

\* What a step says nothing of stays as it is.
LEMMA CarFrame ==
  ASSUME TypeOK, NEW q \in Plates, Car(q),
         pos'[q] = pos[q], goal'[q] = goal[q], inbox'[q] = inbox[q], sess'[q] = sess[q],
         leg'[q] = leg[q] \/ leg'[q].step # "gate",
         \A b \in BayNames : bay[b].who = q => bay'[b].who = q /\ bay'[b].status = bay[b].status
  PROVE  Car(q)'
<1>1. Course(q)'
  BY DEF Car, Course, Absent, Arrived, Waits, Refused, Exiting, Sent, Within, Leaving, GivenUp,
         NotParked, Assigned, InBay
<1>2. Shape(sess[q])'
  BY DEF Car, Shape
<1>3. sess[q].phase # "arrived" => sess[q].spot \in BayNames
  <2>1. sess[q].spot \in BayNames \cup {"none"}
    BY TypeFacts, SessionFacts
  <2>2. QED
    BY <2>1 DEF Car, Shape
<1>4. Kept(q)'
  BY <1>3 DEF Car, Kept, Held
<1>5. LegFits(q)'
  BY DEF Car, LegFits, Assigned
<1>6. QED
  BY <1>1, <1>2, <1>4, <1>5 DEF Car

LEMMA Others ==
  ASSUME TypeOK, Ordered, NEW ps,
         \A q \in Plates \ ps :
           /\ pos'[q] = pos[q] /\ goal'[q] = goal[q] /\ inbox'[q] = inbox[q] /\ sess'[q] = sess[q]
           /\ leg'[q] = leg[q] \/ leg'[q].step # "gate",
         \A b \in BayNames : \/ bay[b].who \in ps \cup {"none"}
                             \/ bay'[b].who = bay[b].who /\ bay'[b].status = bay[b].status
  PROVE  /\ \A q \in Plates \ ps : Car(q)'
         /\ \A c \in calls : c.plate \notin ps => CallFits(c)'
         /\ \A n \in news : n.plate \notin ps => NewsFits(n)'
<1>1. ASSUME NEW q \in Plates \ ps
      PROVE  Car(q)'
  <2>1. q # "none" /\ Car(q)
    BY BaysAssumption DEF Ordered
  <2>2. QED
    BY <2>1, CarFrame
<1>2. ASSUME NEW c \in calls, c.plate \notin ps
      PROVE  CallFits(c)'
  <2>1. c.plate \in Plates \ ps
    BY <1>2, TypeFacts, CallFacts
  <2>2. QED
    BY <2>1, OrderedFacts DEF CallFits, GivenUp
<1>3. ASSUME NEW n \in news, n.plate \notin ps
      PROVE  NewsFits(n)'
  <2>1. n.plate = "none" \/ n.plate \in Plates \ ps
    BY <1>3, TypeFacts DEF News
  <2>2. QED
    BY <2>1, OrderedFacts DEF NewsFits
<1>4. QED
  BY <1>1, <1>2, <1>3

\* A bay is as it was, or one of the cars ps was freed from it.
Freeing(s, t, ps) ==
  \/ t = s
  \/ s.who \in ps /\ t.who = "none" /\ t.maint = s.maint /\ t.status \notin InUse

LEMMA FreeingFacts ==
  ASSUME TypeOK, NEW p \in Plates
  PROVE  /\ \A b, x \in BayNames : bay[b].who = p => Freeing(bay[x], Vacated(bay, b)[x], {p})
         /\ \A x \in BayNames : Freeing(bay[x], Freed(bay, p)[x], {p})
         /\ \A b \in BayNames \cup {"none"}, x \in BayNames :
              Freeing(bay[x], Unreserved(bay, b, p)[x], {p})
         /\ \A ps \in SUBSET Plates, x \in BayNames : Freeing(bay[x], Overdue(ps)[x], ps)
<1>1. \A s \in Spot : /\ Vacant(s).who = "none" /\ Vacant(s).maint = s.maint
                      /\ Vacant(s).status \notin InUse
  BY DEF Vacant, Spot, InUse
<1>2. \A s \in Spot : LET t == [s EXCEPT !.status = "available", !.who = "none"]
                      IN  t.who = "none" /\ t.maint = s.maint /\ t.status \notin InUse
  BY DEF Spot, InUse
<1>3. bay \in [BayNames -> Spot]
  BY TypeFacts
<1>4. \A b, x \in BayNames : bay[b].who = p => Freeing(bay[x], Vacated(bay, b)[x], {p})
  BY <1>1, <1>3 DEF Freeing, Vacated
<1>5. \A x \in BayNames : Freeing(bay[x], Freed(bay, p)[x], {p})
  BY <1>1, <1>3 DEF Freeing, Freed
<1>6. ASSUME NEW b \in BayNames \cup {"none"}, NEW x \in BayNames
      PROVE  Freeing(bay[x], Unreserved(bay, b, p)[x], {p})
  <2>1. CASE b # "none" /\ Held(bay[b], p) /\ x = b
    <3>1. Unreserved(bay, b, p)[x] = [bay[x] EXCEPT !.status = "available", !.who = "none"]
      BY <1>3, <2>1 DEF Unreserved
    <3>2. QED
      BY <1>2, <1>3, <2>1, <3>1 DEF Freeing, Held
  <2>2. CASE ~(b # "none" /\ Held(bay[b], p) /\ x = b)
    BY <1>3, <2>2 DEF Unreserved, Freeing
  <2>3. QED
    BY <2>1, <2>2
<1>7. ASSUME NEW ps \in SUBSET Plates, NEW x \in BayNames
      PROVE  Freeing(bay[x], Overdue(ps)[x], ps)
  BY <1>2, <1>3 DEF Freeing, Overdue, Held
<1>8. QED
  BY <1>4, <1>5, <1>6, <1>7

\* Nothing but a repair changes a bay otherwise; one is queued for a bay that works.
Requeued(b) ==
  \/ repair'[b] = repair[b] /\ (b \in pending => b \in pending')
  \/ repair[b] = "none" /\ repair'[b] = "queued" /\ b \in pending' /\ ~bay[b].maint

LEMMA BayFrame ==
  ASSUME NEW b \in BayNames, BayFits(b), NEW ps \in SUBSET Plates, Freeing(bay[b], bay'[b], ps),
         faulty'[b] = faulty[b], Requeued(b),
         Report("fixed", b, "none") \in news' => Report("fixed", b, "none") \in news
  PROVE  BayFits(b)'
<1>1. \A p \in ps : p # "none"
  BY BaysAssumption
<1>2. Named(bay[b])'
  BY <1>1 DEF BayFits, Named, Freeing, InUse
<1>3. RepairFits(b)'
  BY <1>1 DEF BayFits, RepairFits, Freeing, Requeued
<1>4. QED
  BY <1>2, <1>3 DEF BayFits

-----------------------------------------------------------------------------
(* The steps of the simulator.                                             *)

\* One car moves, or its webhooks are sent.
LEMMA CarMoves ==
  ASSUME TypeOK, Ordered, Outside, NEW p \in Plates, UNCHANGED faulty,
         \A q \in Plates \ {p} : pos'[q] = pos[q] /\ goal'[q] = goal[q] /\ inbox'[q] = inbox[q],
         Course(p)',
         pos'[p] = "entry" => pos[p] = "entry" \/ leg[p].step = "none",
         \A c \in calls : c.plate = p => CallFits(c)',
         \A n \in news' : \/ n \in news /\ n.plate # p
                          \/ n.kind = "neglect" /\ NewsFits(n)'
  PROVE  Ordered'
<1>1. UNCHANGED <<bay, pending, sess, leg, calls, repair, listed>>
  BY DEF Outside
<1>2. /\ \A q \in Plates \ {p} : Car(q)'
      /\ \A c \in calls : c.plate \notin {p} => CallFits(c)'
      /\ \A n \in news : n.plate \notin {p} => NewsFits(n)'
  BY <1>1, Others
<1>3. Car(p)'
  BY <1>1, OrderedFacts DEF Car, Shape, Kept, Held, LegFits, Assigned
<1>4. \A n \in news' : NewsFits(n)'
  BY <1>2
<1>5. ASSUME NEW b \in BayNames
      PROVE  BayFits(b)'
  <2>1. Report("fixed", b, "none") \in news' => Report("fixed", b, "none") \in news
    BY EventFields
  <2>2. QED
    BY <1>1, <2>1, BayFrame, OrderedFacts DEF BayFits, Freeing, Requeued
<1>6. (\A c \in calls : CallFits(c))' /\ CallsApart'
  BY <1>1, <1>2, OrderedFacts DEF CallsApart
<1>7. QED
  BY <1>1, <1>2, <1>3, <1>4, <1>5, <1>6, OrderedFacts DEF Ordered

LEMMA CallerAtEntry ==
  ASSUME Ordered, NEW c \in calls
  PROVE  /\ pos[c.plate] = "entry" => inbox[c.plate] = <<>>
         /\ pos[c.plate] # "entry" => pos[c.plate] = "away" /\ inbox[c.plate] = WentIn
         /\ goal[c.plate] = "none"
BY OrderedFacts DEF CallFits

LEMMA PostFacts ==
  ASSUME TypeOK, NEW p \in Plates, NEW ws, Post(p, ws)
  PROVE  inbox'[p] = inbox[p] \o ws /\ \A q \in Plates \ {p} : inbox'[q] = inbox[q]
BY TypeFacts DEF Post

LEMMA ArriveOrder ==
  ASSUME TypeOK, Ordered, NEW p \in Plates, Arrive(p)
  PROVE  Ordered'
<1>1. /\ pos[p] = "away" /\ inbox[p] = <<>> /\ (\A n \in news : n.plate # p) /\ leg[p].step = "none"
      /\ Outside /\ UNCHANGED <<faulty, news>>
  BY DEF Arrive, Settled, NoLeg
<1>2. /\ pos'[p] = "entry" /\ goal'[p] = "none" /\ inbox'[p] = Came
      /\ \A q \in Plates \ {p} : pos'[q] = pos[q] /\ goal'[q] = goal[q] /\ inbox'[q] = inbox[q]
  <2>1. inbox'[p] = <<>> \o Came /\ \A q \in Plates \ {p} : inbox'[q] = inbox[q]
    BY <1>1, PostFacts DEF Arrive, Came
  <2>2. QED
    BY <2>1, TypeFacts, Appended DEF Arrive
<1>3. Absent(p)
  BY <1>1, StageOfPlace, OrderedFacts, HeadsTails DEF Refused
<1>4. Arrived(p)'
  BY <1>1, <1>2, <1>3 DEF Arrived, Absent, GivenUp, Outside
<1>5. \A c \in calls : c.plate # p
  BY <1>1, CallerAtEntry, HeadsTails
<1>6. QED
  BY <1>1, <1>2, <1>4, <1>5, CarMoves DEF Course

LEMMA DriveInOrder ==
  ASSUME TypeOK, Ordered, NEW p \in Plates, DriveIn(p)
  PROVE  Ordered'
<1>1. pos[p] = "entry" /\ goal[p] # "none" /\ Outside /\ UNCHANGED <<goal, faulty, news>>
  BY DEF DriveIn
<1>2. goal[p] \in BayNames /\ Sent(p, goal[p])
  BY <1>1, StageOfPlace, OrderedFacts
<1>3. /\ pos'[p] = "road" /\ inbox'[p] = <<>> \o WentIn
      /\ \A q \in Plates \ {p} : pos'[q] = pos[q] /\ inbox'[q] = inbox[q]
  BY <1>1, <1>2, TypeFacts, PostFacts DEF DriveIn, WentIn, Sent
<1>4. Sent(p, goal[p])'
  BY <1>1, <1>2, <1>3, Appended DEF Sent, Outside, Assigned
<1>5. \A c \in calls : c.plate # p
  BY <1>1, CallerAtEntry
<1>6. \A n \in news : n.plate # p
  BY <1>1, OrderedFacts, BaysAssumption DEF NewsFits
<1>7. Course(p)'
  BY <1>1, <1>2, <1>4 DEF Course
<1>8. QED
  BY <1>1, <1>3, <1>5, <1>6, <1>7, CarMoves

LEMMA NeglectOrder ==
  ASSUME TypeOK, Ordered, NEW p \in Plates, Neglect(p)
  PROVE  Ordered'
<1>1. /\ pos[p] = "entry" /\ goal[p] = "none" /\ Outside /\ UNCHANGED <<goal, faulty>>
      /\ news' = news \cup {Report("neglect", "none", p)}
  BY DEF Neglect
<1>2. /\ pos'[p] = "away" /\ inbox'[p] = inbox[p] \o WentIn
      /\ \A q \in Plates \ {p} : pos'[q] = pos[q] /\ inbox'[q] = inbox[q]
  BY <1>1, TypeFacts, PostFacts DEF Neglect, WentIn
<1>3. Arrived(p) \/ Waits(p)
  BY <1>1, StageOfPlace, OrderedFacts, BaysAssumption DEF Sent
<1>4. \/ Absent(p)' /\ inbox'[p] = TurnedBack
      \/ Refused(p)'
  <2>1. CASE Arrived(p)
    BY <1>1, <1>2, <2>1, Appended DEF Arrived, Absent, GivenUp, Outside
  <2>2. CASE Waits(p)
    BY <1>1, <1>2, <2>2, Appended DEF Waits, Refused, NotParked, Outside
  <2>3. QED
    BY <1>3, <2>1, <2>2
<1>5. ASSUME NEW c \in calls, c.plate = p
      PROVE  CallFits(c)'
  <2>1. inbox'[p] = WentIn
    BY <1>1, <1>2, <1>5, CallerAtEntry, Appended
  <2>2. QED
    BY <1>1, <1>2, <1>5, <2>1, OrderedFacts DEF CallFits, GivenUp, Outside
<1>6. \A n \in news : n.plate # p
  BY <1>1, OrderedFacts, BaysAssumption DEF NewsFits
<1>7. \A n : n = Report("neglect", "none", p) => n.kind = "neglect" /\ NewsFits(n)'
  <2>1. inbox'[p] = TurnedBack \/ inbox'[p] = WentIn
    BY <1>4 DEF Refused
  <2>2. ASSUME NEW n, n = Report("neglect", "none", p)
        PROVE  n.kind = "neglect" /\ n.plate = p
    BY <2>2, EventFields
  <2>3. QED
    BY <1>2, <2>1, <2>2 DEF NewsFits
<1>8. Course(p)'
  BY <1>4 DEF Course
<1>9. QED
  BY <1>1, <1>2, <1>5, <1>6, <1>7, <1>8, CarMoves

LEMMA ParkAtOrder ==
  ASSUME TypeOK, Ordered, NEW p \in Plates, NEW b \in BayNames, ParkAt(p, b), b = goal[p]
  PROVE  Ordered'
<1>1. pos[p] = "road" /\ goal[p] # "none" /\ Outside /\ UNCHANGED <<faulty, news>>
  BY DEF ParkAt
<1>2. Sent(p, b)
  BY <1>1, StageOfPlace, OrderedFacts
<1>3. /\ pos'[p] = b /\ goal'[p] = "none" /\ inbox'[p] = inbox[p] \o Parks(b)
      /\ \A q \in Plates \ {p} : pos'[q] = pos[q] /\ goal'[q] = goal[q] /\ inbox'[q] = inbox[q]
  BY <1>1, TypeFacts, PostFacts DEF ParkAt, Parks
<1>4. inbox'[p] = Parks(b) \/ inbox'[p] = CameIn(b)
  BY <1>2, <1>3, Appended DEF Sent
<1>5. Within(p, b)'
  BY <1>1, <1>2, <1>3, <1>4 DEF Within, Sent, Assigned, Outside
<1>6. \A c \in calls : c.plate # p
  BY <1>1, CallerAtEntry
<1>7. \A n \in news : n.plate # p
  BY <1>1, OrderedFacts, BaysAssumption DEF NewsFits
<1>8. Course(p)'
  BY <1>5 DEF Course
<1>9. b # "entry"
  BY BaysAssumption DEF Places
<1>10. QED
  BY <1>1, <1>3, <1>6, <1>7, <1>8, <1>9, CarMoves

\* No car finds its bay taken, or drives about without one.
LEMMA NoCollision ==
  ASSUME TypeOK, Ordered, NEW p \in Plates
  PROVE  ~Collide(p) /\ ~GiveUp(p)
<1>1. SUFFICES ASSUME pos[p] = "road" PROVE goal[p] # "none" /\ Empty(goal[p])
  BY DEF Collide, GiveUp
<1>2. PICK b \in BayNames : Sent(p, b)
  BY <1>1, StageOfPlace, OrderedFacts
<1>3. goal[p] = b /\ b # "none" /\ b # "road"
  BY <1>2, BaysAssumption DEF Sent, Places
<1>4. ASSUME NEW q \in Plates, pos[q] = b
      PROVE  FALSE
  <2>1. Within(q, b)
    BY <1>4, StageOfPlace, OrderedFacts
  <2>2. q = p
    BY <1>2, <2>1, Owner
  <2>3. QED
    BY <1>1, <1>3, <1>4, <2>2
<1>5. QED
  BY <1>3, <1>4 DEF Empty

LEMMA LeaveOrder ==
  ASSUME TypeOK, Ordered, NEW p \in Plates, Leave(p)
  PROVE  Ordered'
<1>1. pos[p] \in BayNames /\ Outside /\ UNCHANGED <<goal, faulty, news>>
  BY DEF Leave
<1>0. PICK b \in BayNames : pos[p] = b
  BY <1>1
<1>2. Within(p, b)
  BY <1>0, StageOfPlace, OrderedFacts
<1>3. /\ pos'[p] = "away" /\ inbox'[p] = inbox[p] \o Left(b)
      /\ \A q \in Plates \ {p} : pos'[q] = pos[q] /\ inbox'[q] = inbox[q]
  BY <1>0, <1>1, TypeFacts, PostFacts DEF Leave, Left
<1>4. Leaving(p, b)'
  BY <1>1, <1>2, <1>3, Appended DEF Within, Leaving, Assigned, InBay, Outside
<1>5. pos[p] # "entry" /\ pos[p] # "away"
  BY <1>0, BaysAssumption DEF Places
<1>6. \A c \in calls : c.plate # p
  BY <1>5, CallerAtEntry
<1>7. \A n \in news : n.plate # p
  BY <1>5, OrderedFacts, BaysAssumption DEF NewsFits
<1>8. Course(p)'
  BY <1>1, <1>4 DEF Course
<1>9. QED
  BY <1>1, <1>3, <1>6, <1>7, <1>8, CarMoves

\* Bays break and are repaired.
LEMMA FaultOrder ==
  ASSUME TypeOK, Ordered, NEW b \in BayNames, Break(b) \/ Mend(b)
  PROVE  Ordered'
<1>1. UNCHANGED <<pos, goal, inbox, bay, pending, sess, leg, calls, repair, listed>>
  BY DEF Break, Mend, Outside
<1>2. /\ \A q \in Plates : Car(q)'
      /\ \A c \in calls : CallFits(c)'
      /\ \A n \in news : NewsFits(n)'
  BY <1>1, OrderedFacts
     DEF Car, Course, Absent, Arrived, Waits, Refused, Exiting, Sent, Within, Leaving, GivenUp,
         NotParked, Assigned, InBay, Shape, Kept, Held, LegFits, CallFits, NewsFits
<1>3. /\ \A x \in BayNames \ {b} : faulty'[x] = faulty[x]
      /\ \/ faulty[b] = "fine" /\ faulty'[b] = "broken"
            /\ news' = news \cup {Report("broken", b, "none")}
         \/ faulty[b] = "inRepair" /\ repair[b] # "sent" /\ faulty'[b] = "fine"
            /\ news' = news \cup {Report("fixed", b, "none")}
  BY TypeFacts DEF Break, Mend
<1>4. \A n \in news' : NewsFits(n)'
  BY <1>2, <1>3, EventFields DEF NewsFits
<1>5. ASSUME NEW x \in BayNames
      PROVE  BayFits(x)'
  <2>1. CASE x = b
    BY <1>1, <1>3, <2>1, OrderedFacts, EventFields DEF BayFits, RepairFits, Named
  <2>2. CASE x # b
    <3>1. Report("fixed", x, "none") \in news' => Report("fixed", x, "none") \in news
      BY <1>3, <2>2, EventFields
    <3>2. QED
      BY <1>1, <1>3, <2>2, <3>1, BayFrame, OrderedFacts DEF BayFits, Freeing, Requeued
  <2>3. QED
    BY <2>1, <2>2
<1>6. QED
  BY <1>1, <1>2, <1>4, <1>5, OrderedFacts DEF Ordered, CallsApart

-----------------------------------------------------------------------------
(* The steps of dispatch_entry.                                            *)

LEMMA SubsetOfCalls ==
  ASSUME Ordered, calls' \subseteq calls
  PROVE  CallsApart'
BY OrderedFacts DEF CallsApart

\* The sessions of cars that have gone, or never came, end.
LEMMA LateCars ==
  ASSUME TypeOK, Ordered, NEW ps \in SUBSET Plates, Overstay(ps), used'["slow"] = 0,
         NEW q \in ps
  PROVE  pos[q] = "away" /\ inbox[q] = <<>> /\ Absent(q) /\ \A c \in calls : c.plate # q
<1>1. "slow" \in Rare /\ "slow" # "all"
  BY DEF Rare
<1>2. ~Rarely("slow")
  <2>1. SUFFICES ASSUME Rarely("slow") PROVE FALSE
    OBVIOUS
  <2>2. used["slow"] \in Nat
    BY <1>1, TypeFacts
  <2>3. used'["slow"] = used["slow"] + 1
    BY <1>1, <2>1, TypeFacts DEF Rarely
  <2>4. QED
    BY <2>2, <2>3
<1>3. pos[q] = "away" /\ inbox[q] = <<>>
  BY <1>2 DEF Overstay, Settled
<1>4. Absent(q)
  BY <1>3, StageOfPlace, OrderedFacts, HeadsTails DEF Refused
<1>5. \A c \in calls : c.plate # q
  BY <1>3, CallerAtEntry, HeadsTails, BaysAssumption
<1>6. QED
  BY <1>3, <1>4, <1>5

\* A car without a session, that has gone without parking.
LEMMA NobodyFits ==
  ASSUME NEW q \in Plates, sess'[q] = Nobody, pos'[q] = "away", goal'[q] = "none",
         inbox'[q] = <<>> \/ inbox'[q] = TurnedBack \/ inbox'[q] = WentIn
  PROVE  Car(q)'
<1>1. /\ Nobody.id = 0 /\ Nobody.phase = "arrived" /\ Nobody.spot = "none"
      /\ Nobody.stay = "driving"
  BY DEF Nobody
<1>2. Course(q)'
  BY <1>1 DEF Course, Absent, Refused, GivenUp, NotParked
<1>3. Shape(sess[q])' /\ Kept(q)' /\ LegFits(q)'
  BY <1>1 DEF Shape, Kept, LegFits
<1>4. QED
  BY <1>2, <1>3 DEF Car

\* A dispatch begins: nothing is done, or those who are late are archived, and the car,
\* which had no session, gets one.
LEMMA BeginShape ==
  ASSUME IInv, Ordered, NEW c \in calls, Begin(c), ~(calls' = calls \ {c} /\ UNCHANGED <<bay, sess>>)
  PROVE  /\ sess[c.plate].id = 0
         /\ \E late \in SUBSET Plates :
              /\ c.plate \notin late /\ Overstay(late) /\ ids' = ids + 1
              /\ bay' = Overdue(late)
              /\ sess' = [q \in Plates |-> IF q \in late THEN Nobody
                                           ELSE IF q = c.plate THEN [Nobody EXCEPT !.id = ids + 1]
                                           ELSE sess[q]]
              /\ \E s \in {"waits", "goesOn"} : calls' = (calls \ {c}) \cup {[c EXCEPT !.step = s]}
<1> DEFINE p == c.plate
<1>1. TypeOK /\ c \in Call /\ p \in Plates /\ CallFits(c) /\ c.step = "begin"
  BY TypeFacts, CallFacts, OrderedFacts DEF IInv, Begin
<1>2. ~Back(p) /\ sess[p].id = 0
  <2>1. Shape(sess[p]) /\ GivenUp(p)
    BY <1>1, OrderedFacts DEF CallFits
  <2>2. ~Back(p)
    BY <2>1 DEF Shape, GivenUp, Back
  <2>3. active[p] = "none"
    BY <2>2 DEF Begin, parking
  <2>4. sess[p].spot = "none"
    BY <1>1, <2>3 DEF IInv, Agrees
  <2>5. QED
    BY <2>1, <2>2, <2>4 DEF Shape, GivenUp
<1>3. QED
  BY <1>1, <1>2 DEF Begin, parking

LEMMA BeginOrder ==
  ASSUME IInv, Ordered, NEW c \in calls, Begin(c), used'["slow"] = 0
  PROVE  Ordered'
<1> DEFINE p == c.plate
<1>1. /\ TypeOK /\ c \in Call /\ p \in Plates /\ CallFits(c) /\ c.step = "begin"
      /\ bay \in [BayNames -> Spot] /\ sess \in [Plates -> Session] /\ ids \in 0..MaxIds
      /\ UNCHANGED <<pos, goal, faulty, inbox, news, pending, leg, repair, listed>>
  BY TypeFacts, CallFacts, OrderedFacts DEF IInv, Begin, simulator
<1>2. CASE calls' = calls \ {c} /\ UNCHANGED <<bay, sess>>
  <2>1. /\ \A q \in Plates : Car(q)'
        /\ \A d \in calls : CallFits(d)'
        /\ \A n \in news : NewsFits(n)'
    BY <1>1, <1>2, OrderedFacts
       DEF Car, Course, Absent, Arrived, Waits, Refused, Exiting, Sent, Within, Leaving, GivenUp,
           NotParked, Assigned, InBay, Shape, Kept, Held, LegFits, CallFits, NewsFits
  <2>2. \A b \in BayNames : BayFits(b)'
    BY <1>1, <1>2, BayFrame, OrderedFacts DEF BayFits, Freeing, Requeued
  <2>3. QED
    BY <1>1, <1>2, <2>1, <2>2, SubsetOfCalls, OrderedFacts DEF Ordered
<1>3. CASE ~(calls' = calls \ {c} /\ UNCHANGED <<bay, sess>>)
  <2>1. sess[p].id = 0
    BY <1>3, BeginShape
  <2> DEFINE mine == [Nobody EXCEPT !.id = ids + 1]
  <2>2. PICK late \in SUBSET Plates :
          /\ p \notin late /\ Overstay(late) /\ ids' = ids + 1
          /\ bay' = Overdue(late)
          /\ sess' = [q \in Plates |-> IF q \in late THEN Nobody ELSE IF q = p THEN mine ELSE sess[q]]
          /\ \E s \in {"waits", "goesOn"} : calls' = (calls \ {c}) \cup {[c EXCEPT !.step = s]}
    BY <1>3, BeginShape
  <2>3. PICK s \in {"waits", "goesOn"} : calls' = (calls \ {c}) \cup {[c EXCEPT !.step = s]}
    BY <2>2
  <2> DEFINE d == [c EXCEPT !.step = s]
  <2>4. d.plate = p /\ d.step = s /\ d.striped = c.striped /\ d.wish = c.wish
    BY <1>1 DEF Call
  <2> HIDE DEF d, p
  <2>5. /\ sess'[p] = mine /\ (\A q \in late : sess'[q] = Nobody)
        /\ \A q \in Plates \ (late \cup {p}) : sess'[q] = sess[q]
    BY <1>1, <2>2
  <2>6. mine.id # 0 /\ mine.spot = "none" /\ mine.phase = "arrived" /\ mine.stay = "driving"
    BY <1>1 DEF Nobody
  <2> HIDE DEF mine
  <2>7. \A b \in BayNames : Freeing(bay[b], bay'[b], late)
    BY <1>1, <2>2, FreeingFacts
  <2>8. /\ \A q \in Plates \ (late \cup {p}) : Car(q)'
        /\ \A x \in calls : x.plate \notin late \cup {p} => CallFits(x)'
    BY <1>1, <2>5, <2>7, Others DEF Freeing
  <2>9. \A q \in late : pos[q] = "away" /\ inbox[q] = <<>> /\ Absent(q) /\ \A x \in calls : x.plate # q
    BY <1>1, <2>2, LateCars
  <2>10. \A q \in late : Car(q)'
    BY <1>1, <2>5, <2>9, NobodyFits DEF Absent
  <2>11. Car(p)'
    <3>1. Waits(p)' \/ Refused(p)'
      BY <1>1, <2>5, <2>6 DEF CallFits, Waits, Refused, NotParked, p
    <3>2. Shape(sess[p])' /\ Kept(p)'
      BY <2>5, <2>6 DEF Shape, Kept
    <3>3. leg[p].step = "gate" => pos[p] # "entry"
      BY <1>1, <2>1, OrderedFacts DEF LegFits, Assigned, Shape
    <3>4. QED
      BY <1>1, <3>1, <3>2, <3>3 DEF Car, Course, LegFits
  <2>13. \A x \in calls \ {c} : x.plate # p
    BY <1>1, OrderedFacts DEF p
  <2>14. \A x \in calls' : CallFits(x)'
    <3>1. \A x : x = d => CallFits(x)'
      BY <1>1, <2>3, <2>4, <2>5, <2>6 DEF CallFits, p
    <3>2. QED
      BY <2>3, <2>8, <2>9, <2>13, <3>1 DEF d
  <2>15. CallsApart'
    BY <1>1, <2>3, <2>4, <2>13, OrderedFacts DEF CallsApart, d
  <2>16. \A n \in news' : NewsFits(n)'
    BY <1>1, OrderedFacts DEF NewsFits
  <2>17. \A b \in BayNames : BayFits(b)'
    BY <1>1, <2>7, BayFrame, OrderedFacts DEF BayFits, Requeued
  <2>18. QED
    BY <1>1, <2>8, <2>10, <2>11, <2>14, <2>15, <2>16, <2>17, OrderedFacts DEF Ordered
<1>4. QED
  BY <1>2, <1>3

\* A call that goes on is not about to begin; nobody else goes on meanwhile.
LEMMA GoesOn ==
  ASSUME TypeOK, Ordered, NEW c \in calls, Resume(c)
  PROVE  /\ c \in Call /\ c.plate \in Plates /\ CallFits(c) /\ c.step # "begin"
         /\ sess[c.plate].spot = "none" /\ sess[c.plate].phase = "arrived"
         /\ calls' = calls \ {c} /\ \A d \in calls' : d \in calls /\ d.plate # c.plate
         /\ UNCHANGED <<inbox, news, pending, repair, listed>>
<1>1. c \in Call /\ c.plate \in Plates /\ CallFits(c)
  BY TypeFacts, CallFacts, OrderedFacts
<1>2. c.step # "begin"
  BY DEF Resume, Idle
<1>3. sess[c.plate].spot = "none"
  BY <1>1, <1>2 DEF CallFits
<1>4. sess[c.plate].phase = "arrived"
  BY <1>1, <1>3, OrderedFacts DEF Shape
<1>5. calls' = calls \ {c} /\ UNCHANGED <<inbox, news, pending, repair, listed>>
  BY DEF Resume
<1>6. \A d \in calls' : d \in calls /\ d.plate # c.plate
  BY <1>5, OrderedFacts
<1>7. QED
  BY <1>1, <1>2, <1>3, <1>4, <1>5, <1>6

LEMMA CandidateFacts ==
  ASSUME TypeOK, Ordered, NEW b \in Candidates
  PROVE  /\ b \in BayNames /\ bay[b].status = "available" /\ bay[b].who = "none"
         /\ ~bay[b].maint /\ ~bay[b].broken /\ b \notin pending /\ repair[b] = "none"
<1>1. /\ b \in BayNames /\ bay[b].status = "available" /\ ~bay[b].maint /\ ~bay[b].broken
      /\ b \notin pending
  BY DEF Candidates, Dispatchable
<1>2. bay[b].who = "none"
  BY <1>1, OrderedFacts DEF Named, InUse
<1>3. repair[b] = "none"
  BY <1>1, OrderedFacts DEF RepairFits
<1>4. QED
  BY <1>1, <1>2, <1>3

\* Someone is given the bay b.
LEMMA TakenBay ==
  ASSUME TypeOK, Ordered, NEW b \in BayNames, NEW p \in Plates, ~bay[b].maint, repair[b] # "sent",
         bay' = Reserved(bay, b, p) \/ bay' = Occupied(bay, b, p),
         UNCHANGED <<faulty, news, pending, repair>>
  PROVE  /\ \A x \in BayNames : BayFits(x)'
         /\ \A x \in BayNames \ {b} : bay'[x] = bay[x]
         /\ bay'[b].who = p /\ bay'[b].status \in InUse
         /\ bay' = Reserved(bay, b, p) => bay'[b].status = "reserved"
         /\ bay' = Occupied(bay, b, p) => bay'[b].status = "occupied"
<1>1. bay[b] \in Spot /\ bay \in [BayNames -> Spot]
  BY TypeFacts
<1>2. ASSUME NEW st
      PROVE  LET t == [bay[b] EXCEPT !.status = st, !.who = p]
             IN  t.status = st /\ t.who = p /\ ~t.maint
  BY <1>1 DEF Spot
<1>3. \A x \in BayNames \ {b} : bay'[x] = bay[x]
  BY <1>1 DEF Reserved, Occupied
<1>4. /\ bay'[b].who = p /\ ~bay'[b].maint
      /\ \/ bay' = Reserved(bay, b, p) /\ bay'[b].status = "reserved"
         \/ bay' = Occupied(bay, b, p) /\ bay'[b].status = "occupied"
  <2>1. CASE bay' = Reserved(bay, b, p)
    <3>1. bay'[b] = [bay[b] EXCEPT !.status = "reserved", !.who = p]
      BY <1>1, <2>1 DEF Reserved
    <3>2. QED
      BY <1>2, <2>1, <3>1
  <2>2. CASE bay' = Occupied(bay, b, p)
    <3>1. bay'[b] = [bay[b] EXCEPT !.status = "occupied", !.who = p]
      BY <1>1, <2>2 DEF Occupied
    <3>2. QED
      BY <1>2, <2>2, <3>1
  <2>3. QED
    BY <2>1, <2>2
<1>5. ASSUME NEW x \in BayNames
      PROVE  BayFits(x)'
  <2>1. CASE x = b
    <3>1. Named(bay[b])'
      BY <1>4, BaysAssumption DEF Named, InUse
    <3>2. RepairFits(b)'
      BY <1>4, OrderedFacts DEF RepairFits
    <3>3. QED
      BY <2>1, <3>1, <3>2 DEF BayFits
  <2>2. CASE x # b
    BY <1>3, <2>2, BayFrame, OrderedFacts DEF BayFits, Freeing, Requeued
  <2>3. QED
    BY <2>1, <2>2
<1>6. bay' = Reserved(bay, b, p) => bay'[b].status = "reserved"
  BY <1>1, <1>2 DEF Reserved
<1>7. bay' = Occupied(bay, b, p) => bay'[b].status = "occupied"
  BY <1>1, <1>2 DEF Occupied
<1>8. QED
  BY <1>3, <1>4, <1>5, <1>6, <1>7 DEF InUse

LEMMA ReserveOrder ==
  ASSUME TypeOK, Ordered, NEW c \in calls, Resume(c), NEW b \in BayNames, Reserve(c, b)
  PROVE  Ordered'
<1> DEFINE p == c.plate
<1>1. /\ p \in Plates /\ CallFits(c) /\ sess[p].spot = "none" /\ sess[p].phase = "arrived"
      /\ calls' = calls \ {c} /\ \A d \in calls' : d \in calls /\ d.plate # p
      /\ UNCHANGED <<inbox, news, pending, repair, listed, pos, goal, faulty>>
  BY GoesOn DEF Reserve, simulator
<1>2. bay' = Reserved(bay, b, p) /\ bay[b].who = "none" /\ ~bay[b].maint /\ repair[b] = "none"
  BY CandidateFacts DEF Reserve
<1>3. \A q \in Plates : sess'[q] = sess[q] \/ q = p
  <2>1. sess' = sess \/ \E s : sess' = [sess EXCEPT ![p] = s]
    BY DEF Reserve, AssignSpot
  <2>2. QED
    BY <2>1, TypeFacts
<1>4. \A q \in Plates : leg'[q] = leg[q] \/ leg'[q].step # "gate"
  BY DEF Reserve, StartLegs
<1> HIDE DEF p
<1>5. /\ \A x \in BayNames : BayFits(x)'
      /\ \A x \in BayNames \ {b} : bay'[x] = bay[x]
      /\ bay'[b].who = p /\ bay'[b].status = "reserved"
  BY <1>1, <1>2, TakenBay
<1>6. /\ \A q \in Plates \ {p} : Car(q)'
      /\ \A d \in calls : d.plate \notin {p} => CallFits(d)'
  BY <1>1, <1>2, <1>3, <1>4, <1>5, Others
<1>7. Car(p)'
  <2>1. CASE sess[p].id = 0
    <3>1. sess' = sess
      BY <2>1 DEF Reserve, p
    <3>2. Waits(p)' \/ Refused(p)'
      BY <1>1, <3>1 DEF CallFits, Waits, Refused, NotParked, p
    <3>3. Shape(sess[p])' /\ Kept(p)'
      BY <1>1, <3>1, OrderedFacts DEF Shape, Kept
    <3>4. LegFits(p)'
      BY <1>1, <1>4, <3>1, OrderedFacts DEF LegFits, Assigned
    <3>5. QED
      BY <1>1, <3>2, <3>3, <3>4 DEF Car, Course
  <2>2. CASE sess[p].id # 0
    <3>1. /\ sess'[p].spot = b /\ sess'[p].phase = "assigned" /\ sess'[p].id = sess[p].id
          /\ sess'[p].stay = sess[p].stay
      <4>1. sess[p] \in Session /\ sess \in [Plates -> Session]
        BY <1>1, TypeFacts
      <4>2. sess'[p] = [sess[p] EXCEPT !.spot = b, !.phase = "assigned"]
        BY <1>1, <2>2, <4>1 DEF Reserve, AssignSpot, p
      <4>3. QED
        BY <4>1, <4>2 DEF Session
    <3>2. Waits(p)' \/ Refused(p)'
      BY <1>1, <3>1 DEF CallFits, Waits, Refused, NotParked, p
    <3>3. Shape(sess[p])' /\ Kept(p)'
      BY <1>1, <1>5, <2>2, <3>1, OrderedFacts, BaysAssumption DEF Shape, Kept, Held
    <3>4. LegFits(p)'
      BY <1>1, <1>4, OrderedFacts DEF LegFits, Assigned
    <3>5. QED
      BY <1>1, <3>2, <3>3, <3>4 DEF Car, Course
  <2>3. QED
    BY <2>1, <2>2
<1>8. \A n \in news : NewsFits(n)'
  BY <1>1, OrderedFacts DEF NewsFits
<1>9. QED
  BY <1>1, <1>5, <1>6, <1>7, <1>8, SubsetOfCalls, OrderedFacts DEF Ordered

\* No bay for it: the car waits on, or is turned away.
LEMMA NoBayOrder ==
  ASSUME TypeOK, Ordered, NEW c \in calls, Resume(c), NoGate(c) \/ TurnAway(c) \/ Unavailable(c)
  PROVE  Ordered'
<1> DEFINE p == c.plate
<1>1. /\ p \in Plates /\ CallFits(c)
      /\ calls' = calls \ {c} /\ \A d \in calls' : d \in calls /\ d.plate # p
      /\ UNCHANGED <<inbox, news, pending, repair, listed, goal, faulty, bay, leg>>
  BY GoesOn DEF NoGate, TurnAway, Unavailable, simulator
<1>2. /\ \A q \in Plates \ {p} : pos'[q] = pos[q] /\ sess'[q] = sess[q]
      /\ \/ pos'[p] = pos[p] /\ sess'[p] = sess[p]
         \/ pos[p] = "entry" /\ pos'[p] = "away" /\ sess'[p] = Nobody
  BY <1>1, TypeFacts DEF NoGate, TurnAway, Unavailable, simulator, Complete
<1> HIDE DEF p
<1>3. /\ \A q \in Plates \ {p} : Car(q)'
      /\ \A d \in calls : d.plate \notin {p} => CallFits(d)'
      /\ \A n \in news : n.plate \notin {p} => NewsFits(n)'
  BY <1>1, <1>2, Others
<1>4. Car(p)'
  <2>1. CASE pos'[p] = pos[p] /\ sess'[p] = sess[p]
    BY <1>1, <2>1, CarFrame, OrderedFacts DEF Car
  <2>2. CASE pos[p] = "entry" /\ pos'[p] = "away" /\ sess'[p] = Nobody
    <3>1. inbox[p] = <<>> /\ goal[p] = "none"
      BY <2>2, CallerAtEntry DEF p
    <3>2. QED
      BY <1>1, <2>2, <3>1, NobodyFits
  <2>3. QED
    BY <1>2, <2>1, <2>2
<1>5. \A n \in news : NewsFits(n)'
  <2>1. ASSUME NEW n \in news, n.plate = p
        PROVE  NewsFits(n)'
    <3>1. NewsFits(n) /\ p # "none"
      BY <1>1, OrderedFacts, BaysAssumption
    <3>2. pos[p] = "away"
      BY <2>1, <3>1 DEF NewsFits
    <3>3. pos'[p] = "away"
      BY <1>2, <3>2
    <3>4. QED
      BY <1>1, <2>1, <3>1, <3>3 DEF NewsFits
  <2>2. QED
    BY <1>3, <2>1
<1>6. \A b \in BayNames : BayFits(b)'
  BY <1>1, BayFrame, OrderedFacts DEF BayFits, Freeing, Requeued
<1>7. QED
  BY <1>1, <1>3, <1>4, <1>5, <1>6, SubsetOfCalls, OrderedFacts DEF Ordered

-----------------------------------------------------------------------------
(* The legs.                                                               *)

LEMMA LegOrder ==
  ASSUME TypeOK, Ordered, NEW p \in Plates, LegStep(p)
  PROVE  Ordered'
<1>1. /\ UNCHANGED <<inbox, news, bay, pending, sess, calls, repair, listed, pos, faulty>>
      /\ \A c \in calls : c.step = "waits"
      /\ \A q \in Plates \ {p} : goal'[q] = goal[q] /\ leg'[q] = leg[q]
  BY TypeFacts DEF LegStep, LegCheck, LegEnds, LegSends, LegUnchanged, simulator, Goto, Idle
<1>2. Course(p)' /\ (goal'[p] # goal[p] => \A c \in calls : c.plate # p)
  <2>1. CASE goal'[p] = goal[p]
    <3>1. Course(p)'
      BY <1>1, <2>1, OrderedFacts
         DEF Course, Absent, Arrived, Waits, Refused, Exiting, Sent, Within, Leaving, GivenUp,
             NotParked, Assigned, InBay
    <3>2. QED
      BY <2>1, <3>1
  <2>2. CASE goal'[p] # goal[p]
    <3>1. pos[p] = "entry" /\ leg[p].step = "gate" /\ goal'[p] = leg[p].spot
      BY <2>2, TypeFacts DEF LegStep, LegCheck, LegEnds, LegSends, simulator, Goto
    <3>2. PICK b : b = leg[p].spot
      OBVIOUS
    <3>3. Assigned(p, b) /\ ~sess[p].departed /\ Shape(sess[p]) /\ Course(p)
      BY <3>1, <3>2, OrderedFacts DEF LegFits
    <3>4. b \in BayNames
      <4>1. sess[p].spot \in BayNames \cup {"none"}
        BY TypeFacts, SessionFacts
      <4>2. QED
        BY <3>3, <4>1 DEF Assigned, Shape
    <3>5. inbox[p] = <<>>
      <4>1. ~Arrived(p)
        BY <3>3 DEF Arrived, GivenUp, Assigned, Shape
      <4>2. CASE Waits(p)
        BY <4>2 DEF Waits
      <4>3. CASE \E a \in BayNames : Sent(p, a)
        BY <3>1, <4>3 DEF Sent
      <4>4. QED
        BY <3>1, <3>3, <4>1, <4>2, <4>3, StageOfPlace
    <3>6. Sent(p, b)'
      BY <1>1, <3>1, <3>2, <3>3, <3>5 DEF Sent, Assigned
    <3>7. \A c \in calls : c.plate # p
      BY <1>1, <3>3, OrderedFacts DEF CallFits, Assigned, Shape
    <3>8. QED
      BY <3>4, <3>6, <3>7 DEF Course
  <2>3. QED
    BY <2>1, <2>2
<1>3. LegFits(p)'
  <2>1. CASE LegCheck(p)
    <3>1. leg'[p].step = "gate" => leg'[p].spot = leg[p].spot
      BY <2>1, TypeFacts DEF LegCheck, Leg
    <3>2. QED
      BY <1>1, <2>1, <3>1 DEF LegFits, Assigned, LegCheck, LegStands
  <2>2. CASE LegEnds(p) \/ LegSends(p)
    <3>1. leg'[p].step # "gate"
      BY <2>2, TypeFacts DEF LegEnds, LegSends, NoLeg, Leg
    <3>2. QED
      BY <3>1 DEF LegFits
  <2>3. QED
    BY <2>1, <2>2 DEF LegStep
<1>4. /\ \A q \in Plates \ {p} : Car(q)'
      /\ \A c \in calls : c.plate \notin {p} => CallFits(c)'
  BY <1>1, Others
<1>5. Car(p)'
  BY <1>1, <1>2, <1>3, OrderedFacts DEF Car, Shape, Kept, Held
<1>6. \A c \in calls : CallFits(c)'
  <2>1. ASSUME NEW c \in calls, c.plate = p
        PROVE  CallFits(c)'
    BY <1>1, <1>2, <2>1, OrderedFacts DEF CallFits, GivenUp
  <2>2. QED
    BY <1>4, <2>1
<1>7. \A n \in news : NewsFits(n)'
  BY <1>1, OrderedFacts DEF NewsFits
<1>8. \A b \in BayNames : BayFits(b)'
  BY <1>1, BayFrame, OrderedFacts DEF BayFits, Freeing, Requeued
<1>9. QED
  BY <1>1, <1>4, <1>5, <1>6, <1>7, <1>8, OrderedFacts DEF Ordered, CallsApart

\* _ensure_barriers_open only starts legs.
LEMMA EnsureOpenOrder ==
  ASSUME TypeOK, Ordered, EnsureOpen
  PROVE  Ordered'
<1>1. /\ UNCHANGED <<inbox, news, bay, pending, sess, calls, repair, listed, pos, goal, faulty>>
      /\ \A q \in Plates : leg'[q] = leg[q] \/ leg'[q].step # "gate"
  BY DEF EnsureOpen, simulator, parking, StartLegs
<1>2. \A q \in Plates : Car(q)'
  BY <1>1, CarFrame, OrderedFacts DEF Car
<1>3. (\A c \in calls : CallFits(c)') /\ (\A n \in news : NewsFits(n)')
  BY <1>1, OrderedFacts DEF CallFits, GivenUp, NewsFits
<1>4. \A b \in BayNames : BayFits(b)'
  BY <1>1, BayFrame, OrderedFacts DEF BayFits, Freeing, Requeued
<1>5. QED
  BY <1>1, <1>2, <1>3, <1>4, OrderedFacts DEF Ordered, CallsApart

-----------------------------------------------------------------------------
(* Repairs.                                                                *)

\* A step that changes only how far repairs are.
LEMMA RepairFrame ==
  ASSUME TypeOK, Ordered, RepairUnchanged,
         \A b \in BayNames : bay'[b].who = bay[b].who /\ bay'[b].status = bay[b].status,
         \A b \in BayNames : BayFits(b)'
  PROVE  Ordered'
<1>1. UNCHANGED <<pos, goal, inbox, news, sess, leg, calls, listed>>
  BY DEF RepairUnchanged
<1>2. \A q \in Plates : Car(q)'
  BY <1>1, CarFrame, OrderedFacts DEF Car
<1>3. (\A c \in calls : CallFits(c)') /\ (\A n \in news : NewsFits(n)')
  BY <1>1, OrderedFacts DEF CallFits, GivenUp, NewsFits
<1>4. QED
  BY <1>1, <1>2, <1>3, OrderedFacts DEF Ordered, CallsApart

LEMMA QueueFacts ==
  ASSUME TypeOK, NEW b \in BayNames, QueueRepair(bay, b) \/ PopReady(b)
  PROVE  \A x \in BayNames : Requeued(x)
BY TypeFacts DEF QueueRepair, PopReady, Requeued

LEMMA RepairOrder ==
  ASSUME TypeOK, Ordered, NEW b \in BayNames, Maintain(b) \/ RepairStep(b), ~RepairAnswered(b)
  PROVE  Ordered'
<1>1. RepairUnchanged /\ UNCHANGED bay
  BY DEF Maintain, RepairStep, RepairPutOff, RepairSent, RepairRetried, RepairDropped
<1>2. UNCHANGED news
  BY <1>1 DEF RepairUnchanged
<1>3. ASSUME NEW x \in BayNames
      PROVE  BayFits(x)'
  <2>1. CASE Maintain(b)
    BY <1>1, <1>2, <2>1, QueueFacts, BayFrame, OrderedFacts DEF Maintain, BayFits, Freeing
  <2>2. CASE RepairStep(b) /\ x # b
    <3>1. repair'[x] = repair[x] /\ faulty'[x] = faulty[x] /\ (x \in pending => x \in pending')
      BY <2>2, TypeFacts
         DEF RepairStep, RepairPutOff, RepairSent, RepairAnswered, RepairRetried, RepairDropped
    <3>2. QED
      BY <1>1, <1>2, <3>1, BayFrame, OrderedFacts DEF BayFits, Freeing, Requeued
  <2>3. CASE RepairStep(b) /\ x = b
    <3>1. \/ repair'[b] = "none" /\ faulty'[b] = faulty[b]
             /\ (repair[b] = "sent" => faulty[b] # "inRepair")
          \/ repair'[b] = "queued" /\ repair[b] = "sent" /\ faulty'[b] = faulty[b]
             /\ faulty[b] # "inRepair" /\ pending' = pending
          \/ repair[b] = "queued" /\ repair'[b] = "sent" /\ pending' = pending /\ bay[b].who = "none"
             /\ (faulty'[b] = faulty[b] \/ faulty'[b] = "inRepair")
      BY <2>3, TypeFacts
         DEF RepairStep, RepairPutOff, RepairSent, RepairRetried, RepairDropped, Taken
    <3>2. RepairFits(b) /\ Named(bay[b])
      BY OrderedFacts
    <3>3. RepairFits(b)'
      BY <1>1, <1>2, <3>1, <3>2 DEF RepairFits
    <3>4. QED
      BY <1>1, <2>3, <3>2, <3>3 DEF BayFits, Named
  <2>4. QED
    BY <2>1, <2>2, <2>3
<1>4. QED
  BY <1>1, <1>3, RepairFrame

\* The simulator has begun: the bay is in maintenance.
LEMMA AnsweredOrder ==
  ASSUME TypeOK, Ordered, NEW b \in BayNames, RepairAnswered(b)
  PROVE  Ordered'
<1>1. /\ repair[b] = "sent" /\ faulty[b] = "inRepair" /\ repair'[b] = "none"
      /\ UNCHANGED <<faulty, news, pos, goal, inbox, sess, leg, calls, listed>>
      /\ \A x \in BayNames \ {b} : bay'[x] = bay[x] /\ repair'[x] = repair[x]
      /\ pending' = pending \ {b}
  BY TypeFacts DEF RepairAnswered, RepairUnchanged
<1>2. bay'[b].who = "none" /\ bay'[b].status = "maintenance" /\ bay'[b].maint /\ bay[b].who = "none"
  <2>1. bay[b] \in Spot /\ bay'[b] = [bay[b] EXCEPT !.maint = TRUE, !.status = "maintenance"]
    BY TypeFacts DEF RepairAnswered
  <2>2. bay[b].who = "none"
    BY <1>1, OrderedFacts DEF RepairFits
  <2>3. QED
    BY <2>1, <2>2 DEF Spot
<1>3. ASSUME NEW x \in BayNames
      PROVE  BayFits(x)'
  <2>1. CASE x = b
    <3>1. Named(bay[b])'
      BY <1>2 DEF Named, InUse
    <3>2. Report("fixed", b, "none") \notin news
      BY <1>1, OrderedFacts DEF RepairFits
    <3>3. RepairFits(b)'
      BY <1>1, <1>2, <3>2 DEF RepairFits
    <3>4. QED
      BY <2>1, <3>1, <3>3 DEF BayFits
  <2>2. CASE x # b
    BY <1>1, <2>2, BayFrame, OrderedFacts DEF BayFits, Freeing, Requeued
  <2>3. QED
    BY <2>1, <2>2
<1>4. /\ \A q \in Plates \ {} : Car(q)'
      /\ \A c \in calls : c.plate \notin {} => CallFits(c)'
      /\ \A n \in news : n.plate \notin {} => NewsFits(n)'
  BY <1>1, <1>2, Others
<1>5. QED
  BY <1>1, <1>3, <1>4, OrderedFacts DEF Ordered, CallsApart

-----------------------------------------------------------------------------
(* The webhooks of a car.                                                  *)

LEMMA HandleFacts ==
  ASSUME TypeOK, Ordered, NEW p \in Plates, NEW kind, NEW b, Handle(p, kind, b)
  PROVE  /\ inbox[p] # <<>> /\ Head(inbox[p]) = Event(kind, b) /\ inbox'[p] = Tail(inbox[p])
         /\ \A q \in Plates \ {p} : inbox'[q] = inbox[q]
         /\ \A c \in calls : c.step = "waits" /\ c.plate # p
         /\ UNCHANGED <<pos, goal, faulty, news, leg, listed>>
         /\ Course(p) /\ Shape(sess[p]) /\ Kept(p) /\ LegFits(p)
<1>1. \A c \in calls : c.step = "waits" /\ c.plate # p
  BY OrderedFacts DEF Handle, Idle, CallFits
<1>2. inbox'[p] = Tail(inbox[p]) /\ \A q \in Plates \ {p} : inbox'[q] = inbox[q]
  BY TypeFacts DEF Handle
<1>3. QED
  BY <1>1, <1>2, OrderedFacts DEF Handle, simulator

LEMMA HandledNews ==
  ASSUME TypeOK, Ordered, NEW p \in Plates, NEW kind, NEW b, Handle(p, kind, b)
  PROVE  \A n \in news : NewsFits(n)'
<1>1. /\ inbox[p] # <<>> /\ inbox'[p] = Tail(inbox[p]) /\ pos' = pos
      /\ \A q \in Plates \ {p} : inbox'[q] = inbox[q]
  BY HandleFacts
<1>2. ASSUME NEW n \in news
      PROVE  NewsFits(n)'
  <2>1. NewsFits(n) /\ n.plate \in Plates \cup {"none"}
    BY TypeFacts, OrderedFacts DEF News
  <2>2. CASE n.plate = p
    <3>1. inbox'[p] = WentIn \/ inbox'[p] = <<>>
      BY <1>1, <2>1, <2>2, HeadsTails, BaysAssumption DEF NewsFits
    <3>2. QED
      BY <1>1, <2>1, <2>2, <3>1 DEF NewsFits
  <2>3. CASE n.plate # p
    BY <1>1, <2>1, <2>3 DEF NewsFits
  <2>4. QED
    BY <2>2, <2>3
<1>3. QED
  BY <1>2

\* A handler of car p's webhook, but for what it does to p and the bays.
LEMMA HandlerFrame ==
  ASSUME TypeOK, Ordered, NEW p \in Plates, NEW kind, NEW b, Handle(p, kind, b),
         \A q \in Plates \ {p} : sess'[q] = sess[q], calls' = calls,
         \A x \in BayNames : \/ bay[x].who \in {p} \cup {"none"}
                             \/ bay'[x].who = bay[x].who /\ bay'[x].status = bay[x].status,
         \A x \in BayNames : BayFits(x)',
         Car(p)'
  PROVE  Ordered'
<1>1. /\ \A q \in Plates \ {p} : inbox'[q] = inbox[q]
      /\ \A c \in calls : c.plate # p
      /\ UNCHANGED <<pos, goal, news, leg, listed>>
  BY HandleFacts
<1>2. /\ \A q \in Plates \ {p} : Car(q)'
      /\ \A c \in calls : c.plate \notin {p} => CallFits(c)'
  BY <1>1, Others
<1>3. \A n \in news : NewsFits(n)'
  BY HandledNews
<1>4. QED
  BY <1>1, <1>2, <1>3, OrderedFacts DEF Ordered, CallsApart

LEMMA EntryInOrder ==
  ASSUME TypeOK, Ordered, NEW p \in Plates, EntryIn(p)
  PROVE  Ordered'
<1>1. Handle(p, "entry", "none") /\ calls' = Dispatch(p, TRUE, "none")
      /\ UNCHANGED <<bay, sess, pending, repair>>
  BY DEF EntryIn, parking
<1>2. /\ inbox[p] # <<>> /\ Head(inbox[p]) = Event("entry", "none") /\ inbox'[p] = Tail(inbox[p])
      /\ \A q \in Plates \ {p} : inbox'[q] = inbox[q]
      /\ \A c \in calls : c.step = "waits" /\ c.plate # p
      /\ UNCHANGED <<pos, goal, faulty, news, leg, listed>>
      /\ Course(p) /\ Shape(sess[p]) /\ Kept(p) /\ LegFits(p)
  BY <1>1, HandleFacts
<1>3. /\ \A q \in Plates \ {p} : Car(q)'
      /\ \A c \in calls : c.plate \notin {p} => CallFits(c)'
  BY <1>1, <1>2, Others
<1>4. Arrived(p) \/ (Absent(p) /\ inbox[p] = TurnedBack)
  <2>1. CASE BayNames = {}
    BY <1>2, <2>1, HeadsTails, EventFields
       DEF Course, Absent, Arrived, Waits, Refused, Exiting
  <2>2. CASE BayNames # {}
    BY <1>2, <2>2, StageOfHead
  <2>3. QED
    BY <2>1, <2>2
<1>5. GivenUp(p) /\ NotParked(p) /\ goal[p] = "none"
  BY <1>2, <1>4 DEF Arrived, Absent, GivenUp, NotParked, Shape
<1>6. (Waits(p) \/ Refused(p))'
  BY <1>1, <1>2, <1>4, <1>5, HeadsTails DEF Arrived, Absent, Waits, Refused, NotParked
<1>7. Car(p)'
  BY <1>1, <1>2, <1>6 DEF Car, Course, Shape, Kept, Held, LegFits, Assigned
<1>8. \A n \in news : NewsFits(n)'
  BY <1>1, HandledNews
<1> DEFINE d == [plate |-> p, striped |-> TRUE, wish |-> "none", step |-> "begin"]
<1>9. /\ d.plate = p /\ d.striped /\ d.wish = "none" /\ d.step = "begin"
      /\ calls' = calls \cup {d}
  BY <1>1 DEF Dispatch
<1> HIDE DEF d
<1>10. \A c : c = d => CallFits(c)'
  BY <1>1, <1>2, <1>5, <1>6, <1>9 DEF CallFits, GivenUp, Waits, Refused
<1>11. \A c \in calls' : CallFits(c)'
  BY <1>2, <1>3, <1>9, <1>10
<1>12. CallsApart'
  BY <1>2, <1>9, OrderedFacts DEF CallsApart
<1>13. \A b \in BayNames : BayFits(b)'
  BY <1>1, <1>2, BayFrame, OrderedFacts DEF BayFits, Freeing, Requeued
<1>14. QED
  BY <1>2, <1>3, <1>7, <1>8, <1>11, <1>12, <1>13, OrderedFacts DEF Ordered

LEMMA EntryOutOrder ==
  ASSUME TypeOK, Ordered, NEW p \in Plates, EntryOut(p)
  PROVE  Ordered'
<1>1. Handle(p, "entryOut", "none") /\ UNCHANGED <<bay, pending, repair, calls>>
  BY DEF EntryOut
<1>2. /\ inbox[p] # <<>> /\ Head(inbox[p]) = Event("entryOut", "none") /\ inbox'[p] = Tail(inbox[p])
      /\ UNCHANGED <<pos, goal, faulty, news, leg, listed>>
      /\ Course(p) /\ Shape(sess[p]) /\ Kept(p) /\ LegFits(p)
  BY <1>1, HandleFacts
<1>3. /\ \A q \in Plates \ {p} : sess'[q] = sess[q]
      /\ \/ sess[p].id # 0 /\ sess[p].spot = "none" /\ sess'[p] = Nobody
         \/ sess[p].id = 0 /\ sess'[p] = sess[p]
         \/ sess[p].id # 0 /\ sess[p].spot # "none" /\ sess'[p] = [sess[p] EXCEPT !.departed = TRUE]
  BY TypeFacts DEF EntryOut, Complete
<1>4. \/ Refused(p)
      \/ \E a \in BayNames : \/ Leaving(p, a) /\ inbox[p] = WasIn(a)
                             \/ Sent(p, a) /\ inbox[p] = WentIn
                             \/ Within(p, a) /\ inbox[p] = CameIn(a)
  <2>1. CASE BayNames = {}
    BY <1>2, <2>1, HeadsTails, EventFields
       DEF Course, Absent, Arrived, Waits, Refused, Exiting
  <2>2. CASE BayNames # {}
    BY <1>2, <2>2, StageOfHead
  <2>3. QED
    BY <2>1, <2>2
<1>5. sess[p].id # 0 /\ sess[p].spot # "none" =>
        /\ sess'[p].phase = sess[p].phase /\ sess'[p].spot = sess[p].spot /\ sess'[p].stay = sess[p].stay
        /\ sess'[p].id = sess[p].id /\ sess'[p].departed
  BY <1>3, TypeFacts DEF Session
<1>6. Car(p)'
  <2>1. CASE Refused(p) /\ sess'[p] = Nobody
    BY <1>2, <2>1, HeadsTails, NobodyFits DEF Refused
  <2>2. CASE Refused(p) /\ sess[p].id = 0 /\ sess'[p] = sess[p]
    <3>1. Absent(p)'
      BY <1>2, <2>2, HeadsTails DEF Refused, Absent, GivenUp
    <3>2. LegFits(p)'
      BY <1>2, <2>2, <3>1 DEF LegFits, Absent
    <3>3. QED
      BY <1>1, <1>2, <2>2, <3>1, <3>2 DEF Car, Course, Shape, Kept, Held
  <2>3. CASE sess[p].id # 0 /\ sess[p].spot # "none"
    <3>1. Shape(sess[p])' /\ Kept(p)'
      BY <1>1, <1>2, <1>5, <2>3 DEF Shape, Kept, Held
    <3>2. CASE Refused(p)
      <4>0. sess[p].phase = "assigned"
        <5>1. sess[p].phase \in {"arrived", "assigned", "parked"}
          BY TypeFacts DEF Session
        <5>2. QED
          BY <1>2, <2>3, <3>2, <5>1 DEF Shape, Refused, NotParked
      <4>1. Absent(p)'
        BY <1>2, <1>5, <2>3, <3>2, <4>0, HeadsTails DEF Refused, Absent, GivenUp
      <4>2. QED
        BY <3>1, <4>1 DEF Car, Course, LegFits, Absent
    <3>3. ASSUME NEW a \in BayNames, Leaving(p, a), inbox[p] = WasIn(a)
          PROVE  Leaving(p, a)' /\ pos'[p] # "entry"
      BY <1>2, <1>5, <2>3, <3>3, HeadsTails DEF Leaving, Assigned, InBay
    <3>4. ASSUME NEW a \in BayNames, Sent(p, a), inbox[p] = WentIn
          PROVE  Sent(p, a)' /\ pos'[p] # "entry"
      BY <1>2, <1>5, <2>3, <3>4, HeadsTails DEF Sent, Assigned
    <3>5. ASSUME NEW a \in BayNames, Within(p, a), inbox[p] = CameIn(a)
          PROVE  Within(p, a)' /\ pos'[p] # "entry"
      BY <1>2, <1>5, <2>3, <3>5, HeadsTails, BaysAssumption DEF Within, Assigned, InBay, Places
    <3>6. CASE ~Refused(p)
      <4>1. Course(p)' /\ pos'[p] # "entry"
        BY <1>4, <3>3, <3>4, <3>5, <3>6 DEF Course
      <4>2. QED
        BY <3>1, <4>1 DEF Car, LegFits
    <3>7. QED
      BY <3>2, <3>6
  <2>4. CASE ~Refused(p)
    <3>1. sess[p].phase # "arrived"
      BY <1>2, <1>4, <2>4 DEF Leaving, Sent, Within, Assigned, InBay
    <3>2. QED
      BY <1>2, <2>3, <3>1 DEF Shape
  <2>5. QED
    BY <1>3, <2>1, <2>2, <2>3, <2>4
<1>7. \A b \in BayNames : BayFits(b)'
  BY <1>1, <1>2, BayFrame, OrderedFacts DEF BayFits, Freeing, Requeued
<1>8. QED
  BY <1>1, <1>3, <1>6, <1>7, HandlerFrame

\* A car is reported parked in the bay it was promised.
LEMMA ParkInShape ==
  ASSUME TypeOK, Ordered, NEW p \in Plates, NEW b \in BayNames, ParkIn(p, b)
  PROVE  /\ \/ Leaving(p, b) /\ inbox[p] = Parked(b)
            \/ Within(p, b) /\ inbox[p] = Parks(b)
         /\ Assigned(p, b) /\ bay[b].who = p /\ ~bay[b].maint /\ repair[b] # "sent"
         /\ bay' = Occupied(bay, b, p)
         /\ sess'[p].phase = "parked" /\ sess'[p].stay = "parked" /\ sess'[p].spot = b
         /\ sess'[p].id # 0 /\ \A q \in Plates \ {p} : sess'[q] = sess[q]
<1>1. /\ Handle(p, "park", b) /\ UNCHANGED <<pending, repair, calls>> /\ bay' = Moved(bay, p, b)
  BY DEF ParkIn
<1>2. /\ inbox[p] # <<>> /\ Head(inbox[p]) = Event("park", b) /\ inbox'[p] = Tail(inbox[p])
      /\ UNCHANGED <<pos, goal, faulty, news, leg, listed>>
      /\ Course(p) /\ Shape(sess[p]) /\ Kept(p) /\ LegFits(p)
  BY <1>1, HandleFacts
<1>3. \/ Leaving(p, b) /\ inbox[p] = Parked(b)
      \/ Within(p, b) /\ inbox[p] = Parks(b)
  BY <1>2, StageOfHead
<1>4. Assigned(p, b)
  <2>1. Left(b) # Parked(b) /\ Parks(b) # <<>>
    BY HeadsTails, EventFields
  <2>2. QED
    BY <1>3, <2>1 DEF Leaving, Within
<1>5. bay[b].who = p /\ ~bay[b].maint /\ repair[b] # "sent" /\ sess[p].id # 0 /\ sess[p].spot = b
  BY <1>3, Owner
<1>6. bay' = Occupied(bay, b, p)
  BY <1>1, <1>5 DEF Moved
<1>7. /\ sess'[p].phase = "parked" /\ sess'[p].stay = "parked" /\ sess'[p].spot = b /\ sess'[p].id # 0
      /\ \A q \in Plates \ {p} : sess'[q] = sess[q]
  <2>1. sess[p] \in Session /\ sess \in [Plates -> Session] /\ sess[p].stay = "driving"
    BY <1>2, <1>4, TypeFacts DEF Shape, Assigned
  <2>2. sess' = [sess EXCEPT ![p] = [sess[p] EXCEPT !.spot = b, !.phase = "parked",
                    !.stay = IF @ = "driving" THEN "parked" ELSE @]]
    BY <1>5 DEF ParkIn
  <2> DEFINE x == [sess[p] EXCEPT !.spot = b, !.phase = "parked",
                    !.stay = IF @ = "driving" THEN "parked" ELSE @]
  <2>3. x.phase = "parked" /\ x.stay = "parked" /\ x.spot = b /\ x.id = sess[p].id
    BY <2>1 DEF Session
  <2> HIDE DEF x
  <2>4. sess'[p] = x /\ \A q \in Plates \ {p} : sess'[q] = sess[q]
    BY <2>1, <2>2 DEF x
  <2>5. QED
    BY <1>5, <2>3, <2>4
<1>8. QED
  BY <1>3, <1>4, <1>5, <1>6, <1>7

LEMMA ParkInOrder ==
  ASSUME TypeOK, Ordered, NEW p \in Plates, NEW b \in BayNames, ParkIn(p, b)
  PROVE  Ordered'
<1>1. /\ Handle(p, "park", b) /\ UNCHANGED <<pending, repair, calls>> /\ bay' = Moved(bay, p, b)
  BY DEF ParkIn
<1>2. /\ inbox[p] # <<>> /\ Head(inbox[p]) = Event("park", b) /\ inbox'[p] = Tail(inbox[p])
      /\ UNCHANGED <<pos, goal, faulty, news, leg, listed>>
      /\ Course(p) /\ Shape(sess[p]) /\ Kept(p) /\ LegFits(p)
  BY <1>1, HandleFacts
<1>3. \/ Leaving(p, b) /\ inbox[p] = Parked(b)
      \/ Within(p, b) /\ inbox[p] = Parks(b)
  BY ParkInShape
<1>5. bay[b].who = p /\ ~bay[b].maint /\ repair[b] # "sent" /\ bay' = Occupied(bay, b, p)
  BY ParkInShape
<1>7. /\ sess'[p].phase = "parked" /\ sess'[p].stay = "parked" /\ sess'[p].spot = b /\ sess'[p].id # 0
      /\ \A q \in Plates \ {p} : sess'[q] = sess[q]
  BY ParkInShape
<1>8. /\ \A x \in BayNames : BayFits(x)'
      /\ \A x \in BayNames \ {b} : bay'[x] = bay[x]
      /\ bay'[b].who = p /\ bay'[b].status = "occupied"
  BY <1>1, <1>2, <1>5, TakenBay
<1>9. Leaving(p, b)' \/ Within(p, b)'
  BY <1>2, <1>3, <1>7, HeadsTails DEF Leaving, Within, InBay
<1>10. pos'[p] # "entry"
  BY <1>9, BaysAssumption DEF Leaving, Within, Places
<1>11. Car(p)'
  BY <1>7, <1>8, <1>9, <1>10, BaysAssumption DEF Car, Course, Shape, Kept, LegFits
<1>12. \A x \in BayNames : \/ bay[x].who \in {p} \cup {"none"}
                           \/ bay'[x].who = bay[x].who /\ bay'[x].status = bay[x].status
  BY <1>5, <1>8
<1>13. QED
  BY <1>1, <1>7, <1>8, <1>11, <1>12, HandlerFrame

\* A car is reported gone from the bay it had.
LEMMA ParkOutShape ==
  ASSUME TypeOK, Ordered, NEW p \in Plates, NEW b \in BayNames, ParkOut(p, b)
  PROVE  /\ Leaving(p, b) /\ inbox[p] = Left(b) /\ bay[b].who = p /\ InBay(p, b)
         /\ bay' = Vacated(bay, b)
         /\ sess'[p].phase = "parked" /\ sess'[p].stay = "left"
         /\ sess'[p].id # 0 /\ sess'[p].spot # "none"
         /\ \A q \in Plates \ {p} : sess'[q] = sess[q]
<1>1. /\ Handle(p, "left", b) /\ calls' = calls /\ bay' = Vacated(bay, b) /\ PopReady(b)
  BY DEF ParkOut
<1>2. /\ inbox[p] # <<>> /\ Head(inbox[p]) = Event("left", b) /\ inbox'[p] = Tail(inbox[p])
      /\ UNCHANGED <<pos, goal, faulty, news, leg, listed>>
      /\ Course(p) /\ Shape(sess[p]) /\ Kept(p) /\ LegFits(p)
  BY <1>1, HandleFacts
<1>3. Leaving(p, b) /\ inbox[p] = Left(b)
  BY <1>2, StageOfHead
<1>4. bay[b].who = p /\ sess[p].id # 0 /\ InBay(p, b)
  <2>1. Left(b) # Parked(b) /\ Left(b) # WasIn(b)
    BY HeadsTails, EventFields
  <2>2. QED
    BY <1>3, <2>1, Owner DEF Leaving
<1>5. /\ sess'[p].phase = "parked" /\ sess'[p].stay = "left" /\ sess'[p].id # 0 /\ sess'[p].spot # "none"
      /\ \A q \in Plates \ {p} : sess'[q] = sess[q]
  <2>1. sess[p] \in Session /\ sess \in [Plates -> Session]
    BY TypeFacts
  <2>2. sess'[p] = [sess[p] EXCEPT !.stay = "left"] /\ \A q \in Plates \ {p} : sess'[q] = sess[q]
    BY <1>4, <2>1 DEF ParkOut
  <2>3. QED
    BY <1>4, <2>1, <2>2, BaysAssumption DEF Session, InBay
<1>6. QED
  BY <1>1, <1>3, <1>4, <1>5

LEMMA ParkOutOrder ==
  ASSUME TypeOK, Ordered, NEW p \in Plates, NEW b \in BayNames, ParkOut(p, b)
  PROVE  Ordered'
<1>1. /\ Handle(p, "left", b) /\ calls' = calls /\ bay' = Vacated(bay, b) /\ PopReady(b)
  BY DEF ParkOut
<1>2. /\ inbox[p] # <<>> /\ Head(inbox[p]) = Event("left", b) /\ inbox'[p] = Tail(inbox[p])
      /\ UNCHANGED <<pos, goal, faulty, news, leg, listed>>
      /\ Course(p) /\ Shape(sess[p]) /\ Kept(p) /\ LegFits(p)
  BY <1>1, HandleFacts
<1>3. Leaving(p, b) /\ inbox[p] = Left(b) /\ bay[b].who = p
  BY ParkOutShape
<1>5. /\ sess'[p].phase = "parked" /\ sess'[p].stay = "left" /\ sess'[p].id # 0 /\ sess'[p].spot # "none"
      /\ \A q \in Plates \ {p} : sess'[q] = sess[q]
  BY ParkOutShape
<1>6. \A x \in BayNames : Freeing(bay[x], bay'[x], {p})
  BY <1>1, <1>3, FreeingFacts
<1>7. \A x \in BayNames : BayFits(x)'
  <2>1. \A x \in BayNames : Requeued(x)
    BY <1>1, QueueFacts
  <2>2. QED
    BY <1>2, <1>6, <2>1, BayFrame, OrderedFacts, {p} \in SUBSET Plates DEF BayFits, Requeued
<1>8. Exiting(p)'
  BY <1>2, <1>3, <1>5, HeadsTails DEF Leaving, Exiting
<1>9. Car(p)'
  BY <1>5, <1>8 DEF Car, Course, Shape, Kept, LegFits, Exiting
<1>10. \A x \in BayNames : \/ bay[x].who \in {p} \cup {"none"}
                           \/ bay'[x].who = bay[x].who /\ bay'[x].status = bay[x].status
  BY <1>6 DEF Freeing
<1>11. QED
  BY <1>1, <1>5, <1>7, <1>9, <1>10, HandlerFrame

LEMMA GoneOrder ==
  ASSUME TypeOK, Ordered, NEW p \in Plates, Gone(p)
  PROVE  Ordered'
<1>1. Handle(p, "gone", "none") /\ UNCHANGED <<pending, repair, calls>>
  BY DEF Gone
<1>2. /\ inbox[p] # <<>> /\ Head(inbox[p]) = Event("gone", "none") /\ inbox'[p] = Tail(inbox[p])
      /\ UNCHANGED <<pos, goal, faulty, news, leg, listed>>
      /\ Course(p) /\ Shape(sess[p]) /\ Kept(p) /\ LegFits(p)
  BY <1>1, HandleFacts
<1>3. Exiting(p)
  <2>1. CASE BayNames = {}
    BY <1>2, <2>1, HeadsTails, EventFields
       DEF Course, Absent, Arrived, Waits, Refused, Exiting
  <2>2. CASE BayNames # {}
    BY <1>2, <2>2, StageOfHead
  <2>3. QED
    BY <2>1, <2>2
<1>4. sess'[p] = Nobody /\ (\A q \in Plates \ {p} : sess'[q] = sess[q]) /\ bay' = Freed(bay, p)
  BY <1>2, <1>3, TypeFacts DEF Gone, Complete, Exiting, Shape
<1>5. Car(p)'
  BY <1>2, <1>3, <1>4, HeadsTails, NobodyFits DEF Exiting
<1>6. \A x \in BayNames : Freeing(bay[x], bay'[x], {p})
  BY <1>4, FreeingFacts
<1>7. \A x \in BayNames : BayFits(x)'
  BY <1>1, <1>2, <1>6, BayFrame, OrderedFacts DEF BayFits, Requeued
<1>8. \A x \in BayNames : \/ bay[x].who \in {p} \cup {"none"}
                          \/ bay'[x].who = bay[x].who /\ bay'[x].status = bay[x].status
  BY <1>6 DEF Freeing
<1>9. QED
  BY <1>1, <1>4, <1>5, <1>7, <1>8, HandlerFrame

-----------------------------------------------------------------------------
(* Component and penalty webhooks, and the wear check.                     *)

LEMMA BayNewsOrder ==
  ASSUME TypeOK, Ordered, NEW b \in BayNames, BayBroken(b) \/ BayFixed(b)
  PROVE  Ordered'
<1>1. /\ UNCHANGED <<pos, goal, faulty, inbox, sess, leg, calls, listed>> /\ news' \subseteq news
  BY DEF BayBroken, BayFixed, HandleNews, simulator
<1>2. bay[b] \in Spot /\ bay \in [BayNames -> Spot] /\ Named(bay[b]) /\ RepairFits(b)
  BY TypeFacts, OrderedFacts
<1>3. \A x \in BayNames \ {b} : bay'[x] = bay[x]
  BY <1>2 DEF BayBroken, BayFixed
<1>4. /\ bay'[b].who = bay[b].who /\ (bay[b].who # "none" => bay'[b].status = bay[b].status)
      /\ Named(bay[b])' /\ (bay'[b].maint => bay[b].maint)
  <2>1. CASE BayBroken(b)
    <3>1. bay'[b] = SetBroken(bay[b])
      BY <1>2, <2>1 DEF BayBroken
    <3>2. QED
      BY <1>2, <3>1 DEF SetBroken, Spot, Named, InUse
  <2>2. CASE BayFixed(b)
    <3>1. bay'[b] = SetFixed(bay[b])
      BY <1>2, <2>2 DEF BayFixed
    <3>2. QED
      BY <1>2, <3>1 DEF SetFixed, Spot, Named, InUse
  <2>3. QED
    BY <2>1, <2>2
<1>5. ASSUME NEW x \in BayNames
      PROVE  BayFits(x)'
  <2>1. CASE BayBroken(b) /\ x = b
    <3>1. bay'[b].maint <=> bay[b].maint
      <4>1. bay'[b] = SetBroken(bay[b])
        BY <1>2, <2>1 DEF BayBroken
      <4>2. QED
        BY <1>2, <4>1 DEF SetBroken, Spot
    <3>2. Requeued(b)
      BY <2>1, <3>1, TypeFacts DEF BayBroken, QueueRepair, Requeued
    <3>3. RepairFits(b)'
      BY <1>1, <1>2, <1>4, <3>1, <3>2 DEF RepairFits, Requeued
    <3>4. QED
      BY <1>4, <2>1, <3>3 DEF BayFits
  <2>2. CASE BayFixed(b) /\ x = b
    <3>1. /\ Report("fixed", b, "none") \in news /\ news' = news \ {Report("fixed", b, "none")}
          /\ repair' = repair
      BY <2>2 DEF BayFixed, HandleNews
    <3>2. ~bay'[b].maint
      <4>1. bay'[b] = SetFixed(bay[b])
        BY <1>2, <2>2 DEF BayFixed
      <4>2. QED
        BY <1>2, <4>1 DEF SetFixed, Spot
    <3>3. RepairFits(b)'
      BY <1>1, <1>2, <1>4, <3>1, <3>2 DEF RepairFits
    <3>4. QED
      BY <1>4, <2>2, <3>3 DEF BayFits
  <2>3. CASE x # b
    <3>1. repair'[x] = repair[x] /\ (x \in pending => x \in pending')
      BY <2>3, TypeFacts DEF BayBroken, BayFixed, QueueRepair
    <3>2. QED
      BY <1>1, <1>3, <2>3, <3>1, BayFrame, OrderedFacts DEF BayFits, Freeing, Requeued
  <2>4. QED
    BY <2>1, <2>2, <2>3
<1>6. \A q \in Plates : Car(q)'
  <2>1. ASSUME NEW q \in Plates
        PROVE  \A x \in BayNames : bay[x].who = q => bay'[x].who = q /\ bay'[x].status = bay[x].status
    BY <1>3, <1>4, BaysAssumption
  <2>2. QED
    BY <1>1, <2>1, CarFrame, OrderedFacts DEF Car
<1>8. (\A c \in calls : CallFits(c)') /\ (\A n \in news : NewsFits(n)')
  BY <1>1, OrderedFacts DEF CallFits, GivenUp, NewsFits
<1>7. QED
  BY <1>1, <1>5, <1>6, <1>8, OrderedFacts DEF Ordered, CallsApart

\* A penalised car has gone without parking.
LEMMA NeglectedOrder ==
  ASSUME TypeOK, Ordered, NEW p \in Plates, Neglected(p)
  PROVE  Ordered'
<1>1. /\ UNCHANGED <<pos, goal, faulty, inbox, leg, calls, pending, repair, listed>>
      /\ news' \subseteq news /\ Report("neglect", "none", p) \in news
      /\ \A c \in calls : c.step = "waits"
  BY DEF Neglected, HandleNews, simulator, Idle
<1>2. pos[p] = "away" /\ (inbox[p] = <<>> \/ inbox[p] = TurnedBack \/ inbox[p] = WentIn)
  <2>1. Report("neglect", "none", p).plate = p /\ p # "none"
    BY EventFields, BaysAssumption
  <2>2. QED
    BY <1>1, <2>1, OrderedFacts DEF NewsFits
<1>3. goal[p] = "none"
  BY <1>2, StageOfPlace, OrderedFacts DEF Absent, Refused
<1>4. CASE UNCHANGED <<bay, sess>>
  <2>1. \A q \in Plates : Car(q)'
    BY <1>1, <1>4, CarFrame, OrderedFacts DEF Car
  <2>0. (\A c \in calls : CallFits(c)') /\ (\A n \in news' : NewsFits(n)')
    BY <1>1, <1>4, OrderedFacts DEF CallFits, GivenUp, NewsFits
  <2>2. \A b \in BayNames : BayFits(b)'
    BY <1>1, <1>4, BayFrame, OrderedFacts DEF BayFits, Freeing, Requeued
  <2>3. QED
    BY <1>1, <2>0, <2>1, <2>2, OrderedFacts DEF Ordered, CallsApart
<1>5. CASE ~UNCHANGED <<bay, sess>>
  <2>1. /\ bay' = Unreserved(bay, sess[p].spot, p) /\ sess'[p] = Nobody
        /\ \A q \in Plates \ {p} : sess'[q] = sess[q]
    BY <1>5, TypeFacts DEF Neglected, Complete, parking
  <2>2. sess[p].spot \in BayNames \cup {"none"}
    BY TypeFacts, SessionFacts
  <2>3. \A b \in BayNames : Freeing(bay[b], bay'[b], {p})
    BY <2>1, <2>2, FreeingFacts
  <2>4. \A b \in BayNames : BayFits(b)'
    BY <1>1, <2>3, BayFrame, OrderedFacts DEF BayFits, Requeued
  <2>5. /\ \A q \in Plates \ {p} : Car(q)'
        /\ \A c \in calls : c.plate \notin {p} => CallFits(c)'
    BY <1>1, <2>1, <2>3, Others DEF Freeing
  <2>6. Car(p)'
    BY <1>1, <1>2, <1>3, <2>1, NobodyFits
  <2>7. ASSUME NEW c \in calls, c.plate = p
        PROVE  CallFits(c)'
    BY <1>1, <2>1, <2>7, OrderedFacts DEF CallFits, Nobody
  <2>8. \A n \in news : NewsFits(n)'
    BY <1>1, OrderedFacts DEF NewsFits
  <2>9. QED
    BY <1>1, <2>4, <2>5, <2>6, <2>7, <2>8, OrderedFacts DEF Ordered, CallsApart
<1>6. QED
  BY <1>4, <1>5

LEMMA ReapOrder ==
  ASSUME TypeOK, Ordered, Reap, used'["slow"] = 0
  PROVE  Ordered'
<1>1. UNCHANGED <<pos, goal, faulty, inbox, news, pending, leg, calls, repair, listed>>
  BY DEF Reap, simulator
<1>2. PICK late \in SUBSET Plates : Overstay(late) /\ bay' = Overdue(late) /\ Complete(late)
  BY DEF Reap
<1>3. /\ \A q \in late : sess'[q] = Nobody
      /\ \A q \in Plates \ late : sess'[q] = sess[q]
  BY <1>2 DEF Complete
<1>4. \A b \in BayNames : Freeing(bay[b], bay'[b], late)
  <2>1. CASE Plates = {}
    <3>1. late = {}
      BY <2>1
    <3>2. QED
      BY <1>2, <3>1, TypeFacts DEF Overdue, Freeing
  <2>2. CASE Plates # {}
    BY <1>2, <2>2, FreeingFacts
  <2>3. QED
    BY <2>1, <2>2
<1>5. \A q \in late : pos[q] = "away" /\ inbox[q] = <<>> /\ Absent(q) /\ \A c \in calls : c.plate # q
  BY <1>2, LateCars
<1>6. \A q \in late : Car(q)'
  BY <1>1, <1>3, <1>5, NobodyFits DEF Absent
<1>7. /\ \A q \in Plates \ late : Car(q)'
      /\ \A c \in calls : c.plate \notin late => CallFits(c)'
  BY <1>1, <1>3, <1>4, Others DEF Freeing
<1>8. \A n \in news : NewsFits(n)'
  BY <1>1, OrderedFacts DEF NewsFits
<1>9. \A b \in BayNames : BayFits(b)'
  BY <1>1, <1>4, BayFrame, OrderedFacts DEF BayFits, Requeued
<1>10. QED
  BY <1>1, <1>5, <1>6, <1>7, <1>8, <1>9, OrderedFacts DEF Ordered, CallsApart

-----------------------------------------------------------------------------
(* The invariant is inductive.                                             *)

LEMMA RarelyGrows ==
  ASSUME TypeOK, NEW k \in Rare, Rarely(k)
  PROVE  /\ \A j \in Rare : used'[j] = 0 => used[j] = 0
         /\ k # "all" => used'[k] # 0
<1>1. "all" \in Rare /\ used \in [Rare -> Nat]
  BY TypeFacts DEF Rare
<1>2. \A j \in Rare : used'[j] \in {used[j], used[j] + 1, used[j] + 1 + 1} /\ used[j] \in Nat
  BY <1>1 DEF Rarely
<1>3. k # "all" => used'[k] = used[k] + 1
  BY <1>1 DEF Rarely
<1> HIDE DEF Rarely
<1>4. \A n \in Nat : n + 1 # 0 /\ n + 1 + 1 # 0
  OBVIOUS
<1>5. QED
  BY <1>2, <1>3, <1>4

LEMMA Undisturbed ==
  ASSUME TypeOK, NEW k \in Disorders, used'[k] = 0
  PROVE  ~Rarely(k)
<1>1. k \in Rare /\ k # "all"
  BY DEF Disorders, Rare
<1>2. QED
  BY <1>1, RarelyGrows

LEMMA UsedChanges ==
  ASSUME [Next]_vars
  PROVE  UNCHANGED used \/ \E k \in Rare : Rarely(k)
<1>1. CASE Simulator
  BY <1>1 DEF Simulator, Arrive, DriveIn, Neglect, Collide, GiveUp, Leave, ParkAt, Straddle,
              Break, Mend, Rare
<1>2. ASSUME NEW p \in Plates, CarSpotAction(p)
      PROVE  UNCHANGED used
  BY <1>2 DEF CarSpotAction, EntryIn, EntryOut, ParkIn, ParkOut, Gone, Handle
<1>3. ASSUME NEW p \in Plates, LegStep(p)
      PROVE  UNCHANGED used \/ \E k \in Rare : Rarely(k)
  BY <1>3 DEF LegStep, LegCheck, LegEnds, LegSends, Rare
<1>4. CASE NewsAction
  BY <1>4 DEF NewsAction, BayBroken, BayFixed, Collision, Neglected, HandleNews
<1>5. ASSUME NEW c \in calls, Begin(c)
      PROVE  UNCHANGED used \/ \E k \in Rare : Rarely(k)
  BY <1>5 DEF Begin, Overstay, Rare
<1>6. ASSUME NEW c \in calls, Resume(c)
      PROVE  UNCHANGED used \/ \E k \in Rare : Rarely(k)
  BY <1>6 DEF Resume, Reserve, NoGate, TurnAway, Unavailable, Rare
<1>7. ASSUME NEW b \in BayNames, Maintain(b) \/ RepairStep(b)
      PROVE  UNCHANGED used \/ \E k \in Rare : Rarely(k)
  BY <1>7 DEF Maintain, RepairStep, RepairPutOff, RepairSent, RepairAnswered, RepairRetried,
              RepairDropped, Rare
<1>8. ASSUME NEW p \in Plates, NEW b \in BayNames, StaffDispatch(p, b)
      PROVE  \E k \in Rare : Rarely(k)
  BY <1>8 DEF StaffDispatch, Rare
<1>9. CASE Reap \/ EnsureOpen \/ SyncRead \/ SyncApply
  BY <1>9 DEF Reap, EnsureOpen, SyncRead, SyncApply, Overstay, Rare
<1>10. CASE UNCHANGED vars
  BY <1>10 DEF vars
<1>11. QED
  BY <1>1, <1>2, <1>3, <1>4, <1>5, <1>6, <1>7, <1>8, <1>9, <1>10 DEF Next, Dispatching

\* What was once disturbed stays so.
LEMMA OrderlyBefore ==
  ASSUME TypeOK, [Next]_vars, Orderly'
  PROVE  Orderly
<1>1. Disorders \subseteq Rare
  BY DEF Disorders, Rare
<1>2. QED
  BY <1>1, UsedChanges, RarelyGrows DEF Orderly

\* Of the steps, those that can be taken.
OrderedStep ==
  \/ \E p \in Plates : Arrive(p) \/ DriveIn(p) \/ Neglect(p) \/ Leave(p)
  \/ \E p \in Plates, b \in BayNames : ParkAt(p, b) /\ b = goal[p]
  \/ \E b \in BayNames : Break(b) \/ Mend(b)
  \/ \E p \in Plates : EntryIn(p) \/ EntryOut(p) \/ Gone(p) \/ LegStep(p) \/ Neglected(p)
  \/ \E p \in Plates, b \in BayNames : ParkIn(p, b) \/ ParkOut(p, b)
  \/ \E b \in BayNames : BayBroken(b) \/ BayFixed(b)
  \/ \E c \in calls : Begin(c) \/ Resume(c)
  \/ \E b \in BayNames : Maintain(b) \/ RepairStep(b)
  \/ Reap \/ EnsureOpen

LEMMA StepsTaken ==
  ASSUME TypeOK, Ordered, Next, Orderly'
  PROVE  OrderedStep
<1>1. ~Rarely("astray") /\ ~Rarely("staff") /\ ~Rarely("sync")
  BY Undisturbed DEF Orderly, Disorders
<1>2. CASE Simulator
  BY <1>1, <1>2, NoCollision DEF Simulator, ParkAt, Straddle, OrderedStep
<1>3. CASE NewsAction
  <2>1. ASSUME NEW p \in Plates, NEW b \in BayNames, Collision(p, b)
        PROVE  FALSE
    <3>1. Report("collision", b, p) \in news
      BY <2>1 DEF Collision, HandleNews
    <3>2. QED
      BY <3>1, OrderedFacts, EventFields DEF NewsFits
  <2>2. QED
    BY <1>3, <2>1 DEF NewsAction, OrderedStep
<1>4. ~(\E p \in Plates, b \in BayNames : StaffDispatch(p, b)) /\ ~SyncRead /\ ~SyncApply
  BY <1>1, OrderedFacts DEF StaffDispatch, SyncRead, SyncApply
<1>5. QED
  BY <1>2, <1>3, <1>4 DEF Next, CarSpotAction, Dispatching, OrderedStep

LEMMA InitOrdered == Init => Ordered
<1> SUFFICES ASSUME Init PROVE Ordered
  OBVIOUS
<1>1. Nobody.id = 0 /\ Nobody.phase = "arrived" /\ Nobody.spot = "none" /\ Nobody.stay = "driving"
  BY DEF Nobody
<1>2. FreeSpot.who = "none" /\ FreeSpot.status = "available" /\ ~FreeSpot.maint
  BY DEF FreeSpot
<1>3. \A p \in Plates : Car(p)
  BY <1>1 DEF Init, Car, Course, Absent, GivenUp, Shape, Kept, LegFits
<1>4. \A b \in BayNames : BayFits(b)
  BY <1>2 DEF Init, BayFits, Named, RepairFits, InUse
<1>5. QED
  BY <1>3, <1>4 DEF Init, Ordered, CallsApart

LEMMA NextOrdered ==
  ASSUME IInv, Ordered, [Next]_vars, Orderly'
  PROVE  Ordered'
<1>1. TypeOK /\ used'["slow"] = 0
  BY DEF IInv, Orderly, Disorders
<1>2. CASE UNCHANGED vars
  BY <1>2
     DEF vars, Ordered, Car, Course, Absent, Arrived, Waits, Refused, Exiting, Sent, Within, Leaving,
         GivenUp, NotParked, Assigned, InBay, Shape, Kept, Held, LegFits, BayFits, Named, RepairFits,
         CallFits, CallsApart, NewsFits
<1>3. CASE Next
  <2>1. OrderedStep
    BY <1>1, <1>3, StepsTaken
  <2>2. CASE \E p \in Plates : Arrive(p) \/ DriveIn(p) \/ Neglect(p) \/ Leave(p)
    BY <1>1, <2>2, ArriveOrder, DriveInOrder, NeglectOrder, LeaveOrder
  <2>3. CASE \E p \in Plates, b \in BayNames : ParkAt(p, b) /\ b = goal[p]
    BY <1>1, <2>3, ParkAtOrder
  <2>4. CASE \E b \in BayNames : Break(b) \/ Mend(b)
    BY <1>1, <2>4, FaultOrder
  <2>5. CASE \E p \in Plates : EntryIn(p) \/ EntryOut(p) \/ Gone(p) \/ LegStep(p) \/ Neglected(p)
    BY <1>1, <2>5, EntryInOrder, EntryOutOrder, GoneOrder, LegOrder, NeglectedOrder
  <2>6. CASE \E p \in Plates, b \in BayNames : ParkIn(p, b) \/ ParkOut(p, b)
    BY <1>1, <2>6, ParkInOrder, ParkOutOrder
  <2>7. CASE \E b \in BayNames : BayBroken(b) \/ BayFixed(b)
    BY <1>1, <2>7, BayNewsOrder
  <2>8. CASE \E c \in calls : Begin(c) \/ Resume(c)
    BY <1>1, <2>8, BeginOrder, ReserveOrder, NoBayOrder DEF Resume
  <2>9. CASE \E b \in BayNames : Maintain(b) \/ RepairStep(b)
    BY <1>1, <2>9, RepairOrder, AnsweredOrder
  <2>10. CASE Reap \/ EnsureOpen
    BY <1>1, <2>10, ReapOrder, EnsureOpenOrder
  <2>11. QED
    BY <2>1, <2>2, <2>3, <2>4, <2>5, <2>6, <2>7, <2>8, <2>9, <2>10 DEF OrderedStep
<1>4. QED
  BY <1>2, <1>3

\* Every session, bay, dispatch, repair and webhook fits where its car is, until the
\* first disorder.
THEOREM InOrder == Spec => [](Orderly => Ordered)
<1>1. Init => Ordered
  BY InitOrdered
<1>2. IInv /\ (Orderly => Ordered) /\ [Next]_vars => (Orderly => Ordered)'
  BY OrderlyBefore, NextOrdered DEF IInv
<1>3. QED
  BY <1>1, <1>2, Invariant, PTL DEF Spec

-----------------------------------------------------------------------------
(* What follows.                                                           *)

\* A car in a bay, whose arrival was handled, has it.
LEMMA InsideHasIt ==
  ASSUME Ordered, NEW p \in Plates, NEW b \in BayNames, Inside(p, b)
  PROVE  /\ Within(p, b) /\ inbox[p] = <<>> /\ InBay(p, b)
         /\ bay[b].who = p /\ bay[b].status = "occupied" /\ repair[b] # "sent" /\ ~bay[b].maint
<1>1. Within(p, b)
  BY StageOfPlace, OrderedFacts DEF Inside
<1>2. inbox[p] # CameIn(b) /\ inbox[p] # Parks(b)
  <2>1. CameIn(b)[2] = Event("park", b) /\ 2 \in DOMAIN CameIn(b)
    BY DEF CameIn
  <2>2. Parks(b)[1] = Event("park", b) /\ 1 \in DOMAIN Parks(b)
    BY DEF Parks
  <2>3. QED
    BY <2>1, <2>2 DEF Inside
<1>3. inbox[p] = <<>> /\ InBay(p, b)
  BY <1>1, <1>2 DEF Within
<1>4. QED
  BY <1>1, <1>3, Owner, OrderedFacts DEF InBay, Kept

\* A bay with a car in it, whose arrival was handled, is neither free nor promised
\* (mark_parked, mark_left_spot, reap_orphans, the repairs), as long as cars park where
\* they are sent, staff and syncs leave the bays alone and only those who are gone are
\* archived as orphans: whatever breaks, is repaired, neglected or turned away.
THEOREM OccupiedIsNotFree == Spec => [](Orderly => FreeIsEmpty)
<1>1. Ordered => FreeIsEmpty
  BY InsideHasIt DEF FreeIsEmpty
<1>2. QED
  BY <1>1, InOrder, PTL

\* No other step sends a repair.
LEMMA OnlySent ==
  ASSUME TypeOK, [Next]_vars, NEW b \in BayNames, repair'[b] = "sent", repair[b] # "sent"
  PROVE  RepairSent(b)
<1>1. repair' # repair /\ repair \in [BayNames -> {"none", "queued", "sent"}]
  BY TypeFacts
<1>2. ~Simulator /\ ~UNCHANGED vars
  BY <1>1 DEF Simulator, Arrive, DriveIn, Neglect, Collide, GiveUp, Leave, ParkAt, Straddle,
              Break, Mend, Outside, vars
<1>3. ASSUME NEW p \in Plates, CarSpotAction(p)
      PROVE  FALSE
  <2>1. PICK a \in BayNames : ParkOut(p, a)
    BY <1>1, <1>3 DEF CarSpotAction, EntryIn, EntryOut, ParkIn, Gone
  <2>2. QED
    BY <1>1, <2>1 DEF ParkOut, PopReady
<1>4. ASSUME NEW p \in Plates, LegStep(p)
      PROVE  FALSE
  BY <1>1, <1>4 DEF LegStep, LegCheck, LegEnds, LegSends, LegUnchanged
<1>5. ASSUME NewsAction
      PROVE  FALSE
  <2>1. PICK a \in BayNames : BayBroken(a)
    BY <1>1, <1>5 DEF NewsAction, BayFixed, Collision, Neglected
  <2>2. QED
    BY <1>1, <2>1 DEF BayBroken, QueueRepair
<1>6. ASSUME NEW c \in calls, Begin(c) \/ Resume(c)
      PROVE  FALSE
  BY <1>1, <1>6 DEF Begin, Resume
<1>7. ASSUME NEW a \in BayNames, Maintain(a)
      PROVE  FALSE
  BY <1>1, <1>7 DEF Maintain, QueueRepair
<1>8. ASSUME NEW a \in BayNames, RepairStep(a)
      PROVE  RepairSent(b)
  <2>1. CASE a = b
    BY <1>1, <1>8, <2>1
       DEF RepairStep, RepairPutOff, RepairAnswered, RepairRetried, RepairDropped
  <2>2. CASE a # b
    BY <1>1, <1>8, <2>2
       DEF RepairStep, RepairPutOff, RepairSent, RepairAnswered, RepairRetried, RepairDropped
  <2>3. QED
    BY <2>1, <2>2
<1>9. ASSUME \/ \E p \in Plates, a \in BayNames : StaffDispatch(p, a)
             \/ Reap \/ EnsureOpen \/ SyncRead \/ SyncApply
      PROVE  FALSE
  BY <1>1, <1>9 DEF StaffDispatch, Reap, EnsureOpen, SyncRead, SyncApply
<1>10. QED
  BY <1>2, <1>3, <1>4, <1>5, <1>6, <1>7, <1>8, <1>9 DEF Next, Dispatching

\* Then no repair command is sent for a bay with a car in it either, though the bay was
\* given, taken and left between the breakdown and the command (guarded_repair).
THEOREM RepairsSpare == Spec /\ []Orderly => RepairsSpareCars
<1>1. TypeOK /\ Ordered /\ Ordered' /\ [Next]_vars =>
        [\A b \in BayNames : repair'[b] = "sent" /\ repair[b] # "sent" =>
            \A p \in Plates : ~Inside(p, b)]_vars
  <2> SUFFICES ASSUME TypeOK, Ordered, Ordered', [Next]_vars, NEW b \in BayNames, NEW p \in Plates,
                      repair'[b] = "sent", Inside(p, b), repair[b] # "sent"
               PROVE  FALSE
    OBVIOUS
  <2>1. RepairSent(b)
    BY OnlySent
  <2>2. bay[b].who = "none"
    BY <2>1 DEF RepairSent, Taken
  <2>3. QED
    BY <2>2, InsideHasIt, BaysAssumption
<1>2. QED
  BY <1>1, InOrder, TypeCorrect, PTL DEF Spec, RepairsSpareCars

-----------------------------------------------------------------------------
(* Promises.                                                               *)

\* What a step must do to the car a bay is promised to, for the bay to leak.
LEMMA LeakFrame ==
  ASSUME TypeOK, Ordered, Ordered', NEW b \in BayNames, Leaked(b)', ~Leaked(b),
         bay'[b].status = "reserved" => bay[b].status = "reserved" /\ bay'[b].who = bay[b].who
  PROVE  \E p \in Plates : /\ Held(bay[b], p) /\ bay'[b].status = "reserved"
                           /\ Assigned(p, b) /\ ~Assigned(p, b)' /\ sess'[p] # sess[p]
                           /\ sess[p].id # 0 /\ sess[p].stay = "driving"
<1>1. bay'[b].status = "reserved" /\ bay[b].status = "reserved" /\ bay'[b].who = bay[b].who
  BY DEF Leaked
<1>2. PICK p \in Plates : bay[b].who = p
  BY <1>1, OrderedFacts DEF Named, InUse
<1>3. Promised(p, b) /\ ~Promised(p, b)'
  BY <1>1, <1>2 DEF Leaked
<1>4. ~Assigned(p, b)'
  BY <1>3 DEF Ordered, Car, Shape, Assigned, Promised
<1>5. sess[p].stay = "driving"
  BY <1>3, OrderedFacts DEF Shape, Promised
<1>6. QED
  BY <1>1, <1>2, <1>3, <1>4, <1>5 DEF Promised, Assigned, Held

LEMMA FreeingKeeps ==
  ASSUME NEW b \in BayNames, NEW ps, Freeing(bay[b], bay'[b], ps)
  PROVE  bay'[b].status = "reserved" => bay[b].status = "reserved" /\ bay'[b].who = bay[b].who
BY DEF Freeing, InUse

\* A reservation that is taken back is.
LEMMA UnreservedFacts ==
  ASSUME TypeOK, NEW p \in Plates, NEW b \in BayNames, Held(bay[b], p)
  PROVE  /\ Unreserved(bay, b, p)[b].status # "reserved"
         /\ \A ps \in SUBSET Plates :
              p \in ps /\ sess[p].stay = "driving" /\ sess[p].spot = b =>
                Overdue(ps)[b].status # "reserved"
<1>1. bay[b] \in Spot /\ bay \in [BayNames -> Spot] /\ b # "none"
  BY TypeFacts, BaysAssumption
<1>2. [bay[b] EXCEPT !.status = "available", !.who = "none"].status = "available"
  BY <1>1 DEF Spot
<1>3. Unreserved(bay, b, p)[b] = [bay[b] EXCEPT !.status = "available", !.who = "none"]
  BY <1>1 DEF Unreserved
<1>4. \A ps \in SUBSET Plates :
              p \in ps /\ sess[p].stay = "driving" /\ sess[p].spot = b =>
                Overdue(ps)[b] = [bay[b] EXCEPT !.status = "available", !.who = "none"]
  BY DEF Overdue
<1>5. QED
  BY <1>2, <1>3, <1>4

LEMMA BeginKeeps ==
  ASSUME IInv, Ordered, Ordered', NEW c \in calls, Begin(c), NEW b \in BayNames, Leaked(b)'
  PROVE  Leaked(b)
<1> SUFFICES ASSUME ~Leaked(b) PROVE FALSE
  OBVIOUS
<1>0. TypeOK
  BY DEF IInv
<1>1. ~UNCHANGED <<bay, sess>>
  BY DEF Leaked, Promised
<1>2. PICK late \in SUBSET Plates :
        /\ bay' = Overdue(late) /\ sess[c.plate].id = 0
        /\ \A q \in Plates : q \notin late /\ q # c.plate => sess'[q] = sess[q]
  BY <1>1, BeginShape
<1>3. \A p \in Plates : Freeing(bay[b], bay'[b], late)
  BY <1>0, <1>2, FreeingFacts
<1>4. Plates # {}
  BY <1>0, TypeFacts, CallFacts
<1>5. PICK p \in Plates : /\ Held(bay[b], p) /\ bay'[b].status = "reserved"
                          /\ Assigned(p, b) /\ sess'[p] # sess[p] /\ sess[p].id # 0
                          /\ sess[p].stay = "driving"
  BY <1>0, <1>3, <1>4, FreeingKeeps, LeakFrame
<1>6. p \in late
  BY <1>2, <1>5
<1>7. QED
  BY <1>0, <1>2, <1>5, <1>6, UnreservedFacts DEF Assigned

LEMMA ReapKeeps ==
  ASSUME TypeOK, Ordered, Ordered', Reap, NEW b \in BayNames, Leaked(b)'
  PROVE  Leaked(b)
<1> SUFFICES ASSUME ~Leaked(b) PROVE FALSE
  OBVIOUS
<1>1. PICK late \in SUBSET Plates : bay' = Overdue(late) /\ Complete(late) /\ late # {}
  BY DEF Reap
<1>2. \A q \in Plates : q \notin late => sess'[q] = sess[q]
  BY <1>1 DEF Complete
<1>3. \A p \in Plates : Freeing(bay[b], bay'[b], late)
  BY <1>1, FreeingFacts
<1>4. PICK p \in Plates : /\ Held(bay[b], p) /\ bay'[b].status = "reserved"
                          /\ Assigned(p, b) /\ sess'[p] # sess[p] /\ sess[p].stay = "driving"
  BY <1>1, <1>3, FreeingKeeps, LeakFrame
<1>5. p \in late
  BY <1>2, <1>4
<1>6. QED
  BY <1>1, <1>4, <1>5, UnreservedFacts DEF Assigned

\* A dispatch goes on whose session is there: the bay is the car's.
LEMMA ResumeKeeps ==
  ASSUME TypeOK, Ordered, Ordered', NEW c \in calls, Resume(c), NEW b \in BayNames, Leaked(b)',
         ~Leaked(b)
  PROVE  c.step = "waits" /\ sess[c.plate].id = 0
<1>1. /\ c \in Call /\ c.plate \in Plates /\ c.step # "begin" /\ sess[c.plate].phase = "arrived"
      /\ (c.step = "goesOn" => sess[c.plate].id # 0)
  BY GoesOn DEF CallFits
<1>2. PICK a \in BayNames : Reserve(c, a)
  <2>1. SUFFICES ASSUME NoGate(c) \/ TurnAway(c) \/ Unavailable(c) PROVE FALSE
    BY DEF Resume
  <2>2. bay' = bay /\ \A q \in Plates : q # c.plate => sess'[q] = sess[q]
    BY <2>1, TypeFacts DEF NoGate, TurnAway, Unavailable, Complete
  <2>3. QED
    BY <1>1, <2>2, LeakFrame DEF Assigned
<1>3. bay' = Reserved(bay, a, c.plate) /\ \A q \in Plates : q # c.plate => sess'[q] = sess[q]
  BY <1>2, TypeFacts DEF Reserve, AssignSpot
<1>4. a = b
  <2>1. SUFFICES ASSUME a # b PROVE FALSE
    OBVIOUS
  <2>2. bay'[b] = bay[b]
    BY <1>3, <2>1, TypeFacts DEF Reserved
  <2>3. QED
    BY <1>1, <1>3, <2>2, LeakFrame DEF Assigned
<1>5. sess[c.plate].id = 0
  <2>1. SUFFICES ASSUME sess[c.plate].id # 0 PROVE FALSE
    OBVIOUS
  <2>2. sess[c.plate] \in Session /\ sess \in [Plates -> Session] /\ bay[b] \in Spot
    BY <1>1, TypeFacts
  <2>3. sess'[c.plate] = [sess[c.plate] EXCEPT !.spot = b, !.phase = "assigned"]
    BY <1>1, <1>2, <1>4, <2>1, <2>2 DEF Reserve, AssignSpot
  <2>4. Promised(c.plate, b)'
    BY <2>1, <2>2, <2>3 DEF Promised, Session
  <2>5. bay'[b].who = c.plate
    BY <1>3, <1>4, <2>2, TypeFacts DEF Reserved, Spot
  <2>6. QED
    BY <2>4, <2>5 DEF Leaked
<1>6. QED
  BY <1>1, <1>5 DEF Call

LEMMA SpotActionKeeps ==
  ASSUME TypeOK, Ordered, Ordered', NEW p \in Plates, CarSpotAction(p), NEW b \in BayNames, Leaked(b)'
  PROVE  Leaked(b)
<1> SUFFICES ASSUME ~Leaked(b) PROVE FALSE
  OBVIOUS
<1>1. CASE EntryIn(p)
  BY <1>1 DEF EntryIn, parking, Leaked, Promised
<1>2. CASE EntryOut(p)
  <2>1. /\ bay' = bay /\ \A q \in Plates \ {p} : sess'[q] = sess[q]
        /\ \/ sess[p].spot = "none"
           \/ sess'[p] = sess[p]
           \/ sess'[p] = [sess[p] EXCEPT !.departed = TRUE]
    BY <1>2, TypeFacts DEF EntryOut, Complete
  <2>2. [sess[p] EXCEPT !.departed = TRUE].phase = sess[p].phase
        /\ [sess[p] EXCEPT !.departed = TRUE].spot = sess[p].spot
    BY TypeFacts DEF Session
  <2>3. Assigned(p, b) /\ ~Assigned(p, b)' /\ sess'[p] # sess[p]
    BY <2>1, LeakFrame
  <2>4. QED
    BY <2>1, <2>2, <2>3, BaysAssumption DEF Assigned
<1>3. ASSUME NEW a \in BayNames, ParkIn(p, a)
      PROVE  FALSE
  <2>1. /\ Assigned(p, a) /\ bay' = Occupied(bay, a, p)
        /\ \A q \in Plates \ {p} : sess'[q] = sess[q]
    BY <1>3, ParkInShape
  <2>2. bay'[b].status = "reserved" => b # a /\ bay'[b] = bay[b]
    BY <2>1, TypeFacts DEF Occupied, Spot
  <2>3. b # a /\ Assigned(p, b)
    BY <2>1, <2>2, LeakFrame DEF Leaked
  <2>4. QED
    BY <2>1, <2>3 DEF Assigned
<1>4. ASSUME NEW a \in BayNames, ParkOut(p, a)
      PROVE  FALSE
  <2>1. /\ bay[a].who = p /\ InBay(p, a) /\ bay' = Vacated(bay, a)
        /\ \A q \in Plates \ {p} : sess'[q] = sess[q]
    BY <1>4, ParkOutShape
  <2>2. Freeing(bay[b], bay'[b], {p})
    BY <2>1, FreeingFacts
  <2>3. Assigned(p, b)
    BY <2>1, <2>2, FreeingKeeps, LeakFrame
  <2>4. QED
    BY <2>1, <2>3 DEF Assigned, InBay
<1>5. CASE Gone(p)
  <2>1. Freeing(bay[b], bay'[b], {p}) /\ \A q \in Plates \ {p} : sess'[q] = sess[q]
    <3>1. CASE UNCHANGED <<bay, sess>>
      BY <3>1 DEF Freeing
    <3>2. CASE ~UNCHANGED <<bay, sess>>
      BY <1>5, <3>2, FreeingFacts, TypeFacts DEF Gone, parking, Complete
    <3>3. QED
      BY <3>1, <3>2
  <2>2. Held(bay[b], p) /\ Assigned(p, b) /\ sess[p].stay = "driving" /\ sess'[p] # sess[p]
    BY <2>1, FreeingKeeps, LeakFrame
  <2>3. QED
    BY <1>5, <2>2 DEF Gone, parking
<1>6. QED
  BY <1>1, <1>2, <1>3, <1>4, <1>5 DEF CarSpotAction

LEMMA NewsKeeps ==
  ASSUME TypeOK, Ordered, Ordered', NEW b \in BayNames, Leaked(b)',
         \/ \E a \in BayNames : BayBroken(a) \/ BayFixed(a)
         \/ \E p \in Plates : Neglected(p)
  PROVE  Leaked(b)
<1> SUFFICES ASSUME ~Leaked(b) PROVE FALSE
  OBVIOUS
<1>1. ASSUME NEW a \in BayNames, BayBroken(a) \/ BayFixed(a)
      PROVE  FALSE
  <2>1. sess' = sess
    BY <1>1 DEF BayBroken, BayFixed
  <2>2. bay'[b].status = "reserved" => bay[b].status = "reserved" /\ bay'[b].who = bay[b].who
    <3>1. bay'[b] = bay[b] \/ bay'[b] = SetBroken(bay[b]) \/ bay'[b] = SetFixed(bay[b])
      BY <1>1, TypeFacts DEF BayBroken, BayFixed
    <3>2. bay[b] \in Spot
      BY TypeFacts
    <3>3. QED
      BY <3>1, <3>2 DEF SetBroken, SetFixed, Spot
  <2>3. QED
    BY <2>1, <2>2, LeakFrame
<1>2. ASSUME NEW p \in Plates, Neglected(p)
      PROVE  FALSE
  <2>1. \/ bay' = bay /\ sess' = sess
        \/ /\ bay' = Unreserved(bay, sess[p].spot, p)
           /\ \A q \in Plates \ {p} : sess'[q] = sess[q]
    BY <1>2 DEF Neglected, parking, Complete
  <2>2. sess[p].spot \in BayNames \cup {"none"}
    BY TypeFacts, SessionFacts
  <2>3. Freeing(bay[b], bay'[b], {p})
    BY <2>1, <2>2, FreeingFacts DEF Freeing
  <2>4. Held(bay[b], p) /\ Assigned(p, b) /\ bay'[b].status = "reserved" /\ sess' # sess
    BY <2>1, <2>3, FreeingKeeps, LeakFrame
  <2>5. QED
    BY <2>1, <2>4, UnreservedFacts DEF Assigned
<1>3. QED
  BY <1>1, <1>2

\* The steps that change no session, and no reservation.
LEMMA QuietKeeps ==
  ASSUME TypeOK, Ordered, Ordered', NEW b \in BayNames, Leaked(b)', sess' = sess,
         bay'[b] = bay[b] \/ bay'[b].status # "reserved"
  PROVE  Leaked(b)
BY LeakFrame

\* As long as cars park where they are sent, staff and syncs leave the bays alone and
\* only those who are gone are archived, a promised bay stays promised until its car is
\* in it or the promise is taken back (Unreserved, Overdue, Freed, Moved): but for the
\* dispatch that goes on after its session was archived (dispatch_entry, main.py:1101).
THEOREM PromisesKept == Spec /\ []Orderly => PromisesTakenBack
<1>1. IInv /\ Ordered /\ Ordered' /\ Orderly' /\ [Next]_vars =>
        [\A b \in BayNames : Leaked(b)' /\ ~Leaked(b) =>
           \E c \in calls : c.step = "waits" /\ sess[c.plate].id = 0 /\ Resume(c)]_vars
  <2> SUFFICES ASSUME IInv, Ordered, Ordered', Orderly', Next, NEW b \in BayNames,
                      Leaked(b)', ~Leaked(b)
               PROVE  \E c \in calls : c.step = "waits" /\ sess[c.plate].id = 0 /\ Resume(c)
    OBVIOUS
  <2>1. TypeOK /\ OrderedStep
    BY StepsTaken DEF IInv
  <2>2. CASE \/ \E p \in Plates : Arrive(p) \/ DriveIn(p) \/ Neglect(p) \/ Leave(p)
             \/ \E p \in Plates, a \in BayNames : ParkAt(p, a) /\ a = goal[p]
             \/ \E a \in BayNames : Break(a) \/ Mend(a)
    <3>1. UNCHANGED <<bay, sess>>
      BY <2>2 DEF Arrive, DriveIn, Neglect, Leave, ParkAt, Break, Mend, Outside
    <3>2. QED
      BY <2>1, <3>1, QuietKeeps
  <2>3. CASE \/ \E p \in Plates : LegStep(p)
             \/ \E a \in BayNames : Maintain(a) \/ RepairStep(a)
             \/ EnsureOpen
    <3>1. sess' = sess
      BY <2>3 DEF LegStep, LegCheck, LegEnds, LegSends, LegUnchanged, Maintain, RepairStep,
                  RepairPutOff, RepairSent, RepairAnswered, RepairRetried, RepairDropped,
                  RepairUnchanged, EnsureOpen, parking
    <3>2. bay'[b] = bay[b] \/ bay'[b].status # "reserved"
      <4>1. CASE bay' = bay
        BY <4>1
      <4>2. CASE bay' # bay
        <5>1. PICK a \in BayNames : RepairAnswered(a)
          BY <2>3, <4>2 DEF LegStep, LegCheck, LegEnds, LegSends, LegUnchanged, Maintain, RepairStep,
                  RepairPutOff, RepairSent, RepairRetried, RepairDropped, EnsureOpen, parking
        <5>2. bay'[b] = bay[b] \/ bay'[b] = [bay[b] EXCEPT !.maint = TRUE, !.status = "maintenance"]
          BY <2>1, <5>1, TypeFacts DEF RepairAnswered
        <5>3. bay[b] \in Spot
          BY <2>1, TypeFacts
        <5>4. QED
          BY <5>2, <5>3 DEF Spot
      <4>3. QED
        BY <4>1, <4>2
    <3>3. QED
      BY <2>1, <3>1, <3>2, QuietKeeps
  <2>4. CASE \/ \E p \in Plates : EntryIn(p) \/ EntryOut(p) \/ Gone(p)
             \/ \E p \in Plates, a \in BayNames : ParkIn(p, a) \/ ParkOut(p, a)
    BY <2>1, <2>4, SpotActionKeeps DEF CarSpotAction
  <2>5. CASE \/ \E a \in BayNames : BayBroken(a) \/ BayFixed(a)
             \/ \E p \in Plates : Neglected(p)
    BY <2>1, <2>5, NewsKeeps
  <2>6. CASE \E c \in calls : Begin(c) \/ Resume(c)
    BY <2>1, <2>6, BeginKeeps, ResumeKeeps
  <2>7. CASE Reap
    BY <2>1, <2>7, ReapKeeps
  <2>8. QED
    BY <2>1, <2>2, <2>3, <2>4, <2>5, <2>6, <2>7 DEF OrderedStep
<1>2. QED
  BY <1>1, InOrder, Invariant, PTL DEF Spec, PromisesTakenBack

-----------------------------------------------------------------------------
(* The allocation of bays that Bays implements.                            *)

\* The bay car p was given, and the one it stands in: given and stands of Allocation.
GivenTo(p) ==
  IF sess[p].phase \in {"assigned", "parked"} /\ sess[p].stay # "left" THEN sess[p].spot ELSE "none"
StandsAt(p) == IF pos[p] \in BayNames /\ Inside(p, pos[p]) THEN pos[p] ELSE "none"

\* It stands where it is, once all its webhooks were handled.
StandsWhereItIs ==
  \A p \in Plates : StandsAt(p) = IF pos[p] \in BayNames /\ inbox[p] = <<>> THEN pos[p] ELSE "none"

LEMMA StandsWhere == Ordered => StandsWhereItIs
<1> SUFFICES ASSUME Ordered, NEW p \in Plates
             PROVE  StandsAt(p) = IF pos[p] \in BayNames /\ inbox[p] = <<>> THEN pos[p] ELSE "none"
  BY DEF StandsWhereItIs
<1>1. CASE pos[p] \in BayNames /\ Inside(p, pos[p])
  BY <1>1, InsideHasIt DEF StandsAt
<1>2. CASE pos[p] \in BayNames /\ inbox[p] = <<>>
  <2>1. DOMAIN inbox[p] = {}
    BY <1>2
  <2>2. Inside(p, pos[p])
    BY <2>1 DEF Inside
  <2>3. QED
    BY <1>2, <2>2 DEF StandsAt
<1>3. QED
  BY <1>1, <1>2 DEF StandsAt

LEMMA StandsWhereNext == Ordered' => StandsWhereItIs'
BY StandsWhere, PTL

\* A car stands only in the bay it was given, and a given bay is its car's.
LEMMA GivenFacts ==
  ASSUME TypeOK, Ordered, NEW p \in Plates
  PROVE  /\ StandsAt(p) # "none" => StandsAt(p) = GivenTo(p)
         /\ GivenTo(p) # "none" => GivenTo(p) \in BayNames /\ bay[GivenTo(p)].who = p
<1>0. sess[p].stay \in {"driving", "parked", "left"}
  BY TypeFacts DEF Session
<1>1. Shape(sess[p]) /\ Kept(p) /\ sess[p].spot \in BayNames \cup {"none"}
  BY OrderedFacts, TypeFacts, SessionFacts
<1>2. StandsAt(p) # "none" => StandsAt(p) = GivenTo(p)
  BY InsideHasIt DEF StandsAt, GivenTo, InBay
<1>3. GivenTo(p) # "none" => GivenTo(p) \in BayNames /\ bay[GivenTo(p)].who = p
  BY <1>0, <1>1 DEF GivenTo, Shape, Kept, Held
<1>4. QED
  BY <1>2, <1>3

\* The steps of Allocation, in these words.
LEMMA AllocationSteps ==
  ASSUME TypeOK
  PROVE  /\ (\A p \in Plates : GivenTo(p)' = GivenTo(p) /\ StandsAt(p)' = StandsAt(p)) =>
              UNCHANGED Allocation!vars
         /\ \A p \in Plates, b \in BayNames :
              /\ GivenTo(p) = "none" /\ GivenTo(p)' = b
              /\ \A q \in Plates : b # GivenTo(q) /\ b # StandsAt(q)
              /\ \A q \in Plates \ {p} : GivenTo(q)' = GivenTo(q)
              /\ \A q \in Plates : StandsAt(q)' = StandsAt(q)
              => Allocation!Give(p, b)
         /\ \A ps \in SUBSET Plates :
              /\ \A p \in ps : StandsAt(p) = "none" /\ GivenTo(p)' = "none"
              /\ \A q \in Plates \ ps : GivenTo(q)' = GivenTo(q)
              /\ \A q \in Plates : StandsAt(q)' = StandsAt(q)
              => Allocation!TakeBack(ps)
         /\ \A p \in Plates :
              /\ GivenTo(p) # "none" /\ StandsAt(p) = "none" /\ StandsAt(p)' = GivenTo(p)
              /\ \A q \in Plates : GivenTo(q)' = GivenTo(q)
              /\ \A q \in Plates \ {p} : StandsAt(q)' = StandsAt(q)
              => Allocation!Park(p)
         /\ \A p \in Plates :
              /\ StandsAt(p) # "none" /\ StandsAt(p)' = "none"
              /\ \A q \in Plates : GivenTo(q)' = GivenTo(q)
              /\ \A q \in Plates \ {p} : StandsAt(q)' = StandsAt(q)
              => Allocation!Leave(p)
BY DEF Allocation!vars, Allocation!Give, Allocation!TakeBack, Allocation!Park, Allocation!Leave,
       GivenTo, StandsAt

Allocates == Allocation!Next \/ UNCHANGED Allocation!vars

LEMMA GivenFrame ==
  ASSUME NEW q, sess'[q] = sess[q]
  PROVE  GivenTo(q)' = GivenTo(q)
BY DEF GivenTo

LEMMA StandsFrame ==
  ASSUME Ordered, Ordered', NEW q \in Plates, pos'[q] = pos[q], inbox'[q] = inbox[q]
  PROVE  StandsAt(q)' = StandsAt(q)
BY StandsWhere, StandsWhereNext DEF StandsWhereItIs

\* Nothing is seen of a step that changes no session, and moves at most a car that
\* stood nowhere before and stands nowhere after it.
LEMMA Unseen ==
  ASSUME TypeOK, Ordered, Ordered', sess' = sess,
         \A q \in Plates : \/ pos'[q] = pos[q] /\ inbox'[q] = inbox[q]
                           \/ StandsAt(q) = "none" /\ StandsAt(q)' = "none"
  PROVE  Allocates
<1>1. \A q \in Plates : GivenTo(q)' = GivenTo(q)
  BY GivenFrame
<1>2. ASSUME NEW q \in Plates
      PROVE  StandsAt(q)' = StandsAt(q)
  BY StandsFrame
<1>3. QED
  BY <1>1, <1>2, AllocationSteps DEF Allocates

LEMMA DrivesAllocate ==
  ASSUME TypeOK, Ordered, Ordered', NEW p \in Plates, Arrive(p) \/ DriveIn(p) \/ Neglect(p)
  PROVE  Allocates
<1>1. /\ sess' = sess /\ \A q \in Plates \ {p} : pos'[q] = pos[q] /\ inbox'[q] = inbox[q]
      /\ pos[p] \notin BayNames /\ pos'[p] \notin BayNames
  BY TypeFacts, BaysAssumption DEF Arrive, DriveIn, Neglect, Post, Outside, Places
<1>2. StandsAt(p) = "none" /\ StandsAt(p)' = "none"
  BY <1>1 DEF StandsAt
<1>3. QED
  BY <1>1, <1>2, Unseen

LEMMA ParkAtAllocates ==
  ASSUME TypeOK, Ordered, Ordered', NEW p \in Plates, NEW b \in BayNames, ParkAt(p, b), b = goal[p]
  PROVE  Allocates
<1>1. /\ sess' = sess /\ \A q \in Plates \ {p} : pos'[q] = pos[q] /\ inbox'[q] = inbox[q]
      /\ pos[p] = "road" /\ goal[p] # "none" /\ inbox'[p] = inbox[p] \o Parks(b)
  BY TypeFacts, PostFacts DEF ParkAt, Outside, Parks
<1>2. Sent(p, b)
  BY <1>1, StageOfPlace, OrderedFacts
<1>3. inbox'[p] # <<>>
  BY <1>1, <1>2, Appended, HeadsTails DEF Sent
<1>4. StandsAt(p) = "none"
  BY <1>1, BaysAssumption DEF StandsAt, Places
<1>5. StandsAt(p)' = "none"
  BY <1>3, StandsWhereNext DEF StandsWhereItIs
<1>6. QED
  BY <1>1, <1>4, <1>5, Unseen

LEMMA LeaveAllocates ==
  ASSUME TypeOK, Ordered, Ordered', NEW p \in Plates, Leave(p)
  PROVE  Allocates
<1>1. /\ sess' = sess /\ \A q \in Plates \ {p} : pos'[q] = pos[q] /\ inbox'[q] = inbox[q]
      /\ pos'[p] = "away"
  BY TypeFacts DEF Leave, Post, Outside
<1>2. StandsAt(p)' = "none"
  BY <1>1, BaysAssumption DEF StandsAt, Places
<1>3. CASE StandsAt(p) = "none"
  BY <1>1, <1>2, <1>3, Unseen
<1>4. CASE StandsAt(p) # "none"
  <2>1. \A q \in Plates : GivenTo(q)' = GivenTo(q)
    BY <1>1, GivenFrame
  <2>2. \A q \in Plates \ {p} : StandsAt(q)' = StandsAt(q)
    BY <1>1, StandsFrame
  <2>3. Allocation!Leave(p)
    BY <1>2, <1>4, <2>1, <2>2, AllocationSteps
  <2>4. QED
    BY <2>3 DEF Allocates, Allocation!Next
<1>5. QED
  BY <1>3, <1>4

\* Sessions of cars that stand nowhere end.
LEMMA TakesBack ==
  ASSUME TypeOK, Ordered, Ordered', UNCHANGED <<pos, inbox>>, NEW ps \in SUBSET Plates,
         \A q \in ps : pos[q] = "away" /\ GivenTo(q)' = "none",
         \A q \in Plates \ ps : GivenTo(q)' = GivenTo(q)
  PROVE  Allocates
<1>1. \A q \in Plates : StandsAt(q)' = StandsAt(q)
  BY StandsFrame
<1>2. \A q \in ps : StandsAt(q) = "none"
  BY BaysAssumption DEF StandsAt, Places
<1>3. Allocation!TakeBack(ps)
  BY <1>1, <1>2, AllocationSteps
<1>4. QED
  BY <1>3 DEF Allocates, Allocation!Next

LEMMA NobodyGiven ==
  ASSUME NEW q
  PROVE  sess'[q] = Nobody => GivenTo(q)' = "none"
BY DEF GivenTo, Nobody

LEMMA BeginAllocates ==
  ASSUME IInv, Ordered, Ordered', NEW c \in calls, Begin(c), used'["slow"] = 0
  PROVE  Allocates
<1>1. TypeOK /\ UNCHANGED <<pos, inbox>> /\ c.plate \in Plates
  BY TypeFacts, CallFacts DEF IInv, Begin, simulator
<1>2. CASE sess' = sess
  BY <1>1, <1>2, Unseen
<1>3. CASE sess' # sess
  <2>1. /\ sess[c.plate].id = 0
        /\ \E late \in SUBSET Plates :
             /\ c.plate \notin late /\ Overstay(late)
             /\ sess' = [q \in Plates |-> IF q \in late THEN Nobody
                                          ELSE IF q = c.plate THEN [Nobody EXCEPT !.id = ids + 1]
                                          ELSE sess[q]]
    BY <1>3, BeginShape
  <2>2. PICK late \in SUBSET Plates :
             /\ c.plate \notin late /\ Overstay(late)
             /\ sess' = [q \in Plates |-> IF q \in late THEN Nobody
                                          ELSE IF q = c.plate THEN [Nobody EXCEPT !.id = ids + 1]
                                          ELSE sess[q]]
    BY <2>1
  <2>3. \A q \in late : pos[q] = "away" /\ GivenTo(q)' = "none"
    BY <1>1, <2>2, LateCars, NobodyGiven
  <2>4. GivenTo(c.plate)' = GivenTo(c.plate)
    <3>1. sess'[c.plate].phase = "arrived"
      BY <1>1, <2>2 DEF Nobody
    <3>2. sess[c.plate].phase = "arrived"
      <4>1. Shape(sess[c.plate])
        BY <1>1, OrderedFacts
      <4>2. QED
        BY <2>1, <4>1 DEF Shape
    <3>3. QED
      BY <3>1, <3>2 DEF GivenTo
  <2>5. \A q \in Plates \ late : GivenTo(q)' = GivenTo(q)
    BY <2>2, <2>4, GivenFrame
  <2>6. QED
    BY <1>1, <2>3, <2>5, TakesBack
<1>4. QED
  BY <1>2, <1>3

LEMMA ReapAllocates ==
  ASSUME TypeOK, Ordered, Ordered', Reap, used'["slow"] = 0
  PROVE  Allocates
<1>1. UNCHANGED <<pos, inbox>>
  BY DEF Reap, simulator
<1>2. PICK late \in SUBSET Plates : Overstay(late) /\ Complete(late)
  BY DEF Reap
<1>3. \A q \in late : pos[q] = "away" /\ GivenTo(q)' = "none"
  BY <1>2, LateCars, NobodyGiven DEF Complete
<1>4. \A q \in Plates \ late : GivenTo(q)' = GivenTo(q)
  BY <1>2, GivenFrame DEF Complete
<1>5. QED
  BY <1>1, <1>3, <1>4, TakesBack

LEMMA ResumeAllocates ==
  ASSUME TypeOK, Ordered, Ordered', NEW c \in calls, Resume(c)
  PROVE  Allocates
<1> DEFINE p == c.plate
<1>1. p \in Plates /\ sess[p].phase = "arrived" /\ inbox' = inbox
  BY GoesOn
<1>2. GivenTo(p) = "none"
  BY <1>1 DEF GivenTo
<1>3. ASSUME NEW b \in BayNames, Reserve(c, b)
      PROVE  Allocates
  <2>1. pos' = pos
    BY <1>3 DEF Reserve, simulator
  <2>2. CASE sess' = sess
    BY <1>1, <2>1, <2>2, Unseen
  <2>3. CASE sess' # sess
    <3>1. sess' = [sess EXCEPT ![p].spot = b, ![p].phase = "assigned"] /\ bay[b].who = "none"
      BY <1>3, <2>3, CandidateFacts DEF Reserve, AssignSpot
    <3>2. sess[p] \in Session /\ sess \in [Plates -> Session] /\ Shape(sess[p])
      BY <1>1, TypeFacts, OrderedFacts
    <3>3. sess'[p] = [sess[p] EXCEPT !.spot = b, !.phase = "assigned"]
      BY <1>1, <3>1, <3>2
    <3>4. sess'[p].spot = b /\ sess'[p].phase = "assigned" /\ sess'[p].stay = sess[p].stay
      BY <3>2, <3>3 DEF Session
    <3>5. GivenTo(p)' = b
      BY <1>1, <3>2, <3>4 DEF GivenTo, Shape
    <3>6. \A q \in Plates \ {p} : GivenTo(q)' = GivenTo(q)
      BY <3>1, <3>2, GivenFrame
    <3>7. \A q \in Plates : StandsAt(q)' = StandsAt(q)
      BY <1>1, <2>1, StandsFrame
    <3>8. \A q \in Plates : b # GivenTo(q) /\ b # StandsAt(q)
      BY <3>1, GivenFacts, BaysAssumption
    <3>9. Allocation!Give(p, b)
      BY <1>1, <1>2, <3>5, <3>6, <3>7, <3>8, AllocationSteps
    <3>10. QED
      BY <1>1, <3>9 DEF Allocates, Allocation!Next
  <2>4. QED
    BY <2>2, <2>3
<1>4. CASE NoGate(c) \/ TurnAway(c) \/ Unavailable(c)
  <2>1. /\ \A q \in Plates \ {p} : pos'[q] = pos[q] /\ sess'[q] = sess[q]
        /\ \/ pos'[p] = pos[p] /\ sess'[p] = sess[p]
           \/ pos[p] = "entry" /\ pos'[p] = "away" /\ sess'[p] = Nobody
    BY <1>1, <1>4, TypeFacts DEF NoGate, TurnAway, Unavailable, simulator, Complete
  <2>2. GivenTo(p)' = GivenTo(p)
    BY <1>2, <2>1, GivenFrame, NobodyGiven
  <2>3. StandsAt(p)' = StandsAt(p)
    <3>1. CASE pos'[p] = pos[p]
      BY <1>1, <3>1, StandsFrame
    <3>2. CASE pos[p] = "entry" /\ pos'[p] = "away"
      BY <3>2, BaysAssumption DEF StandsAt, Places
    <3>3. QED
      BY <2>1, <3>1, <3>2
  <2>4. \A q \in Plates \ {p} : GivenTo(q)' = GivenTo(q) /\ StandsAt(q)' = StandsAt(q)
    BY <1>1, <2>1, GivenFrame, StandsFrame
  <2>5. QED
    BY <2>2, <2>3, <2>4, AllocationSteps DEF Allocates
<1>5. QED
  BY <1>3, <1>4 DEF Resume

LEMMA EntriesAllocate ==
  ASSUME TypeOK, Ordered, Ordered', NEW p \in Plates, EntryIn(p) \/ EntryOut(p) \/ Gone(p)
  PROVE  Allocates
<1>1. PICK kind \in {"entry", "entryOut", "gone"} : Handle(p, kind, "none")
  BY DEF EntryIn, EntryOut, Gone
<1>2. /\ inbox[p] # <<>> /\ Head(inbox[p]) = Event(kind, "none") /\ inbox'[p] = Tail(inbox[p])
      /\ \A q \in Plates \ {p} : inbox'[q] = inbox[q]
      /\ pos' = pos /\ Course(p) /\ Shape(sess[p])
  BY <1>1, HandleFacts
<1>3. StandsAt(p) = "none"
  BY <1>2, StandsWhere DEF StandsWhereItIs
<1>4. StandsAt(p)' = "none"
  <2>1. CASE pos[p] \notin BayNames
    BY <1>2, <2>1 DEF StandsAt
  <2>2. ASSUME NEW b \in BayNames, pos[p] = b
        PROVE  inbox'[p] # <<>>
    <3>1. Within(p, b)
      BY <1>2, <2>2, StageOfPlace
    <3>2. inbox[p] = CameIn(b)
      BY <1>1, <1>2, <3>1, HeadsTails, EventFields DEF Within
    <3>3. QED
      BY <1>2, <3>2, HeadsTails
  <2>3. QED
    BY <1>2, <2>1, <2>2, StandsWhereNext DEF StandsWhereItIs
<1>5. \A q \in Plates : StandsAt(q)' = StandsAt(q)
  BY <1>2, <1>3, <1>4, StandsFrame
<1>6. \A q \in Plates \ {p} : GivenTo(q)' = GivenTo(q)
  <2>1. \A q \in Plates \ {p} : sess'[q] = sess[q]
    BY TypeFacts DEF EntryIn, EntryOut, Gone, parking, Complete
  <2>2. QED
    BY <2>1, GivenFrame
<1>7. GivenTo(p)' = GivenTo(p)
  <2>1. CASE EntryIn(p)
    BY <2>1, GivenFrame DEF EntryIn, parking
  <2>2. CASE EntryOut(p)
    <3>1. \/ sess'[p] = sess[p]
          \/ sess[p].spot = "none" /\ sess'[p] = Nobody
          \/ sess'[p] = [sess[p] EXCEPT !.departed = TRUE]
      BY <2>2, TypeFacts DEF EntryOut, Complete
    <3>2. LET s == [sess[p] EXCEPT !.departed = TRUE]
          IN  s.phase = sess[p].phase /\ s.stay = sess[p].stay /\ s.spot = sess[p].spot
      BY TypeFacts DEF Session
    <3>3. sess[p].spot = "none" => GivenTo(p) = "none"
      BY DEF GivenTo
    <3>4. CASE sess'[p] = [sess[p] EXCEPT !.departed = TRUE]
      BY <3>2, <3>4 DEF GivenTo
    <3>5. QED
      BY <3>1, <3>3, <3>4, GivenFrame, NobodyGiven
  <2>3. CASE Gone(p)
    <3>1. sess'[p] = sess[p] \/ sess'[p] = Nobody
      BY <2>3 DEF Gone, parking, Complete
    <3>2. kind = "gone"
      BY <1>2, <2>3, EventFields DEF Gone, Handle
    <3>3. Exiting(p)
      <4>1. CASE BayNames = {}
        BY <1>2, <3>2, <4>1, HeadsTails, EventFields
           DEF Course, Absent, Arrived, Waits, Refused, Exiting
      <4>2. CASE BayNames # {}
        BY <1>2, <3>2, <4>2, StageOfHead
      <4>3. QED
        BY <4>1, <4>2
    <3>4. GivenTo(p) = "none"
      BY <3>3 DEF GivenTo, Exiting
    <3>5. QED
      BY <3>1, <3>4, GivenFrame, NobodyGiven
  <2>4. QED
    BY <2>1, <2>2, <2>3
<1>8. QED
  BY <1>5, <1>6, <1>7, AllocationSteps DEF Allocates

LEMMA ParkInAllocates ==
  ASSUME TypeOK, Ordered, Ordered', NEW p \in Plates, NEW b \in BayNames, ParkIn(p, b)
  PROVE  Allocates
<1>1. /\ \/ Leaving(p, b) /\ inbox[p] = Parked(b)
         \/ Within(p, b) /\ inbox[p] = Parks(b)
      /\ Assigned(p, b)
      /\ sess'[p].phase = "parked" /\ sess'[p].stay = "parked" /\ sess'[p].spot = b
      /\ \A q \in Plates \ {p} : sess'[q] = sess[q]
  BY ParkInShape
<1>2. inbox'[p] = Tail(inbox[p]) /\ (\A q \in Plates \ {p} : inbox'[q] = inbox[q]) /\ pos' = pos
  BY HandleFacts DEF ParkIn
<1>3. \A q \in Plates : GivenTo(q)' = GivenTo(q)
  <2>1. GivenTo(p) = b
    BY <1>1, OrderedFacts DEF GivenTo, Assigned, Shape
  <2>2. GivenTo(p)' = b
    BY <1>1 DEF GivenTo
  <2>3. QED
    BY <1>1, <2>1, <2>2, GivenFrame
<1>4. \A q \in Plates \ {p} : StandsAt(q)' = StandsAt(q)
  BY <1>2, StandsFrame
<1>5. CASE Leaving(p, b)
  <2>1. StandsAt(p) = "none" /\ StandsAt(p)' = "none"
    BY <1>2, <1>5, BaysAssumption DEF Leaving, StandsAt, Places
  <2>2. QED
    BY <1>3, <1>4, <2>1, AllocationSteps DEF Allocates
<1>6. CASE Within(p, b) /\ inbox[p] = Parks(b)
  <2>1. StandsAt(p) = "none"
    BY <1>6, HeadsTails, StandsWhere DEF StandsWhereItIs
  <2>2. StandsAt(p)' = b
    BY <1>2, <1>6, HeadsTails, StandsWhereNext DEF StandsWhereItIs, Within
  <2>3. GivenTo(p) = b /\ b # "none"
    BY <1>1, OrderedFacts, BaysAssumption DEF GivenTo, Assigned, Shape
  <2>4. Allocation!Park(p)
    BY <1>3, <1>4, <2>1, <2>2, <2>3, AllocationSteps
  <2>5. QED
    BY <2>4 DEF Allocates, Allocation!Next
<1>7. QED
  BY <1>1, <1>5, <1>6

LEMMA ParkOutAllocates ==
  ASSUME TypeOK, Ordered, Ordered', NEW p \in Plates, NEW b \in BayNames, ParkOut(p, b)
  PROVE  Allocates
<1>1. Leaving(p, b) /\ sess'[p].stay = "left" /\ \A q \in Plates \ {p} : sess'[q] = sess[q]
  BY ParkOutShape
<1>2. (\A q \in Plates \ {p} : inbox'[q] = inbox[q]) /\ pos' = pos
  BY HandleFacts DEF ParkOut
<1>3. StandsAt(p) = "none" /\ StandsAt(p)' = "none"
  BY <1>1, <1>2, BaysAssumption DEF Leaving, StandsAt, Places
<1>4. GivenTo(p)' = "none"
  BY <1>1 DEF GivenTo
<1>5. \A q \in Plates : StandsAt(q)' = StandsAt(q)
  BY <1>2, <1>3, StandsFrame
<1>6. \A q \in Plates \ {p} : GivenTo(q)' = GivenTo(q)
  BY <1>1, GivenFrame
<1>7. Allocation!TakeBack({p})
  BY <1>3, <1>4, <1>5, <1>6, AllocationSteps
<1>8. QED
  BY <1>7 DEF Allocates, Allocation!Next

LEMMA NeglectedAllocates ==
  ASSUME TypeOK, Ordered, Ordered', NEW p \in Plates, Neglected(p)
  PROVE  Allocates
<1>1. UNCHANGED <<pos, inbox>> /\ Report("neglect", "none", p) \in news
  BY DEF Neglected, HandleNews, simulator
<1>2. pos[p] = "away"
  <2>1. Report("neglect", "none", p).plate = p /\ p # "none"
    BY EventFields, BaysAssumption
  <2>2. QED
    BY <1>1, <2>1, OrderedFacts DEF NewsFits
<1>3. CASE sess' = sess
  BY <1>1, <1>3, Unseen
<1>4. CASE sess' # sess
  <2>1. sess'[p] = Nobody /\ \A q \in Plates \ {p} : sess'[q] = sess[q]
    BY <1>4 DEF Neglected, parking, Complete
  <2>2. \A q \in {p} : pos[q] = "away" /\ GivenTo(q)' = "none"
    BY <1>2, <2>1, NobodyGiven
  <2>3. \A q \in Plates \ {p} : GivenTo(q)' = GivenTo(q)
    BY <2>1, GivenFrame
  <2>4. {p} \in SUBSET Plates
    OBVIOUS
  <2>5. QED
    BY <1>1, <2>2, <2>3, <2>4, TakesBack
<1>5. QED
  BY <1>3, <1>4

\* Bays implements BayAllocation as long as cars park where they are sent, staff and
\* syncs leave the bays alone and only those who are gone are archived: a bay is given
\* to one car at a time, and never while a car stands in it (dispatch_entry, mark_parked,
\* mark_left_spot, complete_session, reap_orphans, _handle_penalty).
THEOREM AllocatesThem == Spec /\ []Orderly => AllocatesBays
<1>1. Init => Allocation!Init
  <2> SUFFICES ASSUME Init PROVE Allocation!Init
    OBVIOUS
  <2>2. ASSUME NEW p \in Plates
        PROVE  GivenTo(p) = "none" /\ StandsAt(p) = "none"
    <3>1. pos[p] = "away" /\ sess[p] = Nobody
      BY DEF Init
    <3>2. Nobody.phase = "arrived"
      BY DEF Nobody
    <3>3. QED
      BY <3>1, <3>2, BaysAssumption DEF GivenTo, StandsAt, Places
  <2>3. QED
    BY <2>2 DEF Allocation!Init, GivenTo, StandsAt
<1>2. IInv /\ Ordered /\ Ordered' /\ Orderly' /\ [Next]_vars => [Allocation!Next]_(Allocation!vars)
  <2> SUFFICES ASSUME IInv, Ordered, Ordered', Orderly', [Next]_vars
               PROVE  Allocates
    BY DEF Allocates
  <2>1. TypeOK /\ used'["slow"] = 0
    BY DEF IInv, Orderly, Disorders
  <2>2. CASE UNCHANGED vars
    <3>1. UNCHANGED <<pos, inbox, sess>>
      BY <2>2 DEF vars
    <3>2. QED
      BY <2>1, <3>1, Unseen
  <2>3. CASE Next
    <3>1. OrderedStep
      BY <2>1, <2>3, StepsTaken
    <3>2. CASE \E p \in Plates : Arrive(p) \/ DriveIn(p) \/ Neglect(p) \/ Leave(p)
      BY <2>1, <3>2, DrivesAllocate, LeaveAllocates
    <3>3. CASE \E p \in Plates, b \in BayNames : ParkAt(p, b) /\ b = goal[p]
      BY <2>1, <3>3, ParkAtAllocates
    <3>4. CASE \/ \E b \in BayNames : Break(b) \/ Mend(b)
               \/ \E p \in Plates : LegStep(p)
               \/ \E b \in BayNames : BayBroken(b) \/ BayFixed(b)
               \/ \E b \in BayNames : Maintain(b) \/ RepairStep(b)
               \/ EnsureOpen
      <4>1. UNCHANGED <<pos, inbox, sess>>
        BY <3>4 DEF Break, Mend, Outside, LegStep, LegCheck, LegEnds, LegSends, LegUnchanged, Goto,
                    simulator, BayBroken, BayFixed, HandleNews, Maintain, RepairStep, RepairPutOff,
                    RepairSent, RepairAnswered, RepairRetried, RepairDropped, RepairUnchanged,
                    EnsureOpen, parking
      <4>2. QED
        BY <2>1, <4>1, Unseen
    <3>5. CASE \E p \in Plates : EntryIn(p) \/ EntryOut(p) \/ Gone(p) \/ Neglected(p)
      BY <2>1, <3>5, EntriesAllocate, NeglectedAllocates
    <3>6. CASE \E p \in Plates, b \in BayNames : ParkIn(p, b) \/ ParkOut(p, b)
      BY <2>1, <3>6, ParkInAllocates, ParkOutAllocates
    <3>7. CASE \E c \in calls : Begin(c) \/ Resume(c)
      BY <2>1, <3>7, BeginAllocates, ResumeAllocates
    <3>8. CASE Reap
      BY <2>1, <3>8, ReapAllocates
    <3>9. QED
      BY <3>1, <3>2, <3>3, <3>4, <3>5, <3>6, <3>7, <3>8 DEF OrderedStep
  <2>4. QED
    BY <2>2, <2>3
<1>3. QED
  BY <1>1, <1>2, InOrder, Invariant, PTL DEF Spec, AllocatesBays, Allocation!Spec

\* Till the first disorder no bay is given to two cars, and a car whose arrival was handled
\* stands in the bay it was given (reserve_spot, mark_parked), the two promises of
\* BayAllocation.
THEOREM OneCarPerBay == Spec => [](Orderly => Allocation!Exclusive /\ Allocation!StandsInGiven)
<1>1. TypeOK /\ Ordered => Allocation!Exclusive /\ Allocation!StandsInGiven
  <2> SUFFICES ASSUME TypeOK, Ordered
               PROVE  /\ \A p, q \in Plates : GivenTo(p) = GivenTo(q) /\ GivenTo(p) # "none" => p = q
                      /\ \A p \in Plates : StandsAt(p) \in {"none", GivenTo(p)}
    BY DEF Allocation!Exclusive, Allocation!StandsInGiven, GivenTo, StandsAt
  <2>1. QED
    BY GivenFacts
<1>2. QED
  BY <1>1, InOrder, TypeCorrect, PTL

-----------------------------------------------------------------------------
(* Where there is no disorder.                                             *)

\* In a run whose bounds allow none of the four disorders, all four hold without
\* further ado: a bay with a car in it is neither free nor promised, no repair is sent for
\* it, promises are taken back, and bays are given to one car at a time.
THEOREM NoDisorder ==
  (\A k \in Disorders : Limit[k] = 0) /\ Spec =>
    []FreeIsEmpty /\ RepairsSpareCars /\ PromisesTakenBack /\ AllocatesBays
<1> SUFFICES ASSUME \A k \in Disorders : Limit[k] = 0
             PROVE  Spec => []FreeIsEmpty /\ RepairsSpareCars /\ PromisesTakenBack /\ AllocatesBays
  OBVIOUS
<1>1. Init => Orderly
  BY DEF Init, Orderly, Disorders, Rare
<1>2. TypeOK /\ Orderly /\ [Next]_vars => Orderly'
  <2> SUFFICES ASSUME TypeOK, Orderly, [Next]_vars, NEW k \in Disorders
               PROVE  used'[k] = 0
    BY DEF Orderly
  <2>1. k \in Rare /\ k # "all" /\ used[k] = 0 /\ used \in [Rare -> Nat]
    BY TypeFacts DEF Disorders, Rare, Orderly
  <2>2. ~Rarely(k)
    BY <2>1 DEF Rarely
  <2>3. ASSUME NEW j \in Rare, Rarely(j), j # k
        PROVE  used'[k] = used[k]
    BY <2>1, <2>3 DEF Rarely
  <2>4. QED
    BY <2>1, <2>2, <2>3, UsedChanges
<1>3. Spec => []Orderly
  BY <1>1, <1>2, TypeCorrect, PTL DEF Spec
<1>4. QED
  BY <1>3, OccupiedIsNotFree, RepairsSpare, PromisesKept, AllocatesThem, PTL

=============================================================================

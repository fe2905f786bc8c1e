--------------------------- MODULE BillingProofs ---------------------------
(***************************************************************************)
(* Proofs about Billing, for any exits, staff and bounds.                  *)
(***************************************************************************)
EXTENDS Billing, FiniteSetTheorems, TLAPS

USE BillingAssumption

-----------------------------------------------------------------------------
(* What the helpers on sessions return.                                    *)

LEMMA FreshType ==
  ASSUME NEW id \in 0 .. MaxSessions, NEW kind \in {"gate", "adopted", "ghost", "override"}
  PROVE  Fresh(id, kind) \in Session /\ Fresh(id, kind).sid = id
BY DEF Fresh, Session

LEMMA UpdateType ==
  ASSUME NEW s \in Session
  PROVE  /\ Left(s) \in Session /\ Charged(s) \in Session /\ Paid(s) \in Session
         /\ \A x \in Exits : AtItsExit(s, x) \in Session
         /\ \A x \in Amounts \cup {"none"} : [s EXCEPT !.expected = x] \in Session
         /\ \A x \in BOOLEAN : [s EXCEPT !.attempted = x] \in Session
         /\ [s EXCEPT !.retries = @ + 1] \in Session
         /\ [s EXCEPT !.released = TRUE] \in Session
         /\ [s EXCEPT !.authorized = TRUE] \in Session
         /\ [s EXCEPT !.declined = TRUE] \in Session
         /\ [s EXCEPT !.ghost = TRUE] \in Session
         /\ [s EXCEPT !.entry = "gate"] \in Session
         /\ [s EXCEPT !.stay = "parked"] \in Session
<1>1. Left(s) \in Session
  BY DEF Left, Session
<1>2. Charged(s) \in Session
  BY DEF Charged, Session
<1>3. Paid(s) \in Session
  BY DEF Paid, Session
<1>4. \A x \in Exits : AtItsExit(s, x) \in Session
  BY DEF AtItsExit, Session
<1>5. \A x \in Amounts \cup {"none"} : [s EXCEPT !.expected = x] \in Session
  BY DEF Session
<1>6. \A x \in BOOLEAN : [s EXCEPT !.attempted = x] \in Session
  BY DEF Session
<1>7. [s EXCEPT !.retries = @ + 1] \in Session
  BY DEF Session
<1>8. [s EXCEPT !.released = TRUE] \in Session /\ [s EXCEPT !.authorized = TRUE] \in Session
  BY DEF Session
<1>9. [s EXCEPT !.declined = TRUE] \in Session /\ [s EXCEPT !.ghost = TRUE] \in Session
  BY DEF Session
<1>10. [s EXCEPT !.entry = "gate"] \in Session /\ [s EXCEPT !.stay = "parked"] \in Session
  BY DEF Session
<1>11. QED
  BY <1>1, <1>2, <1>3, <1>4, <1>5, <1>6, <1>7, <1>8, <1>9, <1>10

LEMMA SaveType ==
  ASSUME TypeOK, NEW s \in Session, Save(s)
  PROVE  sess' \in Session /\ row' \in Row
BY DEF Save, Upserted, Row, TypeOK, Session

LEMMA RestoredType ==
  ASSUME NEW r \in Row
  PROVE  Restored(r) \in Session
<1>1. r.saved \in Session /\ r.claimed \in BOOLEAN
  BY DEF Row
<1>2. [r.saved EXCEPT !.attempted = r.claimed] \in Session
  BY <1>1, UpdateType
<1>3. Nobody \in Session
  BY FreshType DEF Nobody
<1>4. QED
  BY <1>2, <1>3 DEF Restored

-----------------------------------------------------------------------------
(* Type correctness.                                                       *)

LEMMA InitType == Init => TypeOK
<1>1. Nobody \in Session
  BY FreshType DEF Nobody
<1>2. NoRow \in Row
  BY <1>1 DEF NoRow, Row
<1>3. <<>> \in Seq(Webhook)
  OBVIOUS
<1>4. [k \in Rare |-> 0] \in [Rare -> Nat] /\ [s \in Sids |-> 0] \in [Sids -> Nat]
  OBVIOUS
<1>5. SUFFICES ASSUME Init PROVE TypeOK
  OBVIOUS
<1>6. used \in [Rare -> Nat] /\ invoices \in [Sids -> Nat] /\ inbox \in Seq(Webhook)
  BY <1>3, <1>4, <1>5 DEF Init
<1>7. sess \in Session /\ row \in Row /\ visits \in 0 .. MaxVisits /\ made \in 0 .. MaxSessions
  BY <1>1, <1>2, <1>5 DEF Init
<1>8. QED
  BY <1>5, <1>6, <1>7 DEF Init, TypeOK

LEMMA RarelyType ==
  ASSUME TypeOK, NEW k \in Rare \ {"all"}, Rarely(k)
  PROVE  used' \in [Rare -> Nat] /\ (k = "early" => used'["early"] # 0)
                                 /\ (used["early"] # 0 => used'["early"] # 0)
<1> DEFINE f == [used EXCEPT ![k] = used[k] + 1]
<1>1. used \in [Rare -> Nat] /\ "all" \in Rare /\ "early" \in Rare
  BY DEF TypeOK, Rare
<1>2. used' = [f EXCEPT !["all"] = used["all"] + 1]
  BY DEF Rarely
<1>3. f \in [Rare -> Nat] /\ \A j \in Rare : f[j] = used[j] + (IF j = k THEN 1 ELSE 0)
  BY <1>1
<1> HIDE DEF f
<1>4. used' \in [Rare -> Nat]
  BY <1>1, <1>2, <1>3
<1>5. \A j \in Rare \ {"all"} : used'[j] = f[j]
  BY <1>1, <1>2, <1>3
<1>6. QED
  BY <1>1, <1>3, <1>4, <1>5

LEMMA EventType ==
  ASSUME NEW kind \in {"entry", "park", "left", "exitIn", "exitOut", "paid"},
         NEW what \in Exits \cup Amounts \cup {"none", "wrong"}
  PROVE  Event(kind, what) \in Webhook /\ <<Event(kind, what)>> \in Seq(Webhook)
BY DEF Event, Webhook

LEMMA PostType ==
  ASSUME TypeOK, NEW ms \in Seq(Webhook), Post(ms)
  PROVE  /\ inbox' \in Seq(Webhook)
         /\ UNCHANGED <<stripe, sess, made, tasks, synced, row, deletes, ghost, invoices, claims>>
BY DEF Post, TypeOK, memory, disk, history

LEMMA ArriveType ==
  ASSUME TypeOK, NEW ms \in Seq(Webhook), Arrive(ms)
  PROVE  TypeOK'
<1>1. Post(ms) /\ at' = "road" /\ visits' \in 0 .. MaxVisits /\ UNCHANGED <<due, told, used>>
  BY DEF Arrive, TypeOK
<1>2. QED
  BY <1>1, PostType DEF TypeOK

LEMMA CarType ==
  ASSUME TypeOK, Car
  PROVE  TypeOK'
<1>1. CASE Arrive(<<Event("entry", "none")>>)
  BY <1>1, EventType, ArriveType
<1>2. CASE Arrive(<<>>)
  <2>1. <<>> \in Seq(Webhook)
    OBVIOUS
  <2>2. QED
    BY <1>2, <2>1, ArriveType
<1>3. CASE Park
  <2>1. Post(<<Event("park", "none")>>) /\ at' = "bay" /\ UNCHANGED <<due, told, visits, used>>
    BY <1>3 DEF Park
  <2>2. QED
    BY EventType, <2>1, PostType DEF TypeOK
<1>4. CASE DriveOff
  <2>1. /\ Post(<<Event("exitOut", at)>>) /\ at \in Exits
        /\ at' = "away" /\ due' = "none" /\ told' = FALSE /\ UNCHANGED <<visits, used>>
    BY <1>4 DEF DriveOff
  <2>2. QED
    BY EventType, <2>1, PostType DEF TypeOK
<1>5. CASE Pay
  <2>1. /\ Post(<<Event("paid", due)>>) /\ due \in Amounts
        /\ due' = "paid" /\ UNCHANGED <<at, told, visits, used>>
    BY <1>5 DEF Pay
  <2>2. QED
    BY EventType, <2>1, PostType DEF TypeOK
<1>6. CASE PayWrong
  <2>1. Post(<<Event("paid", "wrong")>>) /\ Rarely("wrong") /\ UNCHANGED simulator
    BY <1>6 DEF PayWrong
  <2>2. used' \in [Rare -> Nat]
    BY <2>1, RarelyType DEF Rare
  <2>3. QED
    BY EventType, <2>1, <2>2, PostType DEF TypeOK, simulator
<1>7. ASSUME NEW x \in Exits, ReachExit(x)
      PROVE  TypeOK'
  <2>1. PICK ms \in Seq(Webhook) : Post(ms)
    <3>1. Event("left", "none") \in Webhook /\ Event("exitIn", x) \in Webhook
      BY EventType
    <3>2. /\ <<Event("left", "none"), Event("exitIn", x)>> \in Seq(Webhook)
          /\ <<Event("exitIn", x)>> \in Seq(Webhook)
      BY <3>1
    <3>3. QED
      BY <1>7, <3>2 DEF ReachExit
  <2>2. at' = x /\ UNCHANGED <<due, told, visits, used>>
    BY <1>7 DEF ReachExit
  <2>3. QED
    BY <2>1, <2>2, PostType DEF TypeOK
<1>8. QED
  BY <1>1, <1>2, <1>3, <1>4, <1>5, <1>6, <1>7 DEF Car

LEMMA HandleType ==
  ASSUME TypeOK, NEW kind, NEW what, Handle(kind, what)
  PROVE  inbox' \in Seq(Webhook)
BY DEF Handle, TypeOK

\* The coroutines the steps spawn are tasks.
LEMMA SpawnType ==
  ASSUME TypeOK, NEW kind \in {"charge", "ghost", "ask", "tamper", "release", "letOut"},
         NEW id \in Sids
  PROVE  /\ \A n \in Nat : tasks \cup {[kind |-> kind, sid |-> id, n |-> n]} \subseteq Task
         /\ Spawn(kind, id) => tasks' \subseteq Task
BY DEF TypeOK, Spawn, Task

LEMMA SendType ==
  ASSUME TypeOK, NEW s \in Sids, NEW amount \in Amounts \cup {"none"}, Send(s, amount)
  PROVE  /\ due' \in Amounts \cup {"none", "paid"}
         /\ invoices' \in [Sids -> Nat]
         /\ UNCHANGED <<at, told, visits>>
BY DEF Send, TypeOK

LEMMA CreateType ==
  ASSUME TypeOK, Create
  PROVE  made' \in 0 .. MaxSessions /\ NewId \in Sids /\ NewId = made + 1 /\ made' = NewId
BY DEF TypeOK, Create, NewId, Sids

\* A session the handlers make for the plate.
LEMMA StartedType ==
  ASSUME TypeOK, Create, NEW kind \in {"gate", "adopted", "ghost", "override"}
  PROVE  Fresh(NewId, kind) \in Session /\ Fresh(NewId, kind).sid = NewId
BY CreateType, FreshType DEF Sids

LEMMA KnownType == TypeOK /\ Known => sess.sid \in Sids
BY DEF TypeOK, Session, Known, Sids

\* The session of the plate, or one made for it.
LEMMA MeantType ==
  ASSUME TypeOK, NEW kind \in {"gate", "adopted", "ghost", "override"},
         IF Known THEN UNCHANGED made ELSE Create
  PROVE  LET s == IF Known THEN sess ELSE Fresh(NewId, kind)
         IN  s \in Session /\ s.sid \in Sids /\ made' \in 0 .. MaxSessions
<1>1. CASE Known
  BY <1>1, KnownType DEF TypeOK
<1>2. CASE ~Known
  BY <1>2, StartedType, CreateType
<1>3. QED
  BY <1>1, <1>2

LEMMA HandlerType ==
  ASSUME TypeOK, Handler
  PROVE  TypeOK'
<1>1. CASE EntryIn
  <2>1. inbox' \in Seq(Webhook)
    BY <1>1, HandleType DEF EntryIn
  <2>2. /\ UNCHANGED <<at, due, told, visits, stripe, tasks, synced, ghost, used, invoices, claims>>
        /\ made' \in 0 .. MaxSessions /\ deletes' \subseteq Sids
        /\ \E s \in Session : Save(s)
    <3>1. CASE Known /\ UNCHANGED <<made, deletes>> /\ Save([sess EXCEPT !.entry = "gate"])
      BY <1>1, <3>1, UpdateType DEF EntryIn, TypeOK, simulator, history
    <3>2. CASE /\ Create /\ Save(Fresh(NewId, "gate"))
               /\ deletes' = deletes \/ (Known /\ deletes' = deletes \cup {sess.sid})
      <4>1. QED
        BY <1>1, <3>2, KnownType, CreateType, StartedType DEF EntryIn, TypeOK, simulator, history
    <3>3. QED
      BY <1>1, <3>1, <3>2 DEF EntryIn
  <2>3. QED
    BY <2>1, <2>2, SaveType DEF TypeOK
<1>2. CASE ParkIn
  <2>1. inbox' \in Seq(Webhook)
    BY <1>2, HandleType DEF ParkIn
  <2>2. made' \in 0 .. MaxSessions /\ \E s \in Session : Save(s)
    <3>1. [sess EXCEPT !.stay = IF @ = "driving" THEN "parked" ELSE @] \in Session
      BY DEF TypeOK, Session
    <3>2. Create => [Fresh(NewId, "adopted") EXCEPT !.stay = "parked"] \in Session
      BY StartedType, UpdateType
    <3>3. QED
      BY <1>2, <3>1, <3>2, CreateType DEF ParkIn, TypeOK
  <2>3. QED
    BY <1>2, <2>1, <2>2, SaveType DEF ParkIn, TypeOK, simulator, history
<1>3. CASE ParkOut
  <2>1. inbox' \in Seq(Webhook)
    BY <1>3, HandleType DEF ParkOut
  <2>2. sess' \in Session /\ row' \in Row
    <3>1. Left(sess) \in Session /\ sess \in Session /\ row \in Row
      BY UpdateType DEF TypeOK
    <3>2. QED
      BY <1>3, <3>1, SaveType DEF ParkOut
  <2>3. QED
    BY <1>3, <2>1, <2>2 DEF ParkOut, TypeOK, simulator, history
<1>4. CASE GhostHeld
  <2> DEFINE s == IF Known THEN sess ELSE Fresh(NewId, "ghost")
             x == [AtItsExit(s, stripe) EXCEPT !.ghost = TRUE,
                       !.expected = IF s.attempted THEN @ ELSE "estimate"]
  <2>1. /\ IF Known THEN UNCHANGED made ELSE Create
        /\ Save(x) /\ Spawn("ghost", s.sid) /\ stripe \in Exits /\ stripe' = "free"
        /\ UNCHANGED <<simulator, inbox, synced, deletes, ghost, used, history>>
    BY <1>4 DEF GhostHeld
  <2>2. s \in Session /\ s.sid \in Sids /\ made' \in 0 .. MaxSessions
    BY <2>1, MeantType
  <2> HIDE DEF s
  <2>3. x \in Session
    <3>1. AtItsExit(s, stripe) \in Session
      BY <2>1, <2>2, UpdateType
    <3>2. QED
      BY <3>1 DEF Session, Amounts
  <2> HIDE DEF x
  <2>4. sess' \in Session /\ row' \in Row /\ tasks' \subseteq Task
    BY <2>1, <2>2, <2>3, SaveType, SpawnType
  <2>5. QED
    BY <2>1, <2>2, <2>4 DEF TypeOK, simulator, history
<1>5. ASSUME NEW x \in Exits, ExitIn(x)
      PROVE  TypeOK'
  <2>1. inbox' \in Seq(Webhook) /\ UNCHANGED <<simulator, synced, history>>
    BY <1>5, HandleType DEF ExitIn
  <2>2. AtItsExit(sess, x) \in Session /\ sess \in Session /\ row \in Row
    BY UpdateType DEF TypeOK
  <2>3. /\ stripe' \in {"free", "release"} \cup Exits
        /\ sess' \in Session /\ row' \in Row /\ made' \in 0 .. MaxSessions
        /\ tasks' \subseteq Task /\ deletes' \subseteq Sids /\ ghost' \in Exits \cup {"none"}
        /\ used' \in [Rare -> Nat]
    <3>1. CASE DeclinedAtExit(x)
      BY <2>2, <3>1, SaveType DEF DeclinedAtExit, TypeOK
    <3>2. CASE GhostAtExit(x)
      BY <3>2 DEF GhostAtExit, TypeOK, memory, disk
    <3>3. CASE AtExit(x)
      <4>1. sess.sid \in Sids
        BY <3>3 DEF TypeOK, Session, Sids, AtExit, IsGhost, Known
      <4>2. sess' \in Session /\ row' \in Row /\ tasks' \subseteq Task
        BY <2>2, <3>3, <4>1, SaveType, SpawnType DEF AtExit
      <4>3. QED
        BY <3>3, <4>2 DEF AtExit, TypeOK
    <3>4. CASE UnpaidElsewhere(x)
      BY <3>4 DEF UnpaidElsewhere, Ignore, TypeOK, memory, disk
    <3>5. CASE PassingExit(x)
      BY <3>5 DEF PassingExit, Ignore, TypeOK, memory, disk
    <3>6. QED
      BY <1>5, <3>1, <3>2, <3>3, <3>4, <3>5 DEF ExitIn
  <2>4. QED
    BY <2>1, <2>3 DEF TypeOK, simulator, history
<1>6. ASSUME NEW x \in Exits, ExitOut(x)
      PROVE  TypeOK'
  <2>1. inbox' \in Seq(Webhook) /\ UNCHANGED <<simulator, synced, history>>
    BY <1>6, HandleType DEF ExitOut
  <2>2. Nobody \in Session /\ NoRow \in Row
    BY FreshType DEF Nobody, NoRow, Row
  <2>3. Known => sess.sid \in Sids
    BY DEF TypeOK, Session, Known, Sids
  <2>4. /\ sess' \in Session /\ row' \in Row /\ deletes' \subseteq Sids
        /\ UNCHANGED <<stripe, made, tasks, ghost, used>>
    BY <1>6, <2>2, <2>3 DEF ExitOut, Ignore, Archive, TypeOK, memory, disk
  <2>5. QED
    BY <2>1, <2>4 DEF TypeOK, simulator, history
<1>7. ASSUME NEW a \in Amounts \cup {"wrong"}, Payment(a)
      PROVE  TypeOK'
  <2>1. inbox' \in Seq(Webhook) /\ UNCHANGED <<simulator, made, synced, deletes, ghost, used, history>>
    BY <1>7, HandleType DEF Payment
  <2>2. /\ sess \in Session /\ Paid(sess) \in Session /\ [sess EXCEPT !.retries = @ + 1] \in Session
        /\ row \in Row
    BY UpdateType DEF TypeOK
  <2>3. Known => sess.sid \in Sids /\ sess.retries \in Nat
    BY DEF TypeOK, Session, Known, Sids
  <2>4. /\ stripe' \in {"free", "release"} \cup Exits
        /\ sess' \in Session /\ row' \in Row /\ tasks' \subseteq Task
    <3>1. CASE SuspectPayment(a)
      <4>1. sess' \in Session /\ row' \in Row
        BY <2>2, <3>1, SaveType DEF SuspectPayment
      <4>2. tasks' \subseteq Task
        BY <2>3, <3>1, SpawnType DEF SuspectPayment, TypeOK
      <4>3. QED
        BY <3>1, <4>1, <4>2 DEF SuspectPayment, TypeOK
    <3>2. CASE AcceptPayment(a)
      <4>1. sess' \in Session /\ row' \in Row
        BY <2>2, <3>2, SaveType DEF AcceptPayment
      <4>2. sess.sid \in Sids
        BY <2>3, <3>2 DEF AcceptPayment, Valid
      <4>3. tasks' \subseteq Task /\ stripe' \in {"free", "release"} \cup Exits
        BY <3>2, <4>2, SpawnType DEF AcceptPayment, TypeOK
      <4>4. QED
        BY <4>1, <4>3
    <3>3. CASE IgnorePayment(a)
      BY <3>3 DEF IgnorePayment, TypeOK
    <3>4. QED
      BY <1>7, <3>1, <3>2, <3>3 DEF Payment
  <2>5. QED
    BY <2>1, <2>4 DEF TypeOK, simulator, history
<1>8. QED
  BY <1>1, <1>2, <1>3, <1>4, <1>5, <1>6, <1>7 DEF Handler

LEMMA WakeType ==
  ASSUME TypeOK, NEW t, Wake(t)
  PROVE  t \in Task /\ t.sid \in Sids /\ tasks' \subseteq Task /\ UNCHANGED <<inbox, made, synced, deletes, ghost>>
BY DEF Wake, TypeOK, Task

LEMMA AmountType ==
  ASSUME TypeOK, NEW t
  PROVE  /\ AmountOf(t) \in Amounts \cup {"none"}
         /\ [sess EXCEPT !.expected = AmountOf(t)] \in Session
         /\ RowAtClaim(t) \in Row
<1>1. sess \in Session /\ row \in Row
  BY DEF TypeOK
<1>2. AmountOf(t) \in Amounts \cup {"none"}
  BY <1>1 DEF AmountOf, Session, Amounts
<1>3. [sess EXCEPT !.expected = AmountOf(t)] \in Session
  BY <1>1, <1>2, UpdateType
<1>4. \A s \in Session : Upserted(s) \in Row
  BY <1>1 DEF Upserted, Row, Session
<1>5. QED
  BY <1>1, <1>2, <1>3, <1>4 DEF RowAtClaim

LEMMA CoroutineType ==
  ASSUME TypeOK, NEW t \in tasks, Coroutine(t)
  PROVE  TypeOK'
<1>1. /\ sess \in Session /\ [sess EXCEPT !.expected = AmountOf(t)] \in Session
      /\ AmountOf(t) \in Amounts \cup {"none"} /\ sess.expected \in Amounts \cup {"none"}
  BY AmountType DEF TypeOK, Session
<1>2. CASE Invoice(t)
  <2>1. sess' \in Session /\ row' \in Row
    BY <1>1, <1>2, UpdateType, SaveType DEF Invoice
  <2>2. sess.sid \in Sids
    BY <1>2, WakeType DEF Invoice, StillUnbilled
  <2>3. /\ due' \in Amounts \cup {"none", "paid"} /\ invoices' \in [Sids -> Nat]
        /\ UNCHANGED <<at, told, visits>>
    BY <1>1, <1>2, SendType, WakeType DEF Invoice
  <2>4. QED
    BY <1>2, <2>1, <2>2, <2>3, WakeType DEF Invoice, TypeOK
<1>3. CASE ClaimRefused(t)
  <2>1. row' \in Row
    BY <1>3, AmountType DEF ClaimRefused
  <2>2. sess' \in Session
    <3> DEFINE s == [sess EXCEPT !.expected = AmountOf(t)]
    <3>1. sess' = [s EXCEPT !.attempted = TRUE]
      BY <1>1, <1>3 DEF ClaimRefused, Session
    <3>2. QED
      BY <1>1, <3>1, UpdateType
  <2>3. QED
    BY <1>3, <2>1, <2>2, WakeType DEF ClaimRefused, TypeOK, simulator, history
<1>4. CASE NothingToInvoice(t)
  BY <1>4, WakeType DEF NothingToInvoice, TypeOK, simulator, history
<1>5. CASE AskAgain(t)
  <2>1. /\ due' \in Amounts \cup {"none", "paid"} /\ invoices' \in [Sids -> Nat]
        /\ UNCHANGED <<at, told, visits>>
    BY <1>1, <1>5, SendType, WakeType DEF AskAgain, TypeOK, simulator
  <2>2. QED
    BY <1>5, <2>1, WakeType DEF AskAgain, TypeOK
<1>6. ASSUME NEW sent \in BOOLEAN, LetOut(t, sent)
      PROVE  TypeOK'
  <2>1. sess' \in Session /\ row' \in Row
    <3>1. [sess EXCEPT !.released = TRUE] \in Session /\ row \in Row
      BY <1>1, UpdateType DEF TypeOK
    <3>2. QED
      BY <1>1, <1>6, <3>1, SaveType DEF LetOut
  <2>2. used' \in [Rare -> Nat]
    BY <1>6, RarelyType DEF LetOut, Rare, TypeOK
  <2>3. told' \in BOOLEAN
    BY <1>6 DEF LetOut, TypeOK
  <2>4. QED
    BY <1>6, <2>1, <2>2, <2>3 DEF LetOut, TypeOK, history
<1>7. QED
  BY <1>2, <1>3, <1>4, <1>5, <1>6 DEF Coroutine

\* _ensure_barriers_open spawns tasks only.
LEMMA ResumeType ==
  ASSUME TypeOK, NEW s \in Session, s.sid \in Sids \/ s = Nobody, Resume(s)
  PROVE  tasks' \subseteq Task /\ synced' = TRUE
<1>1. CASE s = Nobody
  <2>1. ~s.confirmed /\ s.sid = 0
    BY <1>1 DEF Nobody, Fresh
  <2>2. QED
    BY <2>1 DEF Resume, TypeOK
<1>2. CASE s.sid \in Sids
  BY <1>2, SpawnType DEF Resume, TypeOK
<1>3. QED
  BY <1>1, <1>2

LEMMA UnstripedType ==
  ASSUME TypeOK, Known \/ sess = Nobody, Unstriped
  PROVE  TypeOK'
<1>1. /\ sess \in Session /\ [sess EXCEPT !.retries = @ + 1] \in Session
      /\ Left(sess) \in Session /\ [sess EXCEPT !.declined = TRUE] \in Session
      /\ sess.expected \in Amounts \cup {"none"} /\ row \in Row
  <2>1. sess \in Session /\ row \in Row
    BY DEF TypeOK
  <2>2. sess.expected \in Amounts \cup {"none"}
    BY <2>1 DEF Session
  <2>3. QED
    BY <2>1, <2>2, UpdateType
<1>2. CASE Tamper
  <2>1. sess' \in Session /\ row' \in Row /\ used' \in [Rare -> Nat] /\ tasks' \subseteq Task
    BY <1>1, <1>2, SaveType, RarelyType, SpawnType, KnownType DEF Tamper, Rare
  <2>2. QED
    BY <1>2, <2>1 DEF Tamper, TypeOK, simulator, history
<1>3. CASE Correct
  <2>1. [sess EXCEPT !.corrected = TRUE, !.expected = "corrected"] \in Session
    BY <1>1 DEF Session, Amounts
  <2>2. sess' \in Session /\ row' \in Row /\ used' \in [Rare -> Nat]
    BY <1>3, <2>1, SaveType, RarelyType DEF Correct, Rare
  <2>3. /\ due' \in Amounts \cup {"none", "paid"} /\ invoices' \in [Sids -> Nat]
        /\ UNCHANGED <<at, told, visits>>
    BY <1>3, SendType, KnownType DEF Correct, Amounts
  <2>4. QED
    BY <1>3, <2>2, <2>3 DEF Correct, TypeOK
<1>4. CASE StaffAsk
  <2>1. sess' \in Session /\ row' \in Row /\ used' \in [Rare -> Nat]
    BY <1>1, <1>4, SaveType, RarelyType DEF StaffAsk, Rare
  <2>2. /\ due' \in Amounts \cup {"none", "paid"} /\ invoices' \in [Sids -> Nat]
        /\ UNCHANGED <<at, told, visits>>
    BY <1>1, <1>4, SendType, KnownType DEF StaffAsk
  <2>3. QED
    BY <1>4, <2>1, <2>2 DEF StaffAsk, TypeOK
<1>5. CASE StaffOverride
  <2> DEFINE s == IF Known THEN sess ELSE Fresh(NewId, "override")
             billed == [AtItsExit(s, ghost) EXCEPT !.expected = "estimate"]
  <2>1. /\ IF Known THEN UNCHANGED made ELSE Create
        /\ \/ Save(billed) /\ UNCHANGED <<simulator, ghost, history>>
           \/ /\ Save(Charged(billed)) /\ claims' = claims \cup {s.sid}
              /\ Send(s.sid, "estimate") /\ ghost' = "none"
        /\ ghost # "none" /\ UNCHANGED <<inbox, stripe, tasks, synced, deletes, used>>
    BY <1>5 DEF StaffOverride
  <2>2. s \in Session /\ s.sid \in Sids /\ made' \in 0 .. MaxSessions
    BY <2>1, MeantType
  <2> HIDE DEF s
  <2>3. billed \in Session /\ Charged(billed) \in Session
    <3>1. AtItsExit(s, ghost) \in Session
      BY <2>1, <2>2, UpdateType DEF TypeOK
    <3>2. QED
      BY <3>1, UpdateType DEF Amounts
  <2> HIDE DEF billed
  <2>4. sess' \in Session /\ row' \in Row
    BY <2>1, <2>3, SaveType
  <2>5. /\ due' \in Amounts \cup {"none", "paid"} /\ invoices' \in [Sids -> Nat]
        /\ UNCHANGED <<at, told, visits>>
    BY <2>1, <2>2, SendType DEF TypeOK, simulator, history, Amounts
  <2>6. claims' \subseteq Sids /\ ghost' \in Exits \cup {"none"}
    BY <2>1, <2>2 DEF TypeOK, history
  <2>7. QED
    BY <2>1, <2>2, <2>4, <2>5, <2>6 DEF TypeOK
<1>6. CASE StaffRelease
  <2> DEFINE f == Fresh(NewId, "ghost")
             s == IF Known THEN sess ELSE [AtItsExit(f, ghost) EXCEPT !.ghost = TRUE]
  <2>1. /\ IF Known THEN UNCHANGED made ELSE Create
        /\ Save([s EXCEPT !.authorized = TRUE]) /\ Spawn("letOut", s.sid)
        /\ ghost # "none"
        /\ UNCHANGED <<simulator, inbox, stripe, synced, deletes, ghost, used, history>>
    BY <1>6 DEF StaffRelease
  <2>2. made' \in 0 .. MaxSessions /\ (~Known => f \in Session /\ f.sid \in Sids)
    BY <2>1, MeantType
  <2> HIDE DEF f
  <2>3. s \in Session /\ s.sid \in Sids
    <3>1. CASE Known
      BY <1>1, <3>1, KnownType
    <3>2. CASE ~Known
      <4>1. AtItsExit(f, ghost) \in Session /\ AtItsExit(f, ghost).sid = f.sid
        <5>1. f \in Session /\ ghost \in Exits
          BY <2>1, <2>2, <3>2 DEF TypeOK
        <5>2. AtItsExit(f, ghost).sid = f.sid
          BY <5>1 DEF AtItsExit, Session
        <5>3. QED
          BY <5>1, <5>2, UpdateType
      <4>2. [AtItsExit(f, ghost) EXCEPT !.ghost = TRUE].sid = f.sid
        BY <4>1 DEF Session
      <4>3. [AtItsExit(f, ghost) EXCEPT !.ghost = TRUE] \in Session
        BY <4>1, UpdateType
      <4>4. QED
        BY <2>2, <3>2, <4>2, <4>3
    <3>3. QED
      BY <3>1, <3>2
  <2> HIDE DEF s
  <2>4. sess' \in Session /\ row' \in Row /\ tasks' \subseteq Task
    BY <2>1, <2>3, UpdateType, SaveType, SpawnType
  <2>5. QED
    BY <2>1, <2>2, <2>4 DEF TypeOK, simulator, history
<1>7. CASE Reap
  <2>1. Nobody \in Session
    BY FreshType DEF Nobody
  <2>2. QED
    BY <1>7, <2>1, KnownType DEF Reap, Archive, TypeOK, simulator, history
<1>8. CASE NoPark
  <2>1. sess' \in Session /\ row' \in Row
    BY <1>1, <1>8, SaveType DEF NoPark
  <2>2. QED
    BY <1>8, <2>1 DEF NoPark, TypeOK, simulator, history
<1>9. CASE EnsureOpen
  <2>1. tasks' \subseteq Task /\ synced' = TRUE
    BY <1>1, <1>9, ResumeType, KnownType DEF EnsureOpen
  <2>2. QED
    BY <1>9, <2>1 DEF EnsureOpen, TypeOK, simulator, memory, disk, history
<1>10. CASE Sync
  <2>1. sess' \in Session /\ row' \in Row
    BY <1>1, <1>10, SaveType DEF Sync
  <2>2. tasks' \subseteq Task /\ synced' = TRUE
    BY <1>1, <1>10, ResumeType, KnownType DEF Sync
  <2>3. QED
    BY <1>10, <2>1, <2>2 DEF Sync, TypeOK, simulator, history
<1>11. CASE SyncEarly
  <2>1. Restored(row) \in Session /\ Restored(row).sid \in Sids
    BY <1>1, <1>11, RestoredType DEF SyncEarly, Restored, Row, Session, Sids
  <2>2. tasks' \subseteq Task /\ synced' = TRUE
    BY <1>11, <2>1, ResumeType DEF SyncEarly
  <2>3. used' \in [Rare -> Nat]
    BY <1>11, RarelyType DEF SyncEarly, Rare
  <2>4. QED
    BY <1>11, <2>1, <2>2, <2>3 DEF SyncEarly, TypeOK, simulator, disk, history
<1>12. QED
  BY <1>2, <1>3, <1>4, <1>5, <1>6, <1>7, <1>8, <1>9, <1>10, <1>11 DEF Unstriped

LEMMA StorageType ==
  ASSUME TypeOK, Storage
  PROVE  TypeOK'
<1>1. ASSUME NEW s \in deletes, Flush(s)
      PROVE  TypeOK'
  <2>1. NoRow \in Row
    BY FreshType DEF NoRow, Nobody, Row
  <2>2. QED
    BY <1>1, <2>1 DEF Flush, TypeOK, simulator, memory, history
<1>2. ASSUME NEW r \in Row, Restart(r), invoices' = invoices, claims' \subseteq Sids
      PROVE  TypeOK'
  <2>1. used' \in [Rare -> Nat]
    BY <1>2, RarelyType DEF Restart, Rare
  <2>2. sess' \in Session
    BY <1>2, RestoredType DEF Restart
  <2>3. inbox' \in Seq(Webhook)
    <3>1. <<>> \in Seq(Webhook)
      OBVIOUS
    <3>2. QED
      BY <1>2, <3>1 DEF Restart, TypeOK
  <2>4. /\ UNCHANGED <<at, due, told, visits, made, ghost>> /\ stripe' = "free"
        /\ tasks' = {} /\ deletes' = {} /\ synced' = FALSE /\ row' = r
    BY <1>2 DEF Restart, simulator
  <2>5. QED
    BY <1>2, <2>1, <2>2, <2>3, <2>4 DEF TypeOK
<1>3. CASE Crash
  BY <1>2, <1>3 DEF Crash, TypeOK, history
<1>4. ASSUME NEW t \in tasks, CrashAfterClaim(t)
      PROVE  TypeOK'
  <2>1. [RowAtClaim(t) EXCEPT !.claimed = TRUE] \in Row
    BY AmountType DEF Row
  <2>2. claims' \subseteq Sids
    BY <1>4 DEF CrashAfterClaim, StillUnbilled, TypeOK, Task
  <2>3. QED
    BY <1>2, <1>4, <2>1, <2>2 DEF CrashAfterClaim
<1>5. QED
  BY <1>1, <1>3, <1>4 DEF Storage

-----------------------------------------------------------------------------
(* The inductive invariant: what memory, the row, the claims and the       *)
(* coroutines under way have to agree on for InvoiceBudget to hold.        *)

\* The coroutines of ts that will ask session id to pay again.
Asks(ts, id) == {t \in ts : t.kind \in {"ask", "tamper"} /\ t.sid = id}

\* Budget, with the claims as a parameter.
Credit(s, cl) == (IF s.sid \in cl THEN 1 ELSE 0) + (IF s.corrected THEN 1 ELSE 0) + s.retries

\* What was sent and what is about to be sent for s is within its budget.
InBudget(s, inv, cl, ts) ==
  s.sid # 0 => inv[s.sid] + Cardinality(Asks(ts, s.sid)) <= Credit(s, cl)

\* Numbers are given once: nothing is about a session not made yet.
Numbered ==
  /\ Known \/ sess = Nobody
  /\ sess.sid <= made /\ row.saved.sid <= made
  /\ deletes \subseteq 1 .. made /\ claims \subseteq 1 .. made
  /\ \A t \in tasks : t.sid \in 1 .. made
  /\ \A s \in Sids : s > made => invoices[s] = 0

\* The row is about the session in memory, or gone; a row that agrees only in
\* its number would let a restart forget a re-request or a payment.
OneRow ==
  Known =>
    /\ row.saved.sid \in {0, sess.sid}
    /\ row.saved.sid = sess.sid =>
         /\ row.saved.retries = sess.retries /\ row.saved.corrected = sess.corrected
         /\ row.saved.paid = sess.paid
    /\ used["early"] = 0 => row.saved.sid = sess.sid /\ sess.sid \notin deletes

\* A claim is remembered: by the session in memory, and by the claim column of
\* the row a restart reads.
ClaimsKept ==
  /\ sess.paid \/ sess.sid \in claims => sess.attempted
  /\ (row.saved.sid # 0 /\ row.saved.paid) \/ row.saved.sid \in claims => row.claimed

Budgeted ==
  /\ IsFiniteSet(tasks)
  /\ InBudget(sess, invoices, claims, tasks)
  /\ InBudget(row.saved, invoices, claims, tasks)

Books == Numbered /\ OneRow /\ ClaimsKept /\ Budgeted
IInv == TypeOK /\ Books

-----------------------------------------------------------------------------
(* Lemmas about budgets.                                                   *)

LEMMA AsksFewer ==
  ASSUME NEW ts, NEW ts2, NEW id, IsFiniteSet(ts), Asks(ts2, id) \subseteq Asks(ts, id)
  PROVE  /\ Cardinality(Asks(ts2, id)) \in Nat /\ Cardinality(Asks(ts, id)) \in Nat
         /\ Cardinality(Asks(ts2, id)) <= Cardinality(Asks(ts, id))
<1>1. Asks(ts, id) \subseteq ts
  BY DEF Asks
<1>2. IsFiniteSet(Asks(ts, id)) /\ IsFiniteSet(Asks(ts2, id))
  BY <1>1, FS_Subset
<1>3. QED
  BY <1>2, FS_Subset, FS_CardinalityType

LEMMA AsksOneMore ==
  ASSUME NEW ts, NEW x, NEW id, IsFiniteSet(ts)
  PROVE  /\ IsFiniteSet(ts \cup {x})
         /\ Cardinality(Asks(ts, id)) \in Nat /\ Cardinality(Asks(ts \cup {x}, id)) \in Nat
         /\ Cardinality(Asks(ts \cup {x}, id)) <= Cardinality(Asks(ts, id)) + 1
<1>1. IsFiniteSet(ts \cup {x})
  BY FS_AddElement
<1>2. IsFiniteSet(Asks(ts, id))
  BY FS_Subset DEF Asks
<1>3. /\ IsFiniteSet(Asks(ts, id) \cup {x})
      /\ Cardinality(Asks(ts, id) \cup {x}) <= Cardinality(Asks(ts, id)) + 1
  BY <1>2, FS_AddElement, FS_CardinalityType
<1>4. Asks(ts \cup {x}, id) \subseteq Asks(ts, id) \cup {x}
  BY DEF Asks
<1>5. /\ IsFiniteSet(Asks(ts \cup {x}, id))
      /\ Cardinality(Asks(ts \cup {x}, id)) <= Cardinality(Asks(ts, id) \cup {x})
  BY <1>3, <1>4, FS_Subset
<1>6. QED
  BY <1>1, <1>2, <1>3, <1>5, FS_CardinalityType

LEMMA AsksOneFewer ==
  ASSUME NEW ts, IsFiniteSet(ts), NEW t \in ts, t.kind \in {"ask", "tamper"}
  PROVE  /\ Cardinality(Asks(ts, t.sid)) \in Nat /\ Cardinality(Asks(ts \ {t}, t.sid)) \in Nat
         /\ Cardinality(Asks(ts \ {t}, t.sid)) = Cardinality(Asks(ts, t.sid)) - 1
<1>1. IsFiniteSet(Asks(ts, t.sid)) /\ t \in Asks(ts, t.sid)
  BY FS_Subset DEF Asks
<1>2. Asks(ts \ {t}, t.sid) = Asks(ts, t.sid) \ {t}
  BY DEF Asks
<1>3. /\ IsFiniteSet(Asks(ts, t.sid) \ {t})
      /\ Cardinality(Asks(ts, t.sid) \ {t}) = Cardinality(Asks(ts, t.sid)) - 1
  BY <1>1, FS_RemoveElement
<1>4. QED
  BY <1>1, <1>2, <1>3, FS_CardinalityType

LEMMA CreditType ==
  ASSUME NEW s \in Session, NEW cl
  PROVE  Credit(s, cl) \in Nat
BY DEF Credit, Session

\* A budget is kept when nothing is sent and nothing more is going to be.
LEMMA BudgetKept ==
  ASSUME NEW s \in Session, NEW p \in Session,
         s.sid = p.sid, s.retries = p.retries, s.corrected = p.corrected,
         NEW inv \in [Sids -> Nat], NEW cl, NEW cl2, cl \subseteq cl2,
         NEW ts, NEW ts2, IsFiniteSet(ts), Asks(ts2, s.sid) \subseteq Asks(ts, s.sid),
         InBudget(p, inv, cl, ts)
  PROVE  InBudget(s, inv, cl2, ts2)
<1>1. SUFFICES ASSUME s.sid # 0
               PROVE  inv[s.sid] + Cardinality(Asks(ts2, s.sid)) <= Credit(s, cl2)
  BY DEF InBudget
<1>2. inv[s.sid] \in Nat
  BY <1>1 DEF Session, Sids
<1>3. Credit(p, cl) <= Credit(s, cl2)
  BY DEF Credit, Session
<1>4. inv[s.sid] + Cardinality(Asks(ts, s.sid)) <= Credit(p, cl)
  BY <1>1 DEF InBudget
<1>5. QED
  BY <1>2, <1>3, <1>4, AsksFewer, CreditType

\* A session nothing was sent for is within any budget.
LEMMA BudgetStarted ==
  ASSUME NEW s \in Session, NEW inv, NEW cl, NEW ts,
         inv[s.sid] = 0, Asks(ts, s.sid) = {}
  PROVE  InBudget(s, inv, cl, ts)
<1>1. Cardinality(Asks(ts, s.sid)) = 0
  BY FS_EmptySet
<1>2. QED
  BY <1>1, CreditType DEF InBudget

-----------------------------------------------------------------------------
(* The steps, by what they do to the books.                                *)

\* At most one coroutine starts, and it does not ask again.
NoNewAsk ==
  \/ tasks' \subseteq tasks
  \/ \E x : /\ tasks' = tasks \cup {x}
            /\ x.kind \notin {"ask", "tamper"} /\ x.sid \in 1 .. made'

EarlyStays == used["early"] # 0 => used'["early"] # 0

LEMMA NoNewAskTasks ==
  ASSUME TypeOK, TypeOK', Books, NoNewAsk, made <= made'
  PROVE  /\ IsFiniteSet(tasks')
         /\ \A t \in tasks' : t.sid \in 1 .. made'
         /\ \A id : Asks(tasks', id) \subseteq Asks(tasks, id)
<1>1. IsFiniteSet(tasks) /\ \A t \in tasks : t.sid \in 1 .. made
  BY DEF Books, Budgeted, Numbered
<1>2. made \in Nat /\ made' \in Nat
  BY DEF TypeOK
<1>3. CASE tasks' \subseteq tasks
  BY <1>1, <1>2, <1>3, FS_Subset DEF Asks
<1>4. ASSUME NEW x, tasks' = tasks \cup {x}, x.kind \notin {"ask", "tamper"}, x.sid \in 1 .. made'
      PROVE  /\ IsFiniteSet(tasks')
             /\ \A t \in tasks' : t.sid \in 1 .. made'
             /\ \A id : Asks(tasks', id) \subseteq Asks(tasks, id)
  BY <1>1, <1>2, <1>4, FS_AddElement DEF Asks
<1>5. QED
  BY <1>3, <1>4 DEF NoNewAsk

\* The session and its row stay.
LEMMA BooksUntouched ==
  ASSUME TypeOK, TypeOK', Books, NoNewAsk, EarlyStays,
         UNCHANGED <<sess, row, made, invoices, claims>>, deletes' \subseteq deletes
  PROVE  Books'
<1>1. /\ IsFiniteSet(tasks') /\ \A t \in tasks' : t.sid \in 1 .. made'
      /\ \A id : Asks(tasks', id) \subseteq Asks(tasks, id)
  BY NoNewAskTasks DEF TypeOK
<1>2. Numbered'
  BY <1>1 DEF Books, Numbered, Known
<1>3. OneRow'
  BY DEF Books, OneRow, Known, EarlyStays
<1>4. ClaimsKept'
  BY DEF Books, ClaimsKept
<1>5. Budgeted'
  <2>1. sess \in Session /\ row.saved \in Session /\ invoices \in [Sids -> Nat]
    BY DEF TypeOK, Row
  <2>2. IsFiniteSet(tasks) /\ InBudget(sess, invoices, claims, tasks)
        /\ InBudget(row.saved, invoices, claims, tasks)
    BY DEF Books, Budgeted
  <2>3. InBudget(sess, invoices, claims, tasks') /\ InBudget(row.saved, invoices, claims, tasks')
    BY <1>1, <2>1, <2>2, BudgetKept
  <2>4. QED
    BY <1>1, <2>3 DEF Budgeted
<1>6. QED
  BY <1>2, <1>3, <1>4, <1>5 DEF Books

\* What Save leaves in memory and on disk.
LEMMA Saved ==
  ASSUME NEW s, Save(s)
  PROVE  sess' = s /\ row'.saved = s /\ row'.claimed = (row.claimed \/ s.attempted)
BY DEF Save, Upserted

\* The session is saved again, with the same count and correction.
LEMMA BooksResaved ==
  ASSUME TypeOK, TypeOK', Books, NoNewAsk, EarlyStays, Known,
         NEW s \in Session, Save(s),
         s.sid = sess.sid, s.retries = sess.retries, s.corrected = sess.corrected,
         sess.attempted => s.attempted, s.paid => s.attempted,
         UNCHANGED <<made, deletes, invoices, claims>>
  PROVE  Books'
<1>1. /\ IsFiniteSet(tasks') /\ \A t \in tasks' : t.sid \in 1 .. made'
      /\ \A id : Asks(tasks', id) \subseteq Asks(tasks, id)
  BY NoNewAskTasks DEF TypeOK
<1>2. sess' = s /\ row'.saved = s /\ row'.claimed = (row.claimed \/ s.attempted)
  BY Saved
<1>3. Numbered'
  BY <1>1, <1>2 DEF Books, Numbered, Known
<1>4. OneRow'
  BY <1>2 DEF Books, OneRow, Known, EarlyStays
<1>5. ClaimsKept'
  BY <1>2 DEF Books, ClaimsKept
<1>6. Budgeted'
  <2>1. sess \in Session /\ invoices \in [Sids -> Nat]
    BY DEF TypeOK
  <2>2. IsFiniteSet(tasks) /\ InBudget(sess, invoices, claims, tasks)
    BY DEF Books, Budgeted
  <2>3. InBudget(s, invoices, claims, tasks')
    BY <1>1, <2>1, <2>2, BudgetKept
  <2>4. QED
    BY <1>1, <1>2, <2>3 DEF Budgeted
<1>7. QED
  BY <1>3, <1>4, <1>5, <1>6 DEF Books

\* What the counts and the claims of a session mean is in the row as well.
LEMMA RowFollows ==
  ASSUME Books, EarlyStays, Known, NEW s, Save(s), s.sid = sess.sid, deletes' = deletes
  PROVE  OneRow' /\ Known'
BY Saved DEF Books, OneRow, Known, EarlyStays

\* A session begins: the plate's first, or the next one.
LEMMA BooksBegun ==
  ASSUME TypeOK, TypeOK', Books, NoNewAsk, EarlyStays, Create,
         NEW s \in Session, Save(s), s.sid = NewId, ~s.paid, ~s.attempted,
         deletes' = deletes \/ (Known /\ deletes' = deletes \cup {sess.sid}),
         UNCHANGED <<invoices, claims>>
  PROVE  Books'
<1>1. NewId = made + 1 /\ NewId \in Sids /\ made' = NewId /\ made \in Nat
  BY CreateType DEF TypeOK
<1>2. /\ IsFiniteSet(tasks') /\ \A t \in tasks' : t.sid \in 1 .. made'
      /\ \A id : Asks(tasks', id) \subseteq Asks(tasks, id)
  BY <1>1, NoNewAskTasks
<1>3. sess' = s /\ row'.saved = s /\ row'.claimed = (row.claimed \/ s.attempted)
  BY Saved
<1>4. NewId \notin deletes /\ NewId \notin claims /\ NewId # sess.sid
  BY <1>1 DEF Books, Numbered, TypeOK, Session
<1>5. Numbered'
  <2>1. deletes' \subseteq 1 .. made' /\ claims' \subseteq 1 .. made'
    BY <1>1, KnownType DEF Books, Numbered, TypeOK, Sids
  <2>2. \A x \in Sids : x > made' => invoices'[x] = 0
    BY <1>1 DEF Books, Numbered, Sids
  <2>3. QED
    BY <1>1, <1>2, <1>3, <2>1, <2>2 DEF Numbered, Known, Sids
<1>6. OneRow'
  BY <1>3, <1>4 DEF OneRow
<1>7. ClaimsKept'
  BY <1>3, <1>4 DEF ClaimsKept
<1>8. Budgeted'
  <2>1. invoices[s.sid] = 0
    BY <1>1 DEF Books, Numbered
  <2>2. Asks(tasks, s.sid) = {}
    BY <1>1 DEF Books, Numbered, Asks
  <2>3. InBudget(s, invoices, claims, tasks')
    BY <1>2, <2>1, <2>2, BudgetStarted
  <2>4. QED
    BY <1>2, <1>3, <2>3 DEF Budgeted
<1>9. QED
  BY <1>5, <1>6, <1>7, <1>8 DEF Books

\* The plate's session is gone: archived, reaped, or let go unbilled.
LEMMA BooksClosed ==
  ASSUME TypeOK, TypeOK', Books, EarlyStays, Known, sess' = Nobody, row' \in {row, NoRow},
         deletes' \subseteq deletes \cup {sess.sid}, UNCHANGED <<made, tasks, invoices, claims>>
  PROVE  Books'
<1>1. Nobody.sid = 0 /\ NoRow.saved.sid = 0 /\ ~Nobody.paid /\ 0 \notin claims
  BY DEF Nobody, Fresh, NoRow, TypeOK, Sids
<1>2. Numbered'
  BY <1>1, KnownType DEF Books, Numbered, Known, TypeOK, Sids
<1>3. OneRow'
  BY <1>1 DEF OneRow, Known
<1>4. ClaimsKept'
  BY <1>1 DEF Books, ClaimsKept
<1>5. Budgeted'
  BY <1>1 DEF Books, Budgeted, InBudget
<1>6. QED
  BY <1>2, <1>3, <1>4, <1>5 DEF Books

\* The write buffer deletes the row of a session that is over.
LEMMA BooksFlushed ==
  ASSUME TypeOK, Books, EarlyStays, NEW id \in deletes,
         row' = IF row.saved.sid = id THEN NoRow ELSE row,
         deletes' \subseteq deletes, UNCHANGED <<sess, made, tasks, invoices, claims>>
  PROVE  Books'
<1>1. NoRow.saved.sid = 0 /\ 0 \notin claims
  <2>1. NoRow.saved.sid = 0
    BY DEF NoRow, Nobody, Fresh
  <2>2. claims \subseteq 1 .. made /\ made \in Nat
    BY DEF Books, Numbered, TypeOK
  <2>3. QED
    BY <2>1, <2>2
<1>2. Numbered'
  <2>1. row'.saved.sid <= made
    BY <1>1 DEF Books, Numbered, TypeOK
  <2>2. QED
    BY <2>1 DEF Books, Numbered, Known
<1>3. OneRow'
  BY <1>1 DEF Books, OneRow, Known, EarlyStays
<1>4. ClaimsKept'
  BY <1>1 DEF Books, ClaimsKept
<1>5. Budgeted'
  BY <1>1 DEF Books, Budgeted, InBudget
<1>6. QED
  BY <1>2, <1>3, <1>4, <1>5 DEF Books

LEMMA RestoredFields ==
  ASSUME NEW r \in Row
  PROVE  LET s == Restored(r) IN
         /\ s.sid = 0 => s = Nobody
         /\ s.sid = r.saved.sid
         /\ s.sid # 0 => /\ s.retries = r.saved.retries /\ s.corrected = r.saved.corrected
                         /\ s.paid = r.saved.paid /\ s.attempted = r.claimed
<1>1. CASE r.saved.sid = 0
  BY <1>1 DEF Restored, Nobody, Fresh
<1>2. CASE r.saved.sid # 0
  BY <1>2 DEF Restored, Row, Session
<1>3. QED
  BY <1>1, <1>2

\* A session is read back from row r.
LEMMA BooksRestored ==
  ASSUME TypeOK, TypeOK', Books, NoNewAsk, EarlyStays, NEW r \in Row,
         r.saved.sid <= made,
         (r.saved.sid # 0 /\ r.saved.paid) \/ r.saved.sid \in claims' => r.claimed,
         InBudget(r.saved, invoices, claims, tasks),
         row' = r, sess' = Restored(r), deletes' \subseteq deletes,
         deletes' = {} \/ used'["early"] # 0,
         claims \subseteq claims', claims' \subseteq 1 .. made, UNCHANGED <<made, invoices>>
  PROVE  Books'
<1>1. /\ IsFiniteSet(tasks') /\ \A t \in tasks' : t.sid \in 1 .. made'
      /\ \A id : Asks(tasks', id) \subseteq Asks(tasks, id)
  BY NoNewAskTasks DEF TypeOK
<1>2. /\ sess'.sid = 0 => sess' = Nobody
      /\ sess'.sid = r.saved.sid
      /\ sess'.sid # 0 => /\ sess'.retries = r.saved.retries /\ sess'.corrected = r.saved.corrected
                          /\ sess'.paid = r.saved.paid /\ sess'.attempted = r.claimed
  BY RestoredFields
<1>3. Numbered'
  BY <1>1, <1>2 DEF Books, Numbered, Known
<1>4. OneRow'
  BY <1>2 DEF OneRow, Known
<1>5. ClaimsKept'
  <2>1. ~Nobody.paid /\ 0 \notin claims'
    BY DEF Nobody, Fresh, TypeOK
  <2>2. QED
    BY <1>2, <2>1 DEF ClaimsKept
<1>6. Budgeted'
  <2>1. sess' \in Session /\ r.saved \in Session /\ invoices \in [Sids -> Nat]
    BY DEF TypeOK, Row
  <2>2. IsFiniteSet(tasks)
    BY DEF Books, Budgeted
  <2>3. InBudget(r.saved, invoices, claims', tasks')
    BY <1>1, <2>1, <2>2, BudgetKept
  <2>4. InBudget(sess', invoices, claims', tasks')
    <3>1. CASE sess'.sid = 0
      BY <3>1 DEF InBudget
    <3>2. CASE sess'.sid # 0
      BY <1>1, <1>2, <2>1, <2>2, <3>2, BudgetKept
    <3>3. QED
      BY <3>1, <3>2
  <2>5. QED
    BY <1>1, <2>3, <2>4 DEF Budgeted
<1>7. QED
  BY <1>3, <1>4, <1>5, <1>6 DEF Books

\* The row refused the claim; the session remembers that it was made.
LEMMA BooksRefused ==
  ASSUME TypeOK, TypeOK', Books, EarlyStays, NEW t, tasks' \subseteq tasks, Known,
         ~sess.paid, ~sess.attempted,
         sess' = [sess EXCEPT !.expected = AmountOf(t), !.attempted = TRUE],
         row' = RowAtClaim(t), UNCHANGED <<made, deletes, invoices, claims>>
  PROVE  Books'
<1>1. /\ IsFiniteSet(tasks') /\ \A x \in tasks' : x.sid \in 1 .. made'
      /\ \A id : Asks(tasks', id) \subseteq Asks(tasks, id)
  BY NoNewAskTasks DEF NoNewAsk, TypeOK
<1>2. /\ sess'.sid = sess.sid /\ sess'.retries = sess.retries /\ sess'.corrected = sess.corrected
      /\ sess'.paid = sess.paid /\ sess'.attempted
  BY DEF TypeOK, Session
<1>3. \/ row' = row
      \/ /\ row'.saved.sid = sess.sid /\ row'.saved.retries = sess.retries
         /\ row'.saved.corrected = sess.corrected /\ row'.saved.paid = sess.paid
  BY DEF TypeOK, Session, RowAtClaim, Upserted
<1>4. Numbered'
  BY <1>1, <1>2, <1>3 DEF Books, Numbered, Known
<1>5. OneRow'
  BY <1>2, <1>3 DEF Books, OneRow, Known, EarlyStays
<1>6. ClaimsKept'
  BY <1>2, <1>3 DEF Books, ClaimsKept
<1>7. Budgeted'
  <2>1. /\ sess \in Session /\ sess' \in Session /\ row.saved \in Session
        /\ row'.saved \in Session /\ invoices \in [Sids -> Nat]
    BY DEF TypeOK, Row
  <2>2. IsFiniteSet(tasks) /\ InBudget(sess, invoices, claims, tasks)
        /\ InBudget(row.saved, invoices, claims, tasks)
    BY DEF Books, Budgeted
  <2>3. InBudget(sess', invoices, claims, tasks')
    BY <1>1, <1>2, <2>1, <2>2, BudgetKept
  <2>4. InBudget(row'.saved, invoices, claims, tasks')
    BY <1>1, <1>3, <2>1, <2>2, BudgetKept
  <2>5. QED
    BY <1>1, <2>3, <2>4 DEF Budgeted
<1>8. QED
  BY <1>4, <1>5, <1>6, <1>7 DEF Books

\* One invoice more, for session id.
More(inv, inv2, id) == \A x \in Sids : inv2[x] = IF x = id THEN inv[x] + 1 ELSE inv[x]

LEMMA InvoicedMore ==
  ASSUME NEW s \in Session, NEW p \in Session, s.sid = p.sid,
         NEW inv \in [Sids -> Nat], NEW cl, NEW cl2, NEW ts, NEW ts2, IsFiniteSet(ts),
         Asks(ts2, s.sid) \subseteq Asks(ts, s.sid),
         NEW id \in Sids, NEW inv2 \in [Sids -> Nat], More(inv, inv2, id),
         \/ id # s.sid /\ Credit(p, cl) <= Credit(s, cl2)
         \/ Credit(p, cl) + 1 <= Credit(s, cl2),
         InBudget(p, inv, cl, ts)
  PROVE  InBudget(s, inv2, cl2, ts2)
<1>1. SUFFICES ASSUME s.sid # 0
               PROVE  inv2[s.sid] + Cardinality(Asks(ts2, s.sid)) <= Credit(s, cl2)
  BY DEF InBudget
<1>2. s.sid \in Sids
  BY <1>1 DEF Session, Sids
<1>3. /\ inv[s.sid] \in Nat
      /\ inv2[s.sid] = IF id = s.sid THEN inv[s.sid] + 1 ELSE inv[s.sid]
  BY <1>2 DEF More
<1>4. inv[s.sid] + Cardinality(Asks(ts, s.sid)) <= Credit(p, cl)
  BY <1>1 DEF InBudget
<1>5. QED
  BY <1>3, <1>4, AsksFewer, CreditType

\* The session is charged: claimed, saved and invoiced.
LEMMA BooksCharged ==
  ASSUME TypeOK, TypeOK', Books, tasks' \subseteq tasks, EarlyStays,
         NEW s \in Session, Save(s), s.attempted,
         \/ /\ Known /\ s.sid = sess.sid /\ s.retries = sess.retries /\ s.corrected = sess.corrected
            /\ ~sess.attempted /\ UNCHANGED made
         \/ Create /\ s.sid = NewId,
         claims' = claims \cup {s.sid},
         More(invoices, invoices', s.sid),
         UNCHANGED deletes
  PROVE  Books'
<1>1. sess' = s /\ row'.saved = s /\ row'.claimed
  BY Saved
<1>2. made' \in made .. made + 1 /\ s.sid \in 1 .. made' /\ s.sid \in Sids /\ made \in Nat
  <2>1. CASE Known /\ s.sid = sess.sid /\ UNCHANGED made
    BY <2>1, KnownType DEF Books, Numbered, TypeOK, Sids
  <2>2. CASE Create /\ s.sid = NewId
    BY <2>2, CreateType DEF TypeOK
  <2>3. QED
    BY <2>1, <2>2
<1>3. /\ IsFiniteSet(tasks') /\ \A t \in tasks' : t.sid \in 1 .. made'
      /\ \A id : Asks(tasks', id) \subseteq Asks(tasks, id)
  BY <1>2, NoNewAskTasks DEF NoNewAsk
<1>4. Numbered'
  <2>1. claims' \subseteq 1 .. made' /\ deletes' \subseteq 1 .. made'
    <3>1. 1 .. made \subseteq 1 .. made'
      BY <1>2
    <3>2. QED
      BY <1>2, <3>1 DEF Books, Numbered
  <2>2. \A x \in Sids : x > made' => invoices'[x] = 0
    <3>1. \A x \in Sids : x > made => invoices[x] = 0
      BY DEF Books, Numbered
    <3>2. \A x \in Sids : x > made' => x > made /\ x # s.sid
      BY <1>2 DEF Sids
    <3>3. QED
      BY <3>1, <3>2 DEF More
  <2>3. QED
    BY <1>1, <1>2, <1>3, <2>1, <2>2 DEF Numbered, Known
<1>5. OneRow'
  <2>1. CASE Known /\ s.sid = sess.sid
    BY <2>1, RowFollows
  <2>2. CASE Create /\ s.sid = NewId
    <3>1. s.sid \notin deletes
      BY <2>2, CreateType DEF Books, Numbered, TypeOK
    <3>2. QED
      BY <1>1, <3>1 DEF OneRow
  <2>3. QED
    BY <2>1, <2>2
<1>6. ClaimsKept'
  BY <1>1 DEF ClaimsKept
<1>7. Budgeted'
  <2>1. InBudget(s, invoices', claims', tasks')
    <3>1. CASE Known /\ s.sid = sess.sid /\ s.retries = sess.retries /\ s.corrected = sess.corrected /\ ~sess.attempted
      <4>1. sess.sid \notin claims
        BY <3>1 DEF Books, ClaimsKept
      <4>2. Credit(sess, claims) + 1 <= Credit(s, claims')
        BY <3>1, <4>1 DEF Credit, TypeOK, Session
      <4>3. sess \in Session /\ invoices \in [Sids -> Nat] /\ IsFiniteSet(tasks)
            /\ InBudget(sess, invoices, claims, tasks)
        BY DEF TypeOK, Books, Budgeted
      <4>4. QED
        <5>1. Asks(tasks', s.sid) \subseteq Asks(tasks, s.sid)
          BY <1>3
        <5>2. invoices' \in [Sids -> Nat]
          BY DEF TypeOK
        <5>3. QED
          BY <1>2, <3>1, <4>2, <4>3, <5>1, <5>2, InvoicedMore
    <3>2. CASE Create /\ s.sid = NewId
      <4>1. invoices'[s.sid] = 1
        <5>1. s.sid \in Sids /\ s.sid > made
          BY <1>2, <3>2, CreateType
        <5>2. invoices[s.sid] = 0
          BY <5>1 DEF Books, Numbered
        <5>3. invoices'[s.sid] = invoices[s.sid] + 1
          BY <5>1 DEF More
        <5>4. QED
          BY <5>2, <5>3
      <4>2. Asks(tasks', s.sid) = {}
        BY <1>3, <3>2, CreateType DEF Books, Numbered, TypeOK, Asks
      <4>3. Credit(s, claims') >= 1
        BY DEF Credit, Session
      <4>4. Cardinality(Asks(tasks', s.sid)) = 0
        BY <4>2, FS_EmptySet
      <4>5. QED
        BY <4>1, <4>3, <4>4, CreditType DEF InBudget
    <3>3. QED
      BY <3>1, <3>2
  <2>2. QED
    BY <1>1, <1>3, <2>1 DEF Budgeted
<1>8. QED
  BY <1>4, <1>5, <1>6, <1>7 DEF Books

\* The session is invoiced again at once: staff ask, or its charge is corrected.
LEMMA BooksSent ==
  ASSUME TypeOK, TypeOK', Books, EarlyStays, Known,
         NEW s \in Session, Save(s), s.sid = sess.sid, s.paid = sess.paid, s.attempted = sess.attempted,
         Credit(s, claims) = Credit(sess, claims) + 1,
         More(invoices, invoices', s.sid),
         UNCHANGED <<made, tasks, deletes, claims>>
  PROVE  Books'
<1>1. sess' = s /\ row'.saved = s /\ row'.claimed = (row.claimed \/ s.attempted)
  BY Saved
<1>2. s.sid \in Sids /\ s.sid \in 1 .. made /\ made \in Nat
  BY KnownType DEF Books, Numbered, TypeOK, Sids
<1>3. Numbered'
  <2>1. invoices \in [Sids -> Nat] /\ \A x \in Sids : x > made => invoices[x] = 0
    BY DEF Books, Numbered, TypeOK
  <2>2. \A x \in Sids : x > made' => invoices'[x] = 0
    <3>1. ~(s.sid > made)
      BY <1>2
    <3>2. QED
      BY <1>2, <2>1, <3>1 DEF More
  <2>3. QED
    BY <1>1, <1>2, <2>2 DEF Books, Numbered, Known
<1>4. OneRow'
  BY RowFollows
<1>5. ClaimsKept'
  BY <1>1 DEF Books, ClaimsKept
<1>6. Budgeted'
  <2>1. sess \in Session /\ invoices \in [Sids -> Nat] /\ IsFiniteSet(tasks)
        /\ InBudget(sess, invoices, claims, tasks)
    BY DEF TypeOK, Books, Budgeted
  <2>2. InBudget(s, invoices', claims, tasks)
    <3>1. Credit(sess, claims) + 1 <= Credit(s, claims)
      BY <2>1, CreditType
    <3>2. Asks(tasks, s.sid) \subseteq Asks(tasks, s.sid)
      OBVIOUS
    <3>3. invoices' \in [Sids -> Nat]
      BY DEF TypeOK
    <3>4. QED
      BY <1>2, <2>1, <3>1, <3>2, <3>3, InvoicedMore
  <2>3. QED
    BY <1>1, <2>1, <2>2 DEF Budgeted
<1>7. QED
  BY <1>3, <1>4, <1>5, <1>6 DEF Books

\* The session is to be asked again: it is counted, and a coroutine starts.
LEMMA BooksAsked ==
  ASSUME TypeOK, TypeOK', Books, EarlyStays, Known,
         NEW s \in Session, Save(s), s.sid = sess.sid, s.paid = sess.paid, s.attempted = sess.attempted,
         Credit(s, claims) = Credit(sess, claims) + 1,
         NEW x, x.sid = sess.sid, tasks' = tasks \cup {x},
         UNCHANGED <<made, invoices, deletes, claims>>
  PROVE  Books'
<1>1. sess' = s /\ row'.saved = s /\ row'.claimed = (row.claimed \/ s.attempted)
  BY Saved
<1>2. s.sid \in Sids /\ s.sid \in 1 .. made /\ made \in Nat
  BY KnownType DEF Books, Numbered, TypeOK, Sids
<1>3. Numbered'
  BY <1>1, <1>2 DEF Books, Numbered, Known
<1>4. OneRow'
  BY RowFollows
<1>5. ClaimsKept'
  BY <1>1 DEF Books, ClaimsKept
<1>6. Budgeted'
  <2>1. sess \in Session /\ invoices \in [Sids -> Nat] /\ IsFiniteSet(tasks)
        /\ InBudget(sess, invoices, claims, tasks)
    BY DEF TypeOK, Books, Budgeted
  <2>2. /\ IsFiniteSet(tasks')
        /\ Cardinality(Asks(tasks, s.sid)) \in Nat /\ Cardinality(Asks(tasks', s.sid)) \in Nat
        /\ Cardinality(Asks(tasks', s.sid)) <= Cardinality(Asks(tasks, s.sid)) + 1
    BY <2>1, AsksOneMore
  <2>3. invoices[s.sid] \in Nat /\ invoices[s.sid] + Cardinality(Asks(tasks, s.sid)) <= Credit(sess, claims)
    BY <1>2, <2>1 DEF InBudget, Sids
  <2>4. InBudget(s, invoices, claims, tasks')
    BY <2>1, <2>2, <2>3, CreditType DEF InBudget
  <2>5. QED
    BY <1>1, <2>2, <2>4 DEF Budgeted
<1>7. QED
  BY <1>3, <1>4, <1>5, <1>6 DEF Books

\* A coroutine asks again: what was to be sent is sent.
LEMMA BooksAskSent ==
  ASSUME TypeOK, TypeOK', Books, EarlyStays,
         NEW t \in tasks, t.kind \in {"ask", "tamper"}, tasks' = tasks \ {t},
         More(invoices, invoices', t.sid),
         UNCHANGED <<sess, row, made, deletes, claims>>
  PROVE  Books'
<1>1. t.sid \in 1 .. made /\ t.sid \in Sids /\ made \in Nat
  BY DEF Books, Numbered, TypeOK, Task
<1>2. Numbered'
  <2>1. \A x \in Sids : x > made' => invoices'[x] = 0
    <3>1. \A x \in Sids : x > made => invoices[x] = 0
      BY DEF Books, Numbered
    <3>2. \A x \in Sids : x > made' => x > made /\ x # t.sid
      BY <1>1 DEF Sids
    <3>3. QED
      BY <3>1, <3>2 DEF More
  <2>2. QED
    BY <2>1 DEF Books, Numbered, Known
<1>3. OneRow'
  BY DEF Books, OneRow, Known, EarlyStays
<1>4. ClaimsKept'
  BY DEF Books, ClaimsKept
<1>5. Budgeted'
  <2>1. IsFiniteSet(tasks) /\ IsFiniteSet(tasks') /\ invoices \in [Sids -> Nat]
    BY FS_RemoveElement DEF Books, Budgeted, TypeOK
  <2>2. ASSUME NEW s \in Session, InBudget(s, invoices, claims, tasks)
        PROVE  InBudget(s, invoices', claims, tasks')
    <3>1. CASE s.sid = t.sid
      <4>1. invoices'[s.sid] = invoices[s.sid] + 1 /\ invoices[s.sid] \in Nat /\ s.sid # 0
        BY <1>1, <2>1, <3>1 DEF More
      <4>2. invoices[s.sid] + Cardinality(Asks(tasks, s.sid)) <= Credit(s, claims)
        BY <2>2, <4>1 DEF InBudget
      <4>3. QED
        BY <2>1, <3>1, <4>1, <4>2, AsksOneFewer, CreditType DEF InBudget
    <3>2. CASE s.sid # t.sid
      <4>1. Asks(tasks', s.sid) \subseteq Asks(tasks, s.sid)
        BY DEF Asks
      <4>2. QED
        <5>1. Credit(s, claims) <= Credit(s, claims)
          BY CreditType
        <5>2. invoices' \in [Sids -> Nat]
          BY DEF TypeOK
        <5>3. QED
          BY <1>1, <2>1, <2>2, <3>2, <4>1, <5>1, <5>2, InvoicedMore
    <3>3. QED
      BY <3>1, <3>2
  <2>3. QED
    BY <2>1, <2>2 DEF Books, Budgeted, TypeOK, Row
<1>6. QED
  BY <1>2, <1>3, <1>4, <1>5 DEF Books

-----------------------------------------------------------------------------
(* Every step keeps the books.                                             *)

\* s differs from p in nothing the books are about.
Alike(s, p) ==
  /\ s.sid = p.sid /\ s.retries = p.retries /\ s.corrected = p.corrected
  /\ s.paid = p.paid /\ s.attempted = p.attempted

LEMMA AlikeUpdates ==
  ASSUME NEW s \in Session
  PROVE  /\ Alike(s, s) /\ Alike(Left(s), s)
         /\ \A x : Alike(AtItsExit(s, x), s)
         /\ \A x : Alike([s EXCEPT !.expected = x], s)
         /\ Alike([s EXCEPT !.released = TRUE], s)
         /\ Alike([s EXCEPT !.authorized = TRUE], s)
         /\ Alike([s EXCEPT !.declined = TRUE], s)
         /\ Alike([s EXCEPT !.ghost = TRUE], s)
         /\ Alike([s EXCEPT !.entry = "gate"], s)
         /\ \A x : Alike([s EXCEPT !.stay = x], s)
<1>1. Alike(s, s) /\ Alike(Left(s), s)
  BY DEF Alike, Left, Session
<1>2. \A x : Alike(AtItsExit(s, x), s)
  BY DEF Alike, AtItsExit, Session
<1>3. \A x : Alike([s EXCEPT !.expected = x], s)
  BY DEF Alike, Session
<1>4. Alike([s EXCEPT !.released = TRUE], s) /\ Alike([s EXCEPT !.authorized = TRUE], s)
  BY DEF Alike, Session
<1>5. Alike([s EXCEPT !.declined = TRUE], s) /\ Alike([s EXCEPT !.ghost = TRUE], s)
  BY DEF Alike, Session
<1>6. Alike([s EXCEPT !.entry = "gate"], s) /\ \A x : Alike([s EXCEPT !.stay = x], s)
  BY DEF Alike, Session
<1>7. QED
  BY <1>1, <1>2, <1>3, <1>4, <1>5, <1>6

LEMMA OtherUpdates ==
  ASSUME NEW s \in Session
  PROVE  /\ LET c == Charged(s) IN
              /\ c.sid = s.sid /\ c.retries = s.retries /\ c.corrected = s.corrected
              /\ c.paid = s.paid /\ c.attempted
         /\ LET c == Paid(s) IN
              /\ c.sid = s.sid /\ c.retries = s.retries /\ c.corrected = s.corrected
              /\ c.attempted = s.attempted
         /\ LET c == [s EXCEPT !.retries = @ + 1] IN
              /\ c.sid = s.sid /\ c.paid = s.paid /\ c.attempted = s.attempted
              /\ \A cl : Credit(c, cl) = Credit(s, cl) + 1
BY DEF Charged, Paid, Session, Credit

LEMMA FreshFields ==
  ASSUME NEW id, NEW kind
  PROVE  LET s == Fresh(id, kind) IN s.sid = id /\ ~s.paid /\ ~s.attempted
BY DEF Fresh

LEMMA BooksAlike ==
  ASSUME TypeOK, TypeOK', Books, NoNewAsk, EarlyStays, Known,
         NEW s \in Session, Save(s), Alike(s, sess),
         UNCHANGED <<made, deletes, invoices, claims>>
  PROVE  Books'
BY BooksResaved DEF Alike, Books, ClaimsKept

LEMMA HandlerBooks ==
  ASSUME TypeOK, TypeOK', Books, Handler
  PROVE  Books'
<1> EarlyStays /\ sess \in Session
  <2>1. UNCHANGED used
    BY DEF Handler, EntryIn, ParkIn, ParkOut, GhostHeld, ExitIn, DeclinedAtExit, GhostAtExit, AtExit,
           UnpaidElsewhere, PassingExit, Ignore, ExitOut, Payment
  <2>2. QED
    BY <2>1 DEF EarlyStays, TypeOK
<1>1. CASE EntryIn
  <2>1. UNCHANGED <<tasks, invoices, claims>> /\ NoNewAsk
    BY <1>1 DEF EntryIn, history, NoNewAsk
  <2>2. CASE Known /\ UNCHANGED <<made, deletes>> /\ Save([sess EXCEPT !.entry = "gate"])
    BY <2>1, <2>2, UpdateType, AlikeUpdates, BooksAlike
  <2>3. CASE /\ Create /\ Save(Fresh(NewId, "gate"))
             /\ deletes' = deletes \/ (Known /\ deletes' = deletes \cup {sess.sid})
    BY <2>1, <2>3, StartedType, FreshFields, BooksBegun
  <2>4. QED
    BY <1>1, <2>2, <2>3 DEF EntryIn
<1>2. CASE ParkIn
  <2>1. UNCHANGED <<tasks, deletes, invoices, claims>> /\ NoNewAsk
    BY <1>2 DEF ParkIn, history, NoNewAsk
  <2>2. CASE Known
    <3> DEFINE s == [sess EXCEPT !.stay = IF @ = "driving" THEN "parked" ELSE @]
    <3>1. s \in Session
      BY DEF Session
    <3>2. Alike(s, sess)
      BY AlikeUpdates
    <3>3. Save(s) /\ UNCHANGED made
      BY <1>2, <2>2 DEF ParkIn
    <3> HIDE DEF s
    <3>4. QED
      BY <2>1, <2>2, <3>1, <3>2, <3>3, BooksAlike
  <2>3. CASE ~Known
    <3> DEFINE f == Fresh(NewId, "adopted")
               s == [f EXCEPT !.stay = "parked"]
    <3>1. Create /\ Save(s)
      BY <1>2, <2>3 DEF ParkIn
    <3>2. f \in Session /\ f.sid = NewId /\ ~f.paid /\ ~f.attempted
      BY <3>1, StartedType, FreshFields
    <3> HIDE DEF f
    <3>3. s \in Session /\ Alike(s, f)
      BY <3>2, UpdateType, AlikeUpdates
    <3> HIDE DEF s
    <3>4. QED
      BY <2>1, <3>1, <3>2, <3>3, BooksBegun DEF Alike
  <2>4. QED
    BY <2>2, <2>3
<1>3. CASE ParkOut
  <2>1. UNCHANGED <<made, tasks, deletes, invoices, claims>> /\ NoNewAsk
    BY <1>3 DEF ParkOut, history, NoNewAsk
  <2>2. CASE Known /\ Save(Left(sess))
    BY <2>1, <2>2, UpdateType, AlikeUpdates, BooksAlike
  <2>3. CASE UNCHANGED <<sess, row>>
    BY <2>1, <2>3, BooksUntouched
  <2>4. QED
    BY <1>3, <2>2, <2>3 DEF ParkOut
<1>4. CASE GhostHeld
  <2> DEFINE s == IF Known THEN sess ELSE Fresh(NewId, "ghost")
             x == [AtItsExit(s, stripe) EXCEPT !.ghost = TRUE,
                       !.expected = IF s.attempted THEN @ ELSE "estimate"]
  <2>1. /\ IF Known THEN UNCHANGED made ELSE Create
        /\ Save(x) /\ Spawn("ghost", s.sid)
        /\ UNCHANGED <<deletes, invoices, claims>>
    BY <1>4 DEF GhostHeld, history
  <2>2. s \in Session
    BY <2>1, MeantType
  <2>3. ~Known => s.sid = NewId /\ ~s.paid /\ ~s.attempted
    BY FreshFields
  <2>4. Known => s = sess
    OBVIOUS
  <2>5. s.sid \in 1 .. made'
    <3>1. CASE Known
      BY <2>1, <3>1, KnownType DEF Books, Numbered, TypeOK, Sids
    <3>2. CASE ~Known
      BY <2>1, <2>3, <3>2, CreateType DEF TypeOK
    <3>3. QED
      BY <3>1, <3>2
  <2> HIDE DEF s
  <2>6. Alike(x, s)
    BY <2>2 DEF Alike, AtItsExit, Session
  <2> HIDE DEF x
  <2>7. x \in Session
    BY <2>1, Saved DEF TypeOK
  <2>8. NoNewAsk
    BY <2>1, <2>5 DEF NoNewAsk, Spawn
  <2>9. CASE Known
    BY <2>1, <2>4, <2>6, <2>7, <2>8, <2>9, BooksAlike
  <2>10. CASE ~Known
    BY <2>1, <2>3, <2>6, <2>7, <2>8, <2>10, BooksBegun DEF Alike
  <2>11. QED
    BY <2>9, <2>10
<1>5. ASSUME NEW x \in Exits, ExitIn(x)
      PROVE  Books'
  <2>1. UNCHANGED <<invoices, claims>>
    BY <1>5 DEF ExitIn, history
  <2>2. CASE DeclinedAtExit(x)
    BY <2>1, <2>2, UpdateType, AlikeUpdates, BooksAlike DEF DeclinedAtExit, NoNewAsk
  <2>3. CASE AtExit(x)
    <3>1. Known /\ sess.sid \in 1 .. made' /\ UNCHANGED <<made, deletes>>
      BY <2>3, KnownType DEF AtExit, IsGhost, Books, Numbered, TypeOK, Sids
    <3>2. NoNewAsk
      BY <2>3, <3>1 DEF AtExit, NoNewAsk, Spawn
    <3>3. QED
      BY <2>1, <2>3, <3>1, <3>2, UpdateType, AlikeUpdates, BooksAlike DEF AtExit
  <2>4. CASE GhostAtExit(x) \/ UnpaidElsewhere(x) \/ PassingExit(x)
    <3>1. UNCHANGED <<sess, row, made, tasks, deletes>> /\ NoNewAsk
      BY <2>4 DEF GhostAtExit, UnpaidElsewhere, PassingExit, Ignore, memory, disk, NoNewAsk
    <3>2. QED
      BY <2>1, <3>1, BooksUntouched
  <2>5. QED
    BY <1>5, <2>2, <2>3, <2>4 DEF ExitIn
<1>6. ASSUME NEW x \in Exits, ExitOut(x)
      PROVE  Books'
  <2>1. UNCHANGED <<made, tasks, invoices, claims>> /\ NoNewAsk
    BY <1>6 DEF ExitOut, Ignore, Archive, memory, history, NoNewAsk
  <2>2. CASE UNCHANGED <<sess, row, deletes>>
    BY <2>1, <2>2, BooksUntouched
  <2>3. CASE /\ Known /\ sess' = Nobody /\ row' \in {row, NoRow}
             /\ deletes' \subseteq deletes \cup {sess.sid}
    BY <2>1, <2>3, BooksClosed
  <2>4. QED
    BY <1>6, <2>2, <2>3 DEF ExitOut, Ignore, Archive, memory, disk
<1>7. ASSUME NEW a \in Amounts \cup {"wrong"}, Payment(a)
      PROVE  Books'
  <2>1. UNCHANGED <<made, deletes, invoices, claims>>
    BY <1>7 DEF Payment, history
  <2>2. CASE SuspectPayment(a)
    <3>1. CASE /\ Known /\ Save([sess EXCEPT !.retries = @ + 1])
               /\ tasks' = tasks \cup {[kind |-> "ask", sid |-> sess.sid, n |-> sess.retries]}
      BY <2>1, <3>1, UpdateType, OtherUpdates, BooksAsked
    <3>2. CASE UNCHANGED tasks /\ Known /\ Save(sess)
      BY <2>1, <3>2, AlikeUpdates, BooksAlike DEF NoNewAsk
    <3>3. CASE UNCHANGED <<sess, row, tasks>>
      BY <2>1, <3>3, BooksUntouched DEF NoNewAsk
    <3>4. QED
      BY <2>2, <3>1, <3>2, <3>3 DEF SuspectPayment
  <2>3. CASE AcceptPayment(a)
    <3>1. Known /\ sess.attempted /\ Save(Paid(sess))
      BY <2>3 DEF AcceptPayment, Valid
    <3>2. sess.sid \in 1 .. made'
      BY <2>1, <3>1, KnownType DEF Books, Numbered, TypeOK, Sids
    <3>3. NoNewAsk
      BY <2>3, <3>2 DEF AcceptPayment, NoNewAsk
    <3>4. QED
      BY <2>1, <3>1, <3>3, UpdateType, OtherUpdates, BooksResaved
  <2>4. CASE IgnorePayment(a)
    BY <2>1, <2>4, BooksUntouched DEF IgnorePayment, NoNewAsk
  <2>5. QED
    BY <1>7, <2>2, <2>3, <2>4 DEF Payment
<1>8. QED
  BY <1>1, <1>2, <1>3, <1>4, <1>5, <1>6, <1>7 DEF Handler

LEMMA CarBooks ==
  ASSUME TypeOK, TypeOK', Books, Car
  PROVE  Books'
<1>1. \E ms : Post(ms)
  BY DEF Car, Arrive, Park, DriveOff, Pay, PayWrong, ReachExit
<1>2. UNCHANGED <<sess, row, made, tasks, deletes, invoices, claims>>
  BY <1>1 DEF Post, memory, disk, history
<1>3. EarlyStays
  <2>1. UNCHANGED used \/ Rarely("wrong")
    BY DEF Car, Arrive, Park, DriveOff, Pay, PayWrong, ReachExit
  <2>2. QED
    BY <2>1, RarelyType DEF EarlyStays, Rare
<1>4. QED
  BY <1>2, <1>3, BooksUntouched DEF NoNewAsk

\* An invoice put on the wire is one invoice more.
LEMMA SendMore ==
  ASSUME TypeOK, NEW s, NEW amount, Send(s, amount)
  PROVE  More(invoices, invoices', s)
BY DEF Send, More, TypeOK

LEMMA CoroutineBooks ==
  ASSUME TypeOK, TypeOK', Books, NEW t \in tasks, Coroutine(t)
  PROVE  Books'
<1>1. sess \in Session
  BY DEF TypeOK
<1>2. CASE Invoice(t)
  <2> DEFINE x == [sess EXCEPT !.expected = AmountOf(t)]
  <2>1. /\ Save(Charged(x)) /\ claims' = claims \cup {sess.sid} /\ sess.sid = t.sid
        /\ ~sess.attempted /\ tasks' \subseteq tasks /\ UNCHANGED <<made, deletes, used>>
        /\ Send(t.sid, AmountOf(t))
    BY <1>2 DEF Invoice, Wake, StillUnbilled
  <2>2. x \in Session /\ Alike(x, sess)
    BY <1>1, AmountType, AlikeUpdates
  <2> HIDE DEF x
  <2>3. /\ Charged(x) \in Session /\ Charged(x).sid = sess.sid
        /\ Charged(x).retries = sess.retries /\ Charged(x).corrected = sess.corrected
        /\ Charged(x).attempted
    BY <2>2, UpdateType, OtherUpdates DEF Alike
  <2>4. Known
    BY <2>1 DEF Known, TypeOK, Task, Sids
  <2>5. EarlyStays /\ More(invoices, invoices', sess.sid)
    BY <2>1, SendMore DEF EarlyStays
  <2>6. QED
    BY <2>1, <2>3, <2>4, <2>5, BooksCharged
<1>3. CASE ClaimRefused(t)
  <2>1. Known
    BY <1>3 DEF ClaimRefused, StillUnbilled, Known, TypeOK, Task, Sids
  <2>2. QED
    BY <1>3, <2>1, BooksRefused DEF ClaimRefused, StillUnbilled, Wake, EarlyStays, history
<1>4. CASE NothingToInvoice(t)
  BY <1>4, BooksUntouched DEF NothingToInvoice, Wake, NoNewAsk, EarlyStays, history
<1>5. CASE AskAgain(t)
  <2>1. /\ t.kind \in {"ask", "tamper"} /\ tasks' = tasks \ {t}
        /\ UNCHANGED <<sess, row, made, deletes, claims, used>>
    BY <1>5 DEF AskAgain, Wake
  <2>2. CASE StillOwes(t)
    BY <1>5, <2>1, <2>2, SendMore, BooksAskSent DEF AskAgain, EarlyStays
  <2>3. CASE ~StillOwes(t)
    BY <1>5, <2>1, <2>3, BooksUntouched DEF AskAgain, EarlyStays, NoNewAsk
  <2>4. QED
    BY <2>2, <2>3
<1>6. ASSUME NEW sent \in BOOLEAN, LetOut(t, sent)
      PROVE  Books'
  <2>1. NoNewAsk /\ UNCHANGED <<made, deletes, invoices, claims>>
    BY <1>6 DEF LetOut, NoNewAsk, history
  <2>2. EarlyStays
    BY <1>6, RarelyType DEF LetOut, EarlyStays, Rare
  <2>3. CASE Known /\ Save([sess EXCEPT !.released = TRUE])
    BY <1>1, <2>1, <2>2, <2>3, UpdateType, AlikeUpdates, BooksAlike
  <2>4. CASE Known /\ Save(sess)
    BY <1>1, <2>1, <2>2, <2>4, AlikeUpdates, BooksAlike
  <2>5. CASE UNCHANGED <<sess, row>>
    BY <2>1, <2>2, <2>5, BooksUntouched
  <2>6. sess.sid = t.sid => Known
    BY DEF Known, TypeOK, Task, Sids
  <2>7. QED
    BY <1>6, <2>3, <2>4, <2>5, <2>6 DEF LetOut
<1>7. QED
  BY <1>2, <1>3, <1>4, <1>5, <1>6 DEF Coroutine

\* Resume starts at most one coroutine, about the session at hand.
LEMMA ResumeCalm ==
  ASSUME TypeOK, Books, NEW s, Resume(s), s = Nobody \/ s.sid \in 1 .. made, UNCHANGED made
  PROVE  NoNewAsk
<1>1. CASE s = Nobody
  <2>1. ~s.confirmed /\ s.sid = 0
    BY <1>1 DEF Nobody, Fresh
  <2>2. QED
    BY <2>1 DEF Resume, NoNewAsk
<1>2. CASE s.sid \in 1 .. made
  BY <1>2 DEF Resume, NoNewAsk, Spawn
<1>3. QED
  BY <1>1, <1>2

LEMMA UnstripedBooks ==
  ASSUME TypeOK, TypeOK', Books, Unstriped
  PROVE  Books'
<1>1. sess \in Session /\ row \in Row /\ made \in Nat
  BY DEF TypeOK
<1>2. sess = Nobody \/ (Known /\ sess.sid \in 1 .. made)
  <2>1. (Known \/ sess = Nobody) /\ sess.sid <= made
    BY DEF Books, Numbered
  <2>2. Known => sess.sid \in 1 .. made
    <3>1. Known => sess.sid \in 1 .. MaxSessions
      BY KnownType DEF Sids
    <3>2. QED
      BY <1>1, <2>1, <3>1
  <2>3. QED
    BY <2>1, <2>2
<1>3. CASE Tamper
  <2>1. EarlyStays
    BY <1>3, RarelyType DEF Tamper, EarlyStays, Rare
  <2>2. /\ Known /\ Save([sess EXCEPT !.retries = @ + 1])
        /\ tasks' = tasks \cup {[kind |-> "tamper", sid |-> sess.sid, n |-> 0]}
        /\ UNCHANGED <<made, deletes, invoices, claims>>
    BY <1>3 DEF Tamper, Spawn, history
  <2>3. QED
    BY <1>1, <2>1, <2>2, UpdateType, OtherUpdates, BooksAsked
<1>4. CASE Correct
  <2> DEFINE s == [sess EXCEPT !.corrected = TRUE, !.expected = "corrected"]
  <2>1. EarlyStays
    BY <1>4, RarelyType DEF Correct, EarlyStays, Rare
  <2>2. Known /\ Save(s) /\ ~sess.corrected /\ Send(sess.sid, "corrected")
        /\ UNCHANGED <<made, tasks, deletes, claims>>
    BY <1>4 DEF Correct
  <2>3. /\ s \in Session /\ s.sid = sess.sid /\ s.paid = sess.paid /\ s.attempted = sess.attempted
        /\ Credit(s, claims) = Credit(sess, claims) + 1
    <3>1. s \in Session
      BY <1>1 DEF Session, Amounts
    <3>2. /\ s.sid = sess.sid /\ s.paid = sess.paid /\ s.attempted = sess.attempted
          /\ s.retries = sess.retries /\ s.corrected = TRUE
      BY <1>1 DEF Session
    <3>3. sess.retries \in Nat
      BY <1>1 DEF Session
    <3> HIDE DEF s
    <3>4. QED
      BY <2>2, <3>1, <3>2, <3>3 DEF Credit
  <2> HIDE DEF s
  <2>4. QED
    BY <2>1, <2>2, <2>3, SendMore, BooksSent
<1>5. CASE StaffAsk
  <2>1. EarlyStays
    BY <1>5, RarelyType DEF StaffAsk, EarlyStays, Rare
  <2>2. Known /\ Save([sess EXCEPT !.retries = @ + 1]) /\ Send(sess.sid, sess.expected)
        /\ UNCHANGED <<made, tasks, deletes, claims>>
    BY <1>5 DEF StaffAsk
  <2>3. QED
    BY <1>1, <2>1, <2>2, UpdateType, OtherUpdates, SendMore, BooksSent
<1>6. CASE StaffOverride
  <2> DEFINE s == IF Known THEN sess ELSE Fresh(NewId, "override")
             billed == [AtItsExit(s, ghost) EXCEPT !.expected = "estimate"]
  <2>1. /\ IF Known THEN UNCHANGED made ELSE Create
        /\ \/ Save(billed) /\ UNCHANGED <<invoices, claims>> /\ (s.attempted \/ row.claimed)
           \/ /\ ~s.attempted
              /\ Save(Charged(billed)) /\ claims' = claims \cup {s.sid}
              /\ Send(s.sid, "estimate")
        /\ ghost # "none" /\ UNCHANGED <<tasks, deletes, used>>
    BY <1>6 DEF StaffOverride, history
  <2>2. s \in Session
    BY <2>1, MeantType
  <2>3. ~Known => s.sid = NewId /\ ~s.paid /\ ~s.attempted
    BY FreshFields
  <2>4. Known => s = sess
    OBVIOUS
  <2> HIDE DEF s
  <2>5. billed \in Session /\ Alike(billed, s)
    <3>1. AtItsExit(s, ghost) \in Session
      BY <2>1, <2>2, UpdateType DEF TypeOK
    <3>2. billed \in Session
      BY <3>1, UpdateType DEF Amounts
    <3>3. Alike(billed, AtItsExit(s, ghost)) /\ Alike(AtItsExit(s, ghost), s)
      BY <2>2, <3>1, AlikeUpdates
    <3>4. QED
      BY <3>2, <3>3 DEF Alike
  <2> HIDE DEF billed
  <2>6. EarlyStays /\ NoNewAsk
    BY <2>1 DEF EarlyStays, NoNewAsk
  <2>7. CASE Save(billed) /\ UNCHANGED <<invoices, claims>> /\ (s.attempted \/ row.claimed)
    <3>1. CASE Known
      BY <2>1, <2>4, <2>5, <2>6, <2>7, <3>1, BooksAlike
    <3>2. CASE ~Known
      BY <2>1, <2>3, <2>5, <2>6, <2>7, <3>2, BooksBegun DEF Alike
    <3>3. QED
      BY <3>1, <3>2
  <2>8. CASE /\ ~s.attempted
             /\ Save(Charged(billed)) /\ claims' = claims \cup {s.sid}
             /\ Send(s.sid, "estimate")
    <3>1. /\ Charged(billed) \in Session /\ Charged(billed).sid = s.sid
          /\ Charged(billed).retries = s.retries /\ Charged(billed).corrected = s.corrected
          /\ Charged(billed).attempted
      BY <2>5, UpdateType, OtherUpdates DEF Alike
    <3>2. More(invoices, invoices', s.sid)
      BY <2>8, SendMore
    <3>3. \/ /\ Known /\ s.sid = sess.sid /\ s.retries = sess.retries /\ s.corrected = sess.corrected
             /\ ~sess.attempted /\ UNCHANGED made
          \/ Create /\ s.sid = NewId
      BY <2>1, <2>3, <2>4, <2>8
    <3>4. QED
      BY <2>1, <2>6, <2>8, <3>1, <3>2, <3>3, BooksCharged
  <2>9. QED
    BY <2>1, <2>7, <2>8
<1>7. CASE StaffRelease
  <2> DEFINE f == Fresh(NewId, "ghost")
             g == [AtItsExit(f, ghost) EXCEPT !.ghost = TRUE]
             s == IF Known THEN sess ELSE g
             z == [s EXCEPT !.authorized = TRUE]
  <2>1. /\ IF Known THEN UNCHANGED made ELSE Create
        /\ Save(z) /\ Spawn("letOut", s.sid) /\ ghost # "none"
        /\ UNCHANGED <<deletes, used, invoices, claims>>
    BY <1>7 DEF StaffRelease, history
  <2>2. ~Known => /\ g \in Session /\ Alike(g, f)
                  /\ f.sid = NewId /\ ~f.paid /\ ~f.attempted
    <3>1. f.sid = NewId /\ ~f.paid /\ ~f.attempted
      BY FreshFields
    <3>2. ~Known => f \in Session
      BY <2>1, MeantType
    <3> HIDE DEF f
    <3>3. ghost \in Exits
      BY <2>1 DEF TypeOK
    <3>4. ~Known => AtItsExit(f, ghost) \in Session /\ Alike(AtItsExit(f, ghost), f)
      BY <3>2, <3>3, UpdateType, AlikeUpdates
    <3>5. ~Known => g \in Session /\ Alike(g, AtItsExit(f, ghost))
      BY <3>4, UpdateType, AlikeUpdates
    <3>6. QED
      BY <3>1, <3>4, <3>5 DEF Alike
  <2> HIDE DEF f
  <2> HIDE DEF g
  <2>3. s \in Session /\ (Known => s = sess) /\ (~Known => s.sid = NewId /\ ~s.paid /\ ~s.attempted)
    BY <1>1, <2>2 DEF Alike
  <2> HIDE DEF s
  <2>4. z \in Session /\ Alike(z, s)
    BY <2>3, UpdateType, AlikeUpdates
  <2> HIDE DEF z
  <2>5. s.sid \in 1 .. made'
    BY <1>1, <1>2, <2>1, <2>3, CreateType DEF Known, Nobody, Fresh
  <2>6. NoNewAsk /\ EarlyStays
    BY <2>1, <2>5 DEF NoNewAsk, Spawn, EarlyStays
  <2>7. CASE Known
    BY <2>1, <2>3, <2>4, <2>6, <2>7, BooksAlike
  <2>8. CASE ~Known
    BY <2>1, <2>3, <2>4, <2>6, <2>8, BooksBegun DEF Alike
  <2>9. QED
    BY <2>7, <2>8
<1>8. CASE Reap
  BY <1>8, BooksClosed DEF Reap, Archive, EarlyStays, history
<1>9. CASE NoPark
  BY <1>1, <1>9, UpdateType, AlikeUpdates, BooksAlike DEF NoPark, NoNewAsk, EarlyStays, history
<1>10. CASE EnsureOpen
  <2>1. UNCHANGED <<sess, row, made, deletes, used, invoices, claims>> /\ Resume(sess)
    BY <1>10 DEF EnsureOpen, memory, disk, history
  <2>2. QED
    BY <1>2, <2>1, ResumeCalm, BooksUntouched DEF EarlyStays
<1>11. CASE Sync
  <2>1. UNCHANGED <<made, deletes, used, invoices, claims>> /\ Resume(sess) /\ Known
    BY <1>11 DEF Sync, history
  <2>2. NoNewAsk /\ EarlyStays
    BY <1>2, <2>1, ResumeCalm DEF EarlyStays
  <2>3. CASE UNCHANGED <<sess, row>>
    BY <2>1, <2>2, <2>3, BooksUntouched
  <2>4. CASE Save(Left(sess))
    BY <1>1, <2>1, <2>2, <2>4, UpdateType, AlikeUpdates, BooksAlike
  <2>5. QED
    BY <1>11, <2>3, <2>4 DEF Sync
<1>12. CASE SyncEarly
  <2>1. /\ row.saved.sid # 0 /\ Rarely("early") /\ sess' = Restored(row) /\ Resume(sess')
        /\ UNCHANGED <<made, row, deletes, invoices, claims>>
    BY <1>12 DEF SyncEarly, disk, history
  <2>2. EarlyStays /\ used'["early"] # 0
    BY <2>1, RarelyType DEF EarlyStays, Rare
  <2>3. sess'.sid = row.saved.sid
    BY <1>1, <2>1, RestoredFields
  <2>4. row.saved.sid \in 1 .. made
    <3>1. row.saved.sid \in Nat
      BY <1>1 DEF Row, Session
    <3>2. QED
      BY <1>1, <2>1, <3>1 DEF Books, Numbered
  <2>5. NoNewAsk
    BY <2>1, <2>3, <2>4, ResumeCalm
  <2>6. QED
    BY <1>1, <2>1, <2>2, <2>4, <2>5, BooksRestored DEF Books, ClaimsKept, Budgeted, Numbered
<1>13. QED
  BY <1>3, <1>4, <1>5, <1>6, <1>7, <1>8, <1>9, <1>10, <1>11, <1>12 DEF Unstriped

LEMMA StorageBooks ==
  ASSUME TypeOK, TypeOK', Books, Storage
  PROVE  Books'
<1>1. row \in Row /\ sess \in Session
  BY DEF TypeOK
<1>2. ASSUME NEW s \in deletes, Flush(s)
      PROVE  Books'
  BY <1>2, BooksFlushed DEF Flush, memory, history, EarlyStays
<1>3. ASSUME NEW r, Restart(r)
      PROVE  /\ row' = r /\ sess' = Restored(r) /\ tasks' \subseteq tasks /\ deletes' = {}
             /\ UNCHANGED made /\ EarlyStays
  BY <1>3, RarelyType DEF Restart, EarlyStays, Rare
<1>4. CASE Crash
  <2>1. Restart(row) /\ UNCHANGED <<invoices, claims>>
    BY <1>4 DEF Crash, history
  <2>2. NoNewAsk
    BY <1>3, <2>1 DEF NoNewAsk
  <2>3. QED
    BY <1>1, <1>3, <2>1, <2>2, BooksRestored DEF Books, ClaimsKept, Budgeted, Numbered
<1>5. ASSUME NEW t \in tasks, CrashAfterClaim(t)
      PROVE  Books'
  <2> DEFINE r == [RowAtClaim(t) EXCEPT !.claimed = TRUE]
  <2>1. /\ Restart(r) /\ UNCHANGED invoices /\ claims' = claims \cup {sess.sid}
        /\ sess.sid = t.sid /\ RowAtClaim(t).saved.sid = sess.sid
    BY <1>5 DEF CrashAfterClaim, StillUnbilled, Claimable
  <2>2. sess.sid \in 1 .. made
    BY <2>1 DEF Books, Numbered
  <2>3. RowAtClaim(t) \in Row
    BY AmountType
  <2>4. r \in Row /\ r.saved = RowAtClaim(t).saved /\ r.claimed
    BY <2>3 DEF Row
  <2> HIDE DEF r
  <2>5. InBudget(r.saved, invoices, claims, tasks)
    <3>1. CASE r.saved = row.saved
      BY <3>1 DEF Books, Budgeted
    <3>2. CASE r.saved = [sess EXCEPT !.expected = AmountOf(t)]
      <4>1. r.saved \in Session /\ Alike(r.saved, sess)
        BY <1>1, <2>4, <3>2, AlikeUpdates DEF Row
      <4>2. invoices \in [Sids -> Nat] /\ IsFiniteSet(tasks) /\ InBudget(sess, invoices, claims, tasks)
        BY DEF TypeOK, Books, Budgeted
      <4>3. Asks(tasks, r.saved.sid) \subseteq Asks(tasks, r.saved.sid)
        OBVIOUS
      <4>4. QED
        BY <1>1, <4>1, <4>2, <4>3, BudgetKept DEF Alike
    <3>3. QED
      BY <2>4, <3>1, <3>2 DEF RowAtClaim, Upserted
  <2>6. NoNewAsk /\ r.saved.sid <= made
    BY <1>3, <2>1, <2>2, <2>4 DEF NoNewAsk, TypeOK
  <2>7. claims' \subseteq 1 .. made
    BY <2>1, <2>2 DEF Books, Numbered
  <2>8. QED
    BY <1>3, <2>1, <2>4, <2>5, <2>6, <2>7, BooksRestored
<1>6. QED
  BY <1>2, <1>4, <1>5 DEF Storage

-----------------------------------------------------------------------------
(* The theorems.                                                           *)

LEMMA InitInv == Init => IInv
<1>1. SUFFICES ASSUME Init PROVE Books
  BY InitType DEF IInv
<1>2. Nobody.sid = 0 /\ NoRow.saved.sid = 0 /\ ~Nobody.paid
  BY DEF Nobody, Fresh, NoRow
<1>3. Numbered
  BY <1>1, <1>2 DEF Init, Numbered
<1>4. OneRow /\ ClaimsKept
  BY <1>1, <1>2 DEF Init, OneRow, ClaimsKept, Known
<1>5. Budgeted
  BY <1>1, <1>2, FS_EmptySet DEF Init, Budgeted, InBudget
<1>6. QED
  BY <1>3, <1>4, <1>5 DEF Books

LEMMA NextInv == IInv /\ [Next]_vars => IInv'
<1>1. SUFFICES ASSUME TypeOK, Books, [Next]_vars PROVE TypeOK' /\ Books'
  BY DEF IInv
<1>2. CASE UNCHANGED vars
  <2>1. TypeOK'
    BY <1>1, <1>2 DEF TypeOK, vars
  <2>2. QED
    BY <1>1, <1>2, <2>1, BooksUntouched DEF vars, NoNewAsk, EarlyStays
<1>3. CASE Car
  BY <1>1, <1>3, CarType, CarBooks
<1>4. CASE Handler
  BY <1>1, <1>4, HandlerType, HandlerBooks
<1>5. ASSUME NEW t \in tasks, Coroutine(t)
      PROVE  TypeOK' /\ Books'
  BY <1>1, <1>5, CoroutineType, CoroutineBooks
<1>6. CASE Unstriped
  BY <1>1, <1>6, UnstripedType, UnstripedBooks DEF Books, Numbered
<1>7. CASE Storage
  BY <1>1, <1>7, StorageType, StorageBooks
<1>8. QED
  BY <1>1, <1>2, <1>3, <1>4, <1>5, <1>6, <1>7 DEF Next

\* In every reachable state the invariant holds: every claim, correction and counted
\* re-request of an invoice is entered in the books before the invoice goes out, so that
\* no interleaving issues one that they do not allow.
THEOREM Invariant == Spec => []IInv
BY InitInv, NextInv, PTL DEF Spec

\* Every variable keeps its type; retries stay counts, for any number of them.
THEOREM TypeCorrect == Spec => []TypeOK
BY Invariant, PTL DEF IInv

\* However staff, sleepers, corrections, restarts and webhooks interleave, a
\* session is invoiced no more often than its claim, its correction and its
\* counted re-requests allow.
THEOREM InvoicedOnce == Spec => []InvoiceBudget
<1>1. IInv => InvoiceBudget
  <2>1. SUFFICES ASSUME TypeOK, Books, Known PROVE invoices[sess.sid] <= Budget(sess)
    BY DEF IInv, InvoiceBudget
  <2>2. sess \in Session /\ sess.sid \in Sids /\ invoices[sess.sid] \in Nat /\ IsFiniteSet(tasks)
    BY <2>1, KnownType DEF TypeOK, Books, Budgeted
  <2>3. Cardinality(Asks(tasks, sess.sid)) \in Nat
    BY <2>2, AsksFewer
  <2>4. invoices[sess.sid] + Cardinality(Asks(tasks, sess.sid)) <= Credit(sess, claims)
    BY <2>1 DEF Books, Budgeted, InBudget, Known
  <2>5. Credit(sess, claims) = Budget(sess)
    BY DEF Credit, Budget
  <2>6. QED
    BY <2>2, <2>3, <2>4, <2>5, CreditType
<1>2. QED
  BY <1>1, Invariant, PTL

\* A payment that was accepted is on disk at once.
THEOREM PaymentsAreDurable == Spec => []PaidIsDurable
<1>1. IInv => PaidIsDurable
  <2>1. ~Nobody.paid
    BY DEF Nobody, Fresh
  <2>2. QED
    BY <2>1 DEF IInv, Books, Numbered, OneRow, PaidIsDurable
<1>2. QED
  BY <1>1, Invariant, PTL

\* No step sends an invoice for a session that is not the plate's, or has paid.
LEMMA NextDue ==
  ASSUME IInv, [Next]_vars, NEW s \in Sids, invoices'[s] > invoices[s]
  PROVE  sess'.sid = s /\ ~(sess.sid = s /\ sess.paid)
<1>1. sess \in Session /\ invoices \in [Sids -> Nat]
  BY DEF IInv, TypeOK
<1>2. ~UNCHANGED invoices
  BY <1>1
<1>3. ASSUME NEW id, NEW amount, Send(id, amount)
      PROVE  id = s
  BY <1>1, <1>3 DEF Send
<1>4. ASSUME NEW t \in tasks, Coroutine(t)
      PROVE  sess'.sid = s /\ ~(sess.sid = s /\ sess.paid)
  <2>1. CASE Invoice(t)
    <3> DEFINE x == [sess EXCEPT !.expected = AmountOf(t)]
    <3>1. Save(Charged(x)) /\ sess.sid = t.sid /\ ~sess.paid /\ Send(t.sid, AmountOf(t))
      BY <2>1 DEF Invoice, StillUnbilled
    <3>2. Charged(x).sid = sess.sid
      BY <1>1 DEF Charged, Session
    <3> HIDE DEF x
    <3>3. QED
      BY <1>3, <3>1, <3>2, Saved
  <2>2. CASE AskAgain(t)
    BY <1>2, <1>3, <2>2 DEF AskAgain, StillOwes
  <2>3. CASE ClaimRefused(t) \/ NothingToInvoice(t) \/ LetOut(t, TRUE) \/ LetOut(t, FALSE)
    BY <1>2, <2>3 DEF ClaimRefused, NothingToInvoice, LetOut, history
  <2>4. QED
    BY <1>4, <2>1, <2>2, <2>3 DEF Coroutine
<1>5. CASE Unstriped
  <2>1. CASE Correct
    <3>1. /\ Send(sess.sid, "corrected") /\ ~sess.paid
          /\ Save([sess EXCEPT !.corrected = TRUE, !.expected = "corrected"])
      BY <2>1 DEF Correct
    <3>2. sess'.sid = sess.sid
      BY <1>1, <3>1 DEF Save, Session
    <3>3. QED
      BY <1>3, <3>1, <3>2
  <2>2. CASE StaffAsk
    <3>1. /\ Send(sess.sid, sess.expected) /\ ~sess.paid
          /\ Save([sess EXCEPT !.retries = @ + 1])
      BY <2>2 DEF StaffAsk
    <3>2. sess'.sid = sess.sid
      BY <1>1, <3>1 DEF Save, Session
    <3>3. QED
      BY <1>3, <3>1, <3>2
  <2>3. CASE StaffOverride
    <3> DEFINE z == IF Known THEN sess ELSE Fresh(NewId, "override")
               billed == [AtItsExit(z, ghost) EXCEPT !.expected = "estimate"]
    <3>1. /\ IF Known THEN UNCHANGED made ELSE Create
          /\ ~z.attempted /\ Save(Charged(billed)) /\ Send(z.sid, "estimate")
      BY <1>2, <2>3 DEF StaffOverride, history
    <3>2. z \in Session
      BY <3>1, MeantType DEF IInv
    <3>3. ~(z.sid = sess.sid /\ sess.paid)
      <4>1. CASE Known
        BY <3>1, <4>1 DEF IInv, Books, ClaimsKept
      <4>2. CASE ~Known
        BY <4>2 DEF IInv, Books, Numbered, Nobody, Fresh
      <4>3. QED
        BY <4>1, <4>2
    <3> HIDE DEF z
    <3>4. Charged(billed).sid = z.sid
      BY <3>2 DEF Charged, AtItsExit, Session
    <3> HIDE DEF billed
    <3>5. sess'.sid = z.sid
      BY <3>1, <3>4, Saved
    <3>6. QED
      BY <1>3, <3>1, <3>3, <3>5
  <2>4. CASE Tamper \/ StaffRelease \/ Reap \/ NoPark \/ EnsureOpen \/ Sync \/ SyncEarly
    BY <1>2, <2>4 DEF Tamper, StaffRelease, Reap, NoPark, EnsureOpen, Sync, SyncEarly, history
  <2>5. QED
    BY <1>5, <2>1, <2>2, <2>3, <2>4 DEF Unstriped
<1>6. CASE Car
  BY <1>2, <1>6 DEF Car, Arrive, Park, DriveOff, Pay, PayWrong, ReachExit, Post, history
<1>7. CASE Handler
  BY <1>2, <1>7 DEF Handler, EntryIn, ParkIn, ParkOut, GhostHeld, ExitIn, ExitOut, Payment, history
<1>8. CASE Storage
  BY <1>2, <1>8 DEF Storage, Flush, Crash, CrashAfterClaim, history
<1>9. CASE UNCHANGED vars
  BY <1>2, <1>9 DEF vars
<1>10. QED
  BY <1>4, <1>5, <1>6, <1>7, <1>8, <1>9 DEF Next

\* What a sleeper, a staff request or a correction decided before it waited is
\* still due when the invoice goes out.
THEOREM OnlyDueIsInvoiced == Spec => InvoiceIsDue
<1>1. IInv /\ [Next]_vars =>
        [\A s \in Sids :
           invoices'[s] > invoices[s]
             => sess'.sid = s /\ ~(sess.sid = s /\ sess.paid)]_vars
  BY NextDue
<1>2. QED
  BY <1>1, Invariant, PTL DEF Spec, InvoiceIsDue

-----------------------------------------------------------------------------
(***************************************************************************)
(* A car's first visit, from its payment to the barrier: what the money    *)
(* that was accepted, the releases under way and the webhooks still to be  *)
(* handled say of the car.                                                 *)
(***************************************************************************)

\* The visit is over; its invoice is paid or the visit is over; staff need not, or do,
\* agree to let the car of session s out; webhook m says that an amount was paid.
Gone == at = "away" /\ visits > 0
Over == due = "paid" \/ Gone
Agreed(s) == ~s.ghost \/ s.authorized
Money(m) == m.kind = "paid" /\ m.what \in Amounts
AllOut(ms) == \A i \in 1 .. Len(ms) : ms[i].kind = "exitOut"

\* A release is under way; or the session has paid, in memory or on disk.
Releasing == \E t \in tasks : t.kind = "release"
Paying == sess.paid \/ row.saved.paid \/ Releasing

\* A visit has begun, and only a car at an exit owes anything.
Placed == (at # "away" => visits > 0) /\ (due # "none" => at \in Exits)

\* Nothing but its departure follows a payment in the inbox: a webhook of an exit it
\* reached earlier cannot make a ghost of a car that has paid.
LastWord ==
  \A i \in 1 .. Len(inbox) :
    /\ inbox[i].kind = "exitOut" => Gone
    /\ Money(inbox[i]) => Over /\ \A j \in i + 1 .. Len(inbox) : inbox[j].kind = "exitOut"

\* A payment that is in memory, on disk or about to open the barrier was really made.
Ended == Paying => Over /\ stripe \notin Exits /\ AllOut(inbox)

\* Staff's agreement to a ghost car is not lost between memory, disk and the release.
Consent ==
  /\ Known /\ Agreed(sess) => Agreed(row.saved)
  /\ Releasing => Gone \/ (Agreed(sess) /\ Agreed(row.saved))

Settling == Placed /\ LastWord /\ Ended /\ Consent
FirstVisit == visits <= 1 => Settling

LEMMA NoWords == "away" \notin Exits /\ "free" \notin Exits /\ "release" \notin Exits
<1>1. Exits \cap Words = {}
  BY BillingAssumption
<1>2. "away" \in Words /\ "free" \in Words /\ "release" \in Words
  BY DEF Words
<1>3. QED
  BY <1>1, <1>2

LEMMA InitSettling == Init => FirstVisit
<1>1. Len(<<>>) = 0 /\ "away" \notin Exits /\ "free" \notin Exits
  BY NoWords
<1> SUFFICES ASSUME Init PROVE Settling
  BY DEF FirstVisit
<1>2. Placed
  BY <1>1 DEF Init, Placed
<1>3. LastWord /\ AllOut(inbox)
  BY <1>1 DEF Init, LastWord, AllOut
<1>4. ~Paying /\ Agreed(row.saved)
  BY DEF Init, Paying, Releasing, Nobody, NoRow, Fresh, Agreed
<1>5. QED
  BY <1>2, <1>3, <1>4 DEF Settling, Ended, Consent, Paying

-----------------------------------------------------------------------------
(* Steps that neither post a webhook nor accept a payment.                 *)

Shorter ==
  inbox' = inbox \/ inbox' = <<>> \/ (inbox # <<>> /\ inbox' = Tail(inbox))

\* The car stays where it is, its webhooks are taken from the front, and a release is
\* started for a session that has paid and is agreed to.
Calm ==
  /\ UNCHANGED <<at, visits>>
  /\ due = "paid" => due' = "paid"
  /\ due' # "none" => due # "none" \/ at \in Exits
  /\ Shorter
  /\ stripe' \in Exits => stripe \in Exits \/ ~Paying
  /\ Releasing' => Releasing \/ (sess'.paid /\ Agreed(sess') /\ Known')

\* What memory and disk say of payment and consent does not get stronger.
Deal ==
  /\ sess'.paid \/ row'.saved.paid => Paying
  /\ Releasing /\ Agreed(sess) /\ Agreed(row.saved) => Agreed(sess') /\ Agreed(row'.saved)
  /\ Known' /\ Agreed(sess') => Agreed(row'.saved)

LEMMA ShorterInbox ==
  ASSUME TypeOK, LastWord, Shorter, Gone => Gone', Over => Over'
  PROVE  LastWord' /\ (AllOut(inbox) => AllOut(inbox'))
<1>1. CASE inbox' = inbox
  BY <1>1 DEF LastWord, AllOut
<1>2. CASE inbox' = <<>>
  <2>1. Len(inbox') = 0
    BY <1>2
  <2>2. QED
    BY <2>1 DEF LastWord, AllOut
<1>3. CASE inbox # <<>> /\ inbox' = Tail(inbox)
  <2>1. inbox \in Seq(Webhook)
    BY DEF TypeOK
  <2>2. /\ Len(inbox) \in Nat /\ Len(inbox') = Len(inbox) - 1
        /\ \A i \in 1 .. Len(inbox') : inbox'[i] = inbox[i + 1]
    BY <1>3, <2>1
  <2>3. ASSUME NEW i \in 1 .. Len(inbox')
        PROVE  i + 1 \in 1 .. Len(inbox) /\ inbox'[i] = inbox[i + 1]
    BY <2>2, <2>3
  <2>4. AllOut(inbox) => AllOut(inbox')
    BY <2>3 DEF AllOut
  <2>5. ASSUME NEW i \in 1 .. Len(inbox')
        PROVE  /\ inbox'[i].kind = "exitOut" => Gone'
               /\ Money(inbox'[i]) => Over' /\ \A j \in i + 1 .. Len(inbox') : inbox'[j].kind = "exitOut"
    <3>1. /\ inbox'[i].kind = "exitOut" => Gone
          /\ Money(inbox'[i]) => Over /\ \A j \in (i + 1) + 1 .. Len(inbox) : inbox[j].kind = "exitOut"
      BY <2>3, <2>5 DEF LastWord
    <3>2. ASSUME NEW j \in i + 1 .. Len(inbox')
          PROVE  j + 1 \in (i + 1) + 1 .. Len(inbox) /\ inbox'[j] = inbox[j + 1]
      BY <2>2, <2>5, <3>2
    <3>3. QED
      BY <3>1, <3>2
  <2>6. QED
    BY <2>4, <2>5 DEF LastWord, Money
<1>4. QED
  BY <1>1, <1>2, <1>3 DEF Shorter

LEMMA KeepSettled ==
  ASSUME TypeOK, FirstVisit, Calm, Deal
  PROVE  FirstVisit'
<1> SUFFICES ASSUME visits <= 1 PROVE Settling'
  BY DEF FirstVisit, Calm
<1>1. Placed /\ LastWord /\ Ended /\ Consent
  BY DEF FirstVisit, Settling
<1>2. (Gone' <=> Gone) /\ (Over => Over')
  BY DEF Calm, Gone, Over
<1>3. Placed'
  BY <1>1 DEF Placed, Calm
<1>4. LastWord' /\ (AllOut(inbox) => AllOut(inbox'))
  BY <1>1, <1>2, ShorterInbox DEF Calm
<1>5. Paying' => Paying
  BY DEF Calm, Deal, Paying
<1>6. Ended'
  BY <1>1, <1>2, <1>4, <1>5 DEF Ended, Calm
<1>7. Consent'
  BY <1>1, <1>2 DEF Consent, Calm, Deal
<1>8. QED
  BY <1>3, <1>4, <1>6, <1>7 DEF Settling

\* s says of payment and consent what p says.
SameDeal(s, p) == s.paid = p.paid /\ s.ghost = p.ghost /\ s.authorized = p.authorized

LEMMA SameDealUpdates ==
  ASSUME NEW s \in Session
  PROVE  /\ SameDeal(s, s) /\ SameDeal(Left(s), s) /\ SameDeal(Charged(s), s)
         /\ \A x : SameDeal(AtItsExit(s, x), s)
         /\ \A x : SameDeal([s EXCEPT !.expected = x], s)
         /\ \A x : SameDeal([s EXCEPT !.attempted = x], s)
         /\ \A x : SameDeal([s EXCEPT !.stay = x], s)
         /\ SameDeal([s EXCEPT !.retries = @ + 1], s)
         /\ SameDeal([s EXCEPT !.released = TRUE], s)
         /\ SameDeal([s EXCEPT !.declined = TRUE], s)
         /\ SameDeal([s EXCEPT !.entry = "gate"], s)
<1>1. SameDeal(s, s) /\ SameDeal(Left(s), s) /\ SameDeal(Charged(s), s)
  BY DEF SameDeal, Left, Charged, Session
<1>2. /\ \A x : SameDeal(AtItsExit(s, x), s)
      /\ \A x : SameDeal([s EXCEPT !.expected = x], s)
  BY DEF SameDeal, AtItsExit, Session
<1>3. /\ \A x : SameDeal([s EXCEPT !.attempted = x], s)
      /\ \A x : SameDeal([s EXCEPT !.stay = x], s)
  BY DEF SameDeal, Session
<1>4. /\ SameDeal([s EXCEPT !.retries = @ + 1], s)
      /\ SameDeal([s EXCEPT !.released = TRUE], s)
      /\ SameDeal([s EXCEPT !.declined = TRUE], s)
      /\ SameDeal([s EXCEPT !.entry = "gate"], s)
  BY DEF SameDeal, Session
<1>5. QED
  BY <1>1, <1>2, <1>3, <1>4

\* A session saved with the payment and consent it had.
LEMMA DealSaved ==
  ASSUME NEW s, Save(s), SameDeal(s, sess)
  PROVE  Deal
BY Saved DEF SameDeal, Deal, Paying, Agreed

\* A session that is no ghost or is agreed to, and has no payment it had not.
LEMMA DealBegun ==
  ASSUME NEW s, Save(s), s.paid => sess.paid, Agreed(s)
  PROVE  Deal
BY Saved DEF Deal, Paying, Agreed

\* Nothing is said of it, or the session is dropped, with its row or without.
LEMMA DealDropped ==
  ASSUME Consent, sess' = sess \/ sess' = Nobody, row' = row \/ row' = NoRow
  PROVE  Deal
<1>1. ~Nobody.paid /\ Agreed(Nobody) /\ Nobody.sid = 0 /\ NoRow.saved = Nobody
  BY DEF Nobody, Fresh, Agreed, NoRow
<1>2. QED
  BY <1>1 DEF Deal, Paying, Agreed, Consent, Known

-----------------------------------------------------------------------------
(* The car.                                                                *)

\* What the car's webhooks may be once it has paid or has left.
LEMMA PostedSettled ==
  ASSUME TypeOK, Settling, NEW ms \in Seq(Webhook), Post(ms), Placed',
         Gone => Gone', Over => Over',
         \A k \in 1 .. Len(ms) :
           /\ ms[k].kind = "exitOut" => Gone'
           /\ Money(ms[k]) => Over' /\ k = Len(ms)
           /\ Over => ms[k].kind = "exitOut"
  PROVE  Settling'
<1>1. inbox \in Seq(Webhook) /\ Len(inbox) \in Nat /\ Len(ms) \in Nat
  BY DEF TypeOK
<1>2. /\ inbox' = inbox \o ms /\ UNCHANGED <<stripe, sess, row, tasks>>
  BY DEF Post, memory, disk
<1>3. /\ Len(inbox') = Len(inbox) + Len(ms)
      /\ \A i \in 1 .. Len(inbox') :
           inbox'[i] = IF i <= Len(inbox) THEN inbox[i] ELSE ms[i - Len(inbox)]
  BY <1>1, <1>2
<1>4. ASSUME NEW i \in 1 .. Len(inbox')
      PROVE  \/ i \in 1 .. Len(inbox) /\ inbox'[i] = inbox[i]
             \/ \E k \in 1 .. Len(ms) : i = Len(inbox) + k /\ inbox'[i] = ms[k]
  <2>1. CASE i <= Len(inbox)
    BY <1>1, <1>3, <2>1
  <2>2. CASE ~(i <= Len(inbox))
    <3>1. i - Len(inbox) \in 1 .. Len(ms)
      BY <1>1, <1>3, <2>2
    <3>2. i = Len(inbox) + (i - Len(inbox)) /\ inbox'[i] = ms[i - Len(inbox)]
      BY <1>1, <1>3, <2>2
    <3>3. QED
      BY <3>1, <3>2
  <2>3. QED
    BY <2>1, <2>2
<1>5. LastWord /\ Ended /\ Consent
  BY DEF Settling
<1>6. ASSUME NEW i \in 1 .. Len(inbox')
      PROVE  /\ inbox'[i].kind = "exitOut" => Gone'
             /\ Money(inbox'[i]) => Over' /\ \A j \in i + 1 .. Len(inbox') : inbox'[j].kind = "exitOut"
  <2>1. CASE i \in 1 .. Len(inbox) /\ inbox'[i] = inbox[i]
    <3>1. /\ inbox[i].kind = "exitOut" => Gone
          /\ Money(inbox[i]) => Over /\ \A j \in i + 1 .. Len(inbox) : inbox[j].kind = "exitOut"
      BY <1>5, <2>1 DEF LastWord
    <3>2. ASSUME Money(inbox[i]), NEW j \in i + 1 .. Len(inbox')
          PROVE  inbox'[j].kind = "exitOut"
      <4>1. j \in 1 .. Len(inbox') /\ (j \in 1 .. Len(inbox) => j \in i + 1 .. Len(inbox))
        BY <1>1, <1>3, <1>6, <3>2
      <4>2. QED
        BY <1>4, <3>1, <3>2, <4>1
    <3>3. QED
      BY <2>1, <3>1, <3>2
  <2>2. ASSUME NEW k \in 1 .. Len(ms), i = Len(inbox) + k, inbox'[i] = ms[k]
        PROVE  /\ inbox'[i].kind = "exitOut" => Gone'
               /\ Money(inbox'[i]) => Over' /\ \A j \in i + 1 .. Len(inbox') : inbox'[j].kind = "exitOut"
    <3>1. k = Len(ms) => i + 1 .. Len(inbox') = {}
      BY <1>1, <1>3, <2>2
    <3>2. QED
      BY <2>2, <3>1
  <2>3. QED
    BY <1>4, <2>1, <2>2
<1>7. LastWord'
  BY <1>6 DEF LastWord, Money
<1>8. Ended'
  <2>1. Over /\ AllOut(inbox) => AllOut(inbox')
    BY <1>4 DEF AllOut
  <2>2. QED
    BY <1>2, <1>5, <2>1 DEF Ended, Paying, Releasing
<1>9. Consent'
  BY <1>2, <1>5 DEF Consent, Releasing, Known
<1>10. QED
  BY <1>7, <1>8, <1>9 DEF Settling

LEMMA CarSettled ==
  ASSUME TypeOK, FirstVisit, Car
  PROVE  FirstVisit'
<1> SUFFICES ASSUME visits' <= 1 PROVE Settling'
  BY DEF FirstVisit
<1> visits \in Nat /\ "away" \notin Exits /\ at \in {"away", "road", "bay"} \cup Exits
  BY NoWords DEF TypeOK
<1> USE DEF Event
<1>1. visits <= 1
  <2>1. ASSUME NEW ms, Arrive(ms)
        PROVE  visits' = visits + 1
    BY <2>1 DEF Arrive
  <2>2. ASSUME NEW x, ReachExit(x)
        PROVE  visits' = visits
    BY <2>2 DEF ReachExit
  <2>3. Park \/ DriveOff \/ Pay \/ PayWrong => visits' = visits
    BY DEF Park, DriveOff, Pay, PayWrong, simulator
  <2>4. visits' = visits \/ visits' = visits + 1
    BY <2>1, <2>2, <2>3 DEF Car
  <2>5. QED
    BY <2>4
<1>2. Settling /\ Placed
  BY <1>1 DEF FirstVisit, Settling
<1>3. "road" \notin Exits /\ "bay" \notin Exits
  <2>1. Exits \cap Words = {}
    BY BillingAssumption
  <2>2. "road" \in Words /\ "bay" \in Words
    BY DEF Words
  <2>3. QED
    BY <2>1, <2>2
<1>4. ASSUME NEW ms \in {<<>>, <<Event("entry", "none")>>}, Arrive(ms)
      PROVE  Settling'
  <2>1. Post(ms) /\ ~Gone /\ due = "none" /\ due' = due /\ visits' > 0
    BY <1>2, <1>4 DEF Arrive, Gone, Placed
  <2>2. Placed' /\ ~Over
    BY <2>1 DEF Placed, Over
  <2>3. ms \in Seq(Webhook) /\ \A k \in 1 .. Len(ms) : ms[k].kind = "entry"
    <3>1. CASE ms = <<>>
      BY <3>1
    <3>2. CASE ms = <<Event("entry", "none")>>
      BY <3>2 DEF Webhook
    <3>3. QED
      BY <1>4, <3>1, <3>2
  <2>4. QED
    BY <1>2, <2>1, <2>2, <2>3, PostedSettled DEF Money
<1>5. CASE Park
  <2> DEFINE ms == <<Event("park", "none")>>
  <2>1. Post(ms) /\ ~Gone /\ due = "none" /\ due' = due /\ visits > 0 /\ visits' = visits
    BY <1>2, <1>3, <1>5 DEF Park, Gone, Placed
  <2>2. Placed' /\ ~Over
    BY <2>1 DEF Placed, Over
  <2>3. ms \in Seq(Webhook) /\ \A k \in 1 .. Len(ms) : ms[k].kind = "park"
    BY DEF Webhook
  <2> HIDE DEF ms
  <2>4. QED
    BY <1>2, <2>1, <2>2, <2>3, PostedSettled DEF Money
<1>6. ASSUME NEW x \in Exits, ReachExit(x)
      PROVE  Settling'
  <2> DEFINE ms == IF at = "bay" THEN <<Event("left", "none"), Event("exitIn", x)>>
                                 ELSE <<Event("exitIn", x)>>
  <2>1. Post(ms) /\ at # "away" /\ (at \in Exits => due = "none") /\ at' = x /\ UNCHANGED <<due, visits>>
    BY <1>6 DEF ReachExit
  <2>2. Placed' /\ ~Over /\ ~Gone
    BY <1>2, <2>1 DEF Placed, Over, Gone
  <2>3. ms \in Seq(Webhook) /\ \A k \in 1 .. Len(ms) : ms[k].kind \in {"left", "exitIn"}
    <3>1. Event("left", "none") \in Webhook /\ Event("exitIn", x) \in Webhook
      BY DEF Webhook
    <3>2. QED
      BY <3>1
  <2> HIDE DEF ms
  <2>4. QED
    BY <1>2, <2>1, <2>2, <2>3, PostedSettled DEF Money
<1>7. CASE DriveOff
  <2> DEFINE ms == <<Event("exitOut", at)>>
  <2>1. Post(ms) /\ at \in Exits /\ at' = "away" /\ due' = "none" /\ visits' = visits
    BY <1>7 DEF DriveOff
  <2>2. Placed' /\ Gone' /\ Over' /\ ~Gone
    BY <1>2, <2>1 DEF Placed, Over, Gone
  <2>3. ms \in Seq(Webhook) /\ \A k \in 1 .. Len(ms) : ms[k].kind = "exitOut"
    BY <2>1 DEF Webhook
  <2> HIDE DEF ms
  <2>4. QED
    BY <1>2, <2>1, <2>2, <2>3, PostedSettled DEF Money
<1>8. CASE Pay
  <2> DEFINE ms == <<Event("paid", due)>>
  <2>1. /\ Post(ms) /\ at \in Exits /\ due \in Amounts /\ due' = "paid"
        /\ UNCHANGED <<at, visits>>
    BY <1>8 DEF Pay
  <2>2. Placed' /\ Over' /\ ~Over /\ ~Gone
    BY <1>2, <2>1 DEF Placed, Over, Gone, Amounts
  <2>3. ms \in Seq(Webhook) /\ \A k \in 1 .. Len(ms) : k = Len(ms) /\ ms[k].kind = "paid"
    BY <2>1 DEF Webhook
  <2> HIDE DEF ms
  <2>4. QED
    BY <1>2, <2>1, <2>2, <2>3, PostedSettled
<1>9. CASE PayWrong
  <2> DEFINE ms == <<Event("paid", "wrong")>>
  <2>1. /\ Post(ms) /\ at \in Exits /\ due \in Amounts
        /\ UNCHANGED <<at, due, visits>>
    BY <1>9 DEF PayWrong, simulator
  <2>2. Placed' /\ ~Over /\ ~Gone
    BY <1>2, <2>1 DEF Placed, Over, Gone, Amounts
  <2>3. ms \in Seq(Webhook) /\ Len(ms) = 1 /\ ms[1].kind = "paid" /\ ~Money(ms[1])
    BY DEF Webhook, Money, Amounts
  <2> HIDE DEF ms
  <2>4. QED
    BY <1>2, <2>1, <2>2, <2>3, PostedSettled
<1>10. QED
  BY <1>4, <1>5, <1>6, <1>7, <1>8, <1>9 DEF Car

-----------------------------------------------------------------------------
(* The handlers.                                                           *)

LEMMA HeadTaken ==
  ASSUME TypeOK, NEW kind, NEW what, Handle(kind, what)
  PROVE  /\ Shorter /\ inbox' = Tail(inbox) /\ stripe = "free"
         /\ 1 \in 1 .. Len(inbox) /\ inbox[1] = Event(kind, what)
<1>1. inbox \in Seq(Webhook) /\ inbox # <<>> /\ Head(inbox) = Event(kind, what)
  BY DEF TypeOK, Handle
<1>2. QED
  BY <1>1 DEF Handle, Shorter

\* Once the car has paid only its departure is handled.
LEMMA OnlyOut ==
  ASSUME TypeOK, Ended, Paying, NEW kind, NEW what, Handle(kind, what)
  PROVE  kind = "exitOut"
<1>1. 1 \in 1 .. Len(inbox) /\ inbox[1] = Event(kind, what)
  BY HeadTaken
<1>2. inbox[1].kind = "exitOut"
  BY <1>1 DEF Ended, AllOut
<1>3. QED
  BY <1>1, <1>2 DEF Event

\* The session in memory or a new one, with no payment it had not.
LEMMA DealMeant ==
  ASSUME TypeOK, NEW id, NEW kind, NEW s, Save(s),
         LET p == IF Known THEN sess ELSE Fresh(id, kind) IN SameDeal(s, p)
  PROVE  Deal
<1>1. CASE Known
  BY <1>1, DealSaved
<1>2. CASE ~Known
  BY <1>2, DealBegun DEF SameDeal, Fresh, Agreed
<1>3. QED
  BY <1>1, <1>2

LEMMA AcceptSettled ==
  ASSUME TypeOK, Settling, NEW a \in Amounts \cup {"wrong"},
         Handle("paid", a), AcceptPayment(a), UNCHANGED simulator
  PROVE  Settling'
<1>1. sess \in Session /\ Placed /\ LastWord /\ Ended /\ Consent
  BY DEF TypeOK, Settling
<1>2. /\ Shorter /\ inbox' = Tail(inbox) /\ stripe = "free"
      /\ 1 \in 1 .. Len(inbox) /\ inbox[1] = Event("paid", a)
  BY HeadTaken
<1>3. UNCHANGED <<at, due, visits>>
  BY DEF simulator
<1>4. a \in Amounts
  BY <1>1 DEF AcceptPayment, Valid, Session, Amounts
<1>5. Over /\ \A j \in 1 + 1 .. Len(inbox) : inbox[j].kind = "exitOut"
  BY <1>1, <1>2, <1>4 DEF LastWord, Money, Event
<1>6. AllOut(inbox')
  <2>1. inbox \in Seq(Webhook) /\ inbox # <<>>
    BY DEF TypeOK, Handle
  <2>2. /\ Len(inbox) \in Nat /\ Len(inbox') = Len(inbox) - 1
        /\ \A i \in 1 .. Len(inbox') : inbox'[i] = inbox[i + 1]
    BY <1>2, <2>1
  <2>3. ASSUME NEW i \in 1 .. Len(inbox')
        PROVE  i + 1 \in 1 + 1 .. Len(inbox) /\ inbox'[i] = inbox[i + 1]
    BY <2>2, <2>3
  <2>4. QED
    BY <1>5, <2>3 DEF AllOut
<1>7. (Gone' <=> Gone) /\ Over'
  BY <1>3, <1>5 DEF Gone, Over
<1>8. stripe' \notin Exits
  BY <1>2, NoWords DEF AcceptPayment
<1>9. Placed' /\ LastWord' /\ Ended'
  BY <1>1, <1>2, <1>3, <1>6, <1>7, <1>8, ShorterInbox DEF Placed, Ended
<1>10. Consent'
  <2>1. sess' = Paid(sess) /\ row'.saved = sess'
    BY Saved DEF AcceptPayment
  <2>2. Agreed(sess) => Agreed(sess')
    BY <1>1, <2>1 DEF Agreed, Paid, Session
  <2>3. Releasing' => Releasing \/ Agreed(sess')
    BY DEF AcceptPayment, Releasable, Releasing, Agreed
  <2>4. QED
    BY <1>1, <1>7, <2>1, <2>2, <2>3 DEF Consent
<1>11. QED
  BY <1>9, <1>10 DEF Settling

LEMMA HandlerSettled ==
  ASSUME TypeOK, FirstVisit, Handler
  PROVE  FirstVisit'
<1> SUFFICES ASSUME visits <= 1 PROVE FirstVisit'
  <2>1. ASSUME NEW x, ExitIn(x) \/ ExitOut(x) PROVE visits' = visits
    BY <2>1 DEF ExitIn, ExitOut, simulator
  <2>2. ASSUME NEW a, Payment(a) PROVE visits' = visits
    BY <2>2 DEF Payment, simulator
  <2>3. EntryIn \/ ParkIn \/ ParkOut \/ GhostHeld => visits' = visits
    BY DEF EntryIn, ParkIn, ParkOut, GhostHeld, simulator
  <2>4. visits' = visits
    BY <2>1, <2>2, <2>3 DEF Handler
  <2>5. QED
    BY <2>4 DEF FirstVisit
<1>1. sess \in Session /\ Ended /\ Consent
  BY DEF TypeOK, FirstVisit, Settling
<1>2. CASE EntryIn
  <2>1. /\ Handle("entry", "none") /\ UNCHANGED <<simulator, stripe, tasks>>
    BY <1>2 DEF EntryIn
  <2>2. Calm
    BY <2>1, HeadTaken DEF Calm, Releasing, simulator
  <2>3. Deal
    <3>1. CASE Save([sess EXCEPT !.entry = "gate"])
      BY <1>1, <3>1, SameDealUpdates, DealSaved
    <3>2. CASE Save(Fresh(NewId, "gate"))
      BY <3>2, DealBegun DEF Fresh, Agreed
    <3>3. QED
      BY <1>2, <3>1, <3>2 DEF EntryIn
  <2>4. QED
    BY <2>2, <2>3, KeepSettled
<1>3. CASE ParkIn
  <2>1. /\ Handle("park", "none") /\ UNCHANGED <<simulator, stripe, tasks>>
    BY <1>3 DEF ParkIn
  <2>2. Calm
    BY <2>1, HeadTaken DEF Calm, Releasing, simulator
  <2>3. Deal
    <3>1. CASE Save([sess EXCEPT !.stay = IF @ = "driving" THEN "parked" ELSE @])
      BY <1>1, <3>1, SameDealUpdates, DealSaved
    <3>2. CASE Save([Fresh(NewId, "adopted") EXCEPT !.stay = "parked"])
      BY <3>2, DealBegun DEF Fresh, Agreed
    <3>3. QED
      BY <1>3, <3>1, <3>2 DEF ParkIn
  <2>4. QED
    BY <2>2, <2>3, KeepSettled
<1>4. CASE ParkOut
  <2>1. /\ Handle("left", "none") /\ UNCHANGED <<simulator, stripe, tasks>>
    BY <1>4 DEF ParkOut
  <2>2. Calm
    BY <2>1, HeadTaken DEF Calm, Releasing, simulator
  <2>3. Deal
    BY <1>1, <1>4, SameDealUpdates, DealSaved, DealDropped DEF ParkOut
  <2>4. QED
    BY <2>2, <2>3, KeepSettled
<1>5. CASE GhostHeld
  <2> DEFINE s == IF Known THEN sess ELSE Fresh(NewId, "ghost")
             x == [AtItsExit(s, stripe) EXCEPT !.ghost = TRUE,
                       !.expected = IF s.attempted THEN @ ELSE "estimate"]
  <2>1. /\ Save(x) /\ Spawn("ghost", s.sid) /\ stripe \in Exits /\ stripe' = "free"
        /\ UNCHANGED <<simulator, inbox>> /\ IF Known THEN UNCHANGED made ELSE Create
    BY <1>5 DEF GhostHeld
  <2>2. ~Paying /\ stripe' \notin Exits
    BY <1>1, <2>1, NoWords DEF Ended
  <2>3. Calm
    BY <2>1, <2>2 DEF Calm, Shorter, Releasing, Spawn, simulator
  <2>4. s \in Session
    BY <2>1, MeantType
  <2>5. s.paid => sess.paid
    BY DEF Fresh
  <2> HIDE DEF s
  <2>6. x.paid = s.paid
    BY <2>4 DEF AtItsExit, Session
  <2> HIDE DEF x
  <2>7. Deal
    BY <2>1, <2>2, <2>5, <2>6, Saved DEF Deal, Paying
  <2>8. QED
    BY <2>3, <2>7, KeepSettled
<1>6. ASSUME NEW x \in Exits, ExitIn(x)
      PROVE  FirstVisit'
  <2>1. Handle("exitIn", x) /\ UNCHANGED simulator /\ ~Paying
    BY <1>1, <1>6, OnlyOut DEF ExitIn
  <2>2. stripe' \in Exits => ~Paying
    BY <2>1
  <2>3. /\ Releasing' => Releasing
        /\ Save(AtItsExit(sess, x)) \/ UNCHANGED <<sess, row>>
    BY <1>6 DEF ExitIn, DeclinedAtExit, GhostAtExit, AtExit, UnpaidElsewhere, PassingExit, Ignore,
                Spawn, Releasing, memory, disk
  <2>4. Calm
    BY <2>1, <2>2, <2>3, HeadTaken DEF Calm, simulator
  <2>5. Deal
    BY <1>1, <2>3, SameDealUpdates, DealSaved, DealDropped
  <2>6. QED
    BY <2>4, <2>5, KeepSettled
<1>7. ASSUME NEW x \in Exits, ExitOut(x)
      PROVE  FirstVisit'
  <2>1. Handle("exitOut", x) /\ UNCHANGED simulator /\ UNCHANGED <<stripe, tasks>>
    BY <1>7 DEF ExitOut, Ignore, Archive
  <2>2. Calm
    BY <2>1, HeadTaken DEF Calm, Releasing, simulator
  <2>3. Deal
    BY <1>1, <1>7, DealDropped DEF ExitOut, Ignore, Archive, memory, disk
  <2>4. QED
    BY <2>2, <2>3, KeepSettled
<1>8. ASSUME NEW a \in Amounts \cup {"wrong"}, Payment(a)
      PROVE  FirstVisit'
  <2>1. Handle("paid", a) /\ UNCHANGED simulator
    BY <1>8 DEF Payment
  <2>2. CASE AcceptPayment(a)
    BY <2>1, <2>2, AcceptSettled DEF FirstVisit
  <2>3. CASE SuspectPayment(a) \/ IgnorePayment(a)
    <3>1. /\ (Releasing' => Releasing) /\ UNCHANGED stripe
          /\ \/ Save([sess EXCEPT !.retries = @ + 1]) \/ Save(sess)
             \/ UNCHANGED <<sess, row>>
      BY <2>3 DEF SuspectPayment, IgnorePayment, Releasing
    <3>2. Calm
      BY <2>1, <3>1, HeadTaken DEF Calm, simulator
    <3>3. Deal
      BY <1>1, <3>1, SameDealUpdates, DealSaved, DealDropped
    <3>4. QED
      BY <3>2, <3>3, KeepSettled
  <2>4. QED
    BY <1>8, <2>2, <2>3 DEF Payment
<1>9. QED
  BY <1>2, <1>3, <1>4, <1>5, <1>6, <1>7, <1>8 DEF Handler

-----------------------------------------------------------------------------
(* Sleepers, staff, the storage.                                           *)

LEMMA SendCalm ==
  ASSUME NEW id, NEW amount, Send(id, amount)
  PROVE  /\ UNCHANGED <<at, visits>>
         /\ due = "paid" => due' = "paid"
         /\ due' # "none" => due # "none" \/ at \in Exits
BY DEF Send

LEMMA CoroutineSettled ==
  ASSUME TypeOK, FirstVisit, visits <= 1, NEW t \in tasks, Coroutine(t)
  PROVE  FirstVisit'
<1>1. sess \in Session /\ row \in Row /\ Consent
  BY DEF TypeOK, FirstVisit, Settling
<1>2. CASE Invoice(t)
  <2> DEFINE x == [sess EXCEPT !.expected = AmountOf(t)]
  <2>1. /\ Save(Charged(x)) /\ Send(t.sid, AmountOf(t))
        /\ tasks' \subseteq tasks /\ UNCHANGED <<inbox, stripe>>
    BY <1>2 DEF Invoice, Wake
  <2>2. Calm
    BY <2>1, SendCalm DEF Calm, Shorter, Releasing
  <2>3. x \in Session /\ SameDeal(x, sess)
    BY <1>1, AmountType, SameDealUpdates
  <2> HIDE DEF x
  <2>4. SameDeal(Charged(x), sess)
    BY <2>3, SameDealUpdates DEF SameDeal
  <2>5. QED
    BY <2>1, <2>2, <2>4, DealSaved, KeepSettled
<1>3. CASE ClaimRefused(t)
  <2>1. /\ UNCHANGED <<simulator, inbox, stripe>> /\ tasks' \subseteq tasks
        /\ sess' = [sess EXCEPT !.expected = AmountOf(t), !.attempted = TRUE]
        /\ row' = RowAtClaim(t)
    BY <1>3 DEF ClaimRefused, Wake
  <2>2. Calm
    BY <2>1 DEF Calm, Shorter, Releasing, simulator
  <2>3. SameDeal(sess', sess) /\ sess'.sid = sess.sid
    BY <1>1, <2>1 DEF SameDeal, Session
  <2>4. row' = row \/ SameDeal(row'.saved, sess)
    BY <1>1, <2>1 DEF RowAtClaim, Upserted, SameDeal, Session
  <2>5. Deal
    BY <1>1, <2>3, <2>4 DEF Deal, Paying, Agreed, SameDeal, Consent, Known
  <2>6. QED
    BY <2>2, <2>5, KeepSettled
<1>4. CASE NothingToInvoice(t)
  <2>1. /\ UNCHANGED <<simulator, inbox, stripe, sess, row>> /\ tasks' \subseteq tasks
    BY <1>4 DEF NothingToInvoice, Wake
  <2>2. Calm
    BY <2>1 DEF Calm, Shorter, Releasing, simulator
  <2>3. QED
    BY <1>1, <2>1, <2>2, DealDropped, KeepSettled
<1>5. CASE AskAgain(t)
  <2>1. /\ UNCHANGED <<inbox, stripe, sess, row>> /\ tasks' \subseteq tasks
        /\ Send(t.sid, sess.expected) \/ UNCHANGED simulator
    BY <1>5 DEF AskAgain, Wake
  <2>2. Calm
    BY <2>1, SendCalm DEF Calm, Shorter, Releasing, simulator
  <2>3. QED
    BY <1>1, <2>1, <2>2, DealDropped, KeepSettled
<1>6. ASSUME NEW sent \in BOOLEAN, LetOut(t, sent)
      PROVE  FirstVisit'
  <2>1. /\ UNCHANGED <<at, due, visits, inbox>> /\ tasks' \subseteq tasks
        /\ stripe' \in Exits => stripe \in Exits
        /\ \/ Save([sess EXCEPT !.released = TRUE]) \/ Save(sess)
           \/ UNCHANGED <<sess, row>>
    BY <1>6, NoWords DEF LetOut
  <2>2. Calm
    BY <2>1 DEF Calm, Shorter, Releasing
  <2>3. Deal
    BY <1>1, <2>1, SameDealUpdates, DealSaved, DealDropped
  <2>4. QED
    BY <2>2, <2>3, KeepSettled
<1>7. QED
  BY <1>2, <1>3, <1>4, <1>5, <1>6 DEF Coroutine

\* A gate that became usable starts a release only for a session that has paid and is
\* agreed to.
LEMMA ResumeReleases ==
  ASSUME NEW s, Resume(s)
  PROVE  Releasing' => Releasing \/ (s.paid /\ Agreed(s) /\ s.sid # 0)
BY DEF Resume, Releasing, Releasable, Spawn, Agreed

LEMMA UnstripedSettled ==
  ASSUME TypeOK, FirstVisit, visits <= 1, Unstriped
  PROVE  FirstVisit'
<1>1. sess \in Session /\ row \in Row /\ row.saved \in Session /\ Consent
  BY DEF TypeOK, Row, FirstVisit, Settling
<1>2. CASE Tamper
  <2>1. /\ UNCHANGED <<simulator, inbox, stripe>> /\ (Releasing' => Releasing)
        /\ Save([sess EXCEPT !.retries = @ + 1])
    BY <1>2 DEF Tamper, Spawn, Releasing
  <2>2. Calm
    BY <2>1 DEF Calm, Shorter, simulator
  <2>3. QED
    BY <1>1, <2>1, <2>2, SameDealUpdates, DealSaved, KeepSettled
<1>3. CASE Correct
  <2> DEFINE z == [sess EXCEPT !.corrected = TRUE, !.expected = "corrected"]
  <2>1. Save(z) /\ Send(sess.sid, "corrected") /\ UNCHANGED <<inbox, stripe, tasks>>
    BY <1>3 DEF Correct
  <2>2. Calm
    BY <2>1, SendCalm DEF Calm, Shorter, Releasing
  <2>3. SameDeal(z, sess)
    BY <1>1 DEF SameDeal, Session
  <2> HIDE DEF z
  <2>4. QED
    BY <2>1, <2>2, <2>3, DealSaved, KeepSettled
<1>4. CASE StaffAsk
  <2>1. /\ Save([sess EXCEPT !.retries = @ + 1]) /\ Send(sess.sid, sess.expected)
        /\ UNCHANGED <<inbox, stripe, tasks>>
    BY <1>4 DEF StaffAsk
  <2>2. Calm
    BY <2>1, SendCalm DEF Calm, Shorter, Releasing
  <2>3. QED
    BY <1>1, <2>1, <2>2, SameDealUpdates, DealSaved, KeepSettled
<1>5. CASE StaffOverride
  <2> DEFINE s == IF Known THEN sess ELSE Fresh(NewId, "override")
             billed == [AtItsExit(s, ghost) EXCEPT !.expected = "estimate"]
  <2>1. /\ IF Known THEN UNCHANGED made ELSE Create
        /\ UNCHANGED <<inbox, stripe, tasks>>
        /\ \/ Save(billed) /\ UNCHANGED simulator
           \/ Save(Charged(billed)) /\ Send(s.sid, "estimate")
    BY <1>5 DEF StaffOverride
  <2>2. Calm
    BY <2>1, SendCalm DEF Calm, Shorter, Releasing, simulator
  <2>3. s \in Session
    BY <2>1, MeantType
  <2>4. SameDeal(billed, s) /\ SameDeal(Charged(billed), s)
    <3> HIDE DEF s
    <3>1. QED
      BY <2>3 DEF SameDeal, AtItsExit, Charged, Session
  <2> HIDE DEF billed
  <2>5. Deal
    BY <2>1, <2>4, DealMeant
  <2>6. QED
    BY <2>2, <2>5, KeepSettled
<1>6. CASE StaffRelease
  <2> DEFINE s == IF Known THEN sess
                  ELSE [AtItsExit(Fresh(NewId, "ghost"), ghost) EXCEPT !.ghost = TRUE]
             z == [s EXCEPT !.authorized = TRUE]
  <2>1. /\ Save(z) /\ UNCHANGED <<simulator, inbox, stripe>> /\ (Releasing' => Releasing)
    BY <1>6 DEF StaffRelease, Spawn, Releasing
  <2>2. Calm
    BY <2>1 DEF Calm, Shorter, simulator
  <2>3. (z.paid => sess.paid) /\ Agreed(z)
    <3>1. CASE Known
      BY <1>1, <3>1 DEF Agreed, Session
    <3>2. CASE ~Known
      BY <3>2 DEF Agreed, AtItsExit, Fresh
    <3>3. QED
      BY <3>1, <3>2
  <2> HIDE DEF z
  <2>4. QED
    BY <2>1, <2>2, <2>3, DealBegun, KeepSettled
<1>7. CASE Reap
  <2>1. /\ UNCHANGED <<simulator, inbox, stripe, tasks, row>> /\ sess' = Nobody
    BY <1>7 DEF Reap, Archive
  <2>2. Calm
    BY <2>1 DEF Calm, Shorter, Releasing, simulator
  <2>3. QED
    BY <1>1, <2>1, <2>2, DealDropped, KeepSettled
<1>8. CASE NoPark
  <2>1. /\ UNCHANGED <<simulator, inbox, stripe, tasks>> /\ Save([sess EXCEPT !.declined = TRUE])
    BY <1>8 DEF NoPark
  <2>2. Calm
    BY <2>1 DEF Calm, Shorter, Releasing, simulator
  <2>3. QED
    BY <1>1, <2>1, <2>2, SameDealUpdates, DealSaved, KeepSettled
<1>9. CASE EnsureOpen
  <2>1. Resume(sess) /\ UNCHANGED <<simulator, inbox, stripe, sess, row>>
    BY <1>9 DEF EnsureOpen, memory, disk
  <2>2. Calm
    BY <2>1, ResumeReleases DEF Calm, Shorter, Known, simulator
  <2>3. QED
    BY <1>1, <2>1, <2>2, DealDropped, KeepSettled
<1>10. CASE Sync
  <2>1. /\ Known /\ Resume(sess) /\ UNCHANGED <<simulator, inbox, stripe>>
        /\ UNCHANGED <<sess, row>> \/ Save(Left(sess))
    BY <1>10 DEF Sync
  <2>2. SameDeal(sess', sess) /\ sess'.sid = sess.sid
    BY <1>1, <2>1, Saved DEF SameDeal, Left, Session
  <2>3. Calm
    BY <2>1, <2>2, ResumeReleases DEF Calm, Shorter, SameDeal, Agreed, Known, simulator
  <2>4. Deal
    BY <1>1, <2>1, SameDealUpdates, DealSaved, DealDropped
  <2>5. QED
    BY <2>3, <2>4, KeepSettled
<1>11. CASE SyncEarly
  <2>1. /\ sess' = [row.saved EXCEPT !.attempted = row.claimed] /\ Resume(sess')
        /\ UNCHANGED <<simulator, inbox, stripe, row>>
    BY <1>11 DEF SyncEarly, Restored, disk
  <2>2. SameDeal(sess', row.saved)
    BY <1>1, <2>1, SameDealUpdates
  <2>3. Calm
    BY <2>1, ResumeReleases DEF Calm, Shorter, Known, simulator
  <2>4. Deal
    BY <2>1, <2>2 DEF Deal, SameDeal, Agreed, Paying
  <2>5. QED
    BY <2>3, <2>4, KeepSettled
<1>12. QED
  BY <1>2, <1>3, <1>4, <1>5, <1>6, <1>7, <1>8, <1>9, <1>10, <1>11 DEF Unstriped

LEMMA RestartSettled ==
  ASSUME TypeOK, FirstVisit, NEW r \in Row, Restart(r),
         r.saved.paid => Paying,
         Agreed(sess) /\ Agreed(row.saved) => Agreed(r.saved)
  PROVE  FirstVisit'
<1>1. /\ UNCHANGED simulator /\ inbox' \in {<<>>, inbox} /\ stripe' = "free" /\ tasks' = {}
      /\ row' = r /\ sess' = Restored(r)
  BY DEF Restart
<1>2. Calm
  BY <1>1, NoWords DEF Calm, Shorter, Releasing, simulator
<1>3. sess' = Nobody \/ SameDeal(sess', r.saved)
  BY <1>1, SameDealUpdates DEF Restored, Row
<1>4. ~Nobody.paid /\ Agreed(Nobody) /\ Nobody.sid = 0
  BY DEF Nobody, Fresh, Agreed
<1>5. Deal
  BY <1>1, <1>3, <1>4 DEF Deal, SameDeal, Agreed, Known
<1>6. QED
  BY <1>2, <1>5, KeepSettled

LEMMA StorageSettled ==
  ASSUME TypeOK, FirstVisit, visits <= 1, Storage
  PROVE  FirstVisit'
<1>1. sess \in Session /\ row \in Row /\ Consent
  BY DEF TypeOK, FirstVisit, Settling
<1>2. ASSUME NEW s \in deletes, Flush(s)
      PROVE  FirstVisit'
  <2>1. UNCHANGED <<simulator, inbox, stripe, sess, tasks>> /\ (row' = row \/ row' = NoRow)
    BY <1>2 DEF Flush, memory
  <2>2. Calm
    BY <2>1 DEF Calm, Shorter, Releasing, simulator
  <2>3. QED
    BY <1>1, <2>1, <2>2, DealDropped, KeepSettled
<1>3. CASE Crash
  BY <1>1, <1>3, RestartSettled DEF Crash, Paying
<1>4. ASSUME NEW t \in tasks, CrashAfterClaim(t)
      PROVE  FirstVisit'
  <2> DEFINE r == [RowAtClaim(t) EXCEPT !.claimed = TRUE]
  <2>1. Restart(r)
    BY <1>4 DEF CrashAfterClaim
  <2>2. RowAtClaim(t) \in Row
    BY AmountType
  <2>3. RowAtClaim(t) = row \/ SameDeal(RowAtClaim(t).saved, sess)
    BY <1>1 DEF RowAtClaim, Upserted, SameDeal, Session
  <2>4. r \in Row /\ r.saved = RowAtClaim(t).saved
    BY <2>2 DEF Row
  <2> HIDE DEF r
  <2>5. QED
    BY <2>1, <2>3, <2>4, RestartSettled DEF SameDeal, Paying, Agreed
<1>5. QED
  BY <1>2, <1>3, <1>4 DEF Storage

-----------------------------------------------------------------------------

LEMMA NextSettled == TypeOK /\ FirstVisit /\ [Next]_vars => FirstVisit'
<1>1. SUFFICES ASSUME TypeOK, FirstVisit, [Next]_vars
               PROVE  FirstVisit'
  OBVIOUS
<1>2. CASE UNCHANGED vars
  BY <1>1, <1>2 DEF vars, FirstVisit, Settling, Placed, LastWord, Ended, Consent, Over, Gone,
                    Agreed, Money, AllOut, Paying, Releasing, Known
<1>3. CASE Car
  BY <1>1, <1>3, CarSettled
<1>4. CASE Handler
  BY <1>1, <1>4, HandlerSettled
<1>5. CASE visits <= 1 /\ ((\E t \in tasks : Coroutine(t)) \/ Unstriped \/ Storage)
  BY <1>1, <1>5, CoroutineSettled, UnstripedSettled, StorageSettled
<1>6. CASE ~(visits <= 1) /\ ((\E t \in tasks : Coroutine(t)) \/ Unstriped \/ Storage)
  <2>1. ASSUME NEW t \in tasks, Coroutine(t) PROVE visits' = visits
    BY <2>1 DEF Coroutine, Invoice, ClaimRefused, NothingToInvoice, AskAgain, LetOut, Send, simulator
  <2>2. Unstriped => visits' = visits
    BY DEF Unstriped, Tamper, Correct, StaffAsk, StaffOverride, StaffRelease, Reap, NoPark,
           EnsureOpen, Sync, SyncEarly, Send, simulator
  <2>3. Storage => visits' = visits
    BY DEF Storage, Flush, Crash, CrashAfterClaim, Restart, simulator
  <2>4. QED
    BY <1>6, <2>1, <2>2, <2>3 DEF FirstVisit
<1>7. QED
  BY <1>1, <1>2, <1>3, <1>4, <1>5, <1>6 DEF Next

LEMMA FirstVisitSettled == Spec => [](TypeOK /\ FirstVisit)
<1>1. Init => FirstVisit
  BY InitSettling
<1>2. TypeOK /\ FirstVisit /\ [Next]_vars => FirstVisit'
  BY NextSettled
<1>3. QED
  BY <1>1, <1>2, TypeCorrect, PTL DEF Spec

\* The step that tells the car to leave, on its first visit.
LEMMA NextLeaves ==
  ASSUME TypeOK, FirstVisit, visits <= 1, [Next]_vars, ~told, told'
  PROVE  \/ due = "paid" /\ ~(sess.ghost /\ ~sess.authorized)
         \/ \E t \in tasks : t.kind = "letOut"
<1>1. Ended /\ Consent
  BY DEF FirstVisit, Settling
<1>2. PICK t \in tasks : LetOut(t, TRUE)
  <2>1. ~Car
    BY DEF Car, Arrive, Park, DriveOff, Pay, PayWrong, ReachExit, simulator
  <2>2. ~Handler
    BY DEF Handler, EntryIn, ParkIn, ParkOut, GhostHeld, ExitIn, ExitOut, Payment, simulator
  <2>3. ~Unstriped
    BY DEF Unstriped, Tamper, Correct, StaffAsk, StaffOverride, StaffRelease, Reap, NoPark,
           EnsureOpen, Sync, SyncEarly, Send, simulator
  <2>4. ~Storage
    BY DEF Storage, Flush, Crash, CrashAfterClaim, Restart, simulator
  <2>5. \A t \in tasks :
          ~(Invoice(t) \/ ClaimRefused(t) \/ NothingToInvoice(t) \/ AskAgain(t) \/ LetOut(t, FALSE))
    BY DEF Invoice, ClaimRefused, NothingToInvoice, AskAgain, LetOut, Send, simulator
  <2>6. ~UNCHANGED vars
    BY DEF vars
  <2>7. QED
    BY <2>1, <2>2, <2>3, <2>4, <2>5, <2>6 DEF Next, Coroutine
<1>3. CASE t.kind = "letOut"
  BY <1>3
<1>4. CASE t.kind = "release"
  <2>1. at \in Exits
    BY <1>2 DEF LetOut
  <2>2. ~Gone
    BY <2>1, NoWords DEF Gone
  <2>3. Releasing
    BY <1>4 DEF Releasing
  <2>4. QED
    BY <1>1, <2>2, <2>3 DEF Ended, Consent, Paying, Over, Agreed
<1>5. QED
  BY <1>2, <1>3, <1>4 DEF LetOut

\* On a plate's first visit, however many follow: the car is told to leave only when the
\* simulator has its money and, for a ghost car, staff agree, or when staff let it go.
FirstLeavesSettled ==
  [][visits <= 1 /\ ~told /\ told' =>
       \/ due = "paid" /\ ~(sess.ghost /\ ~sess.authorized)
       \/ \E t \in tasks : t.kind = "letOut"]_vars

\* No restored session, forged webhook, retry or exit event opens the way for a car on
\* its first visit that has not settled.
THEOREM FirstVisitIsSettled == Spec => FirstLeavesSettled
<1>1. TypeOK /\ FirstVisit /\ [Next]_vars =>
        [visits <= 1 /\ ~told /\ told' =>
           \/ due = "paid" /\ ~(sess.ghost /\ ~sess.authorized)
           \/ \E t \in tasks : t.kind = "letOut"]_vars
  BY NextLeaves
<1>2. QED
  BY <1>1, FirstVisitSettled, PTL DEF Spec, FirstLeavesSettled

\* Where a plate is not used again every car that is told to leave has settled.
THEOREM EveryVisitIsSettled == MaxVisits <= 1 /\ Spec => LeavesSettled
<1> SUFFICES ASSUME MaxVisits <= 1
             PROVE  Spec => LeavesSettled
  OBVIOUS
<1>1. TypeOK => visits <= 1
  <2>1. TypeOK => visits \in 0 .. MaxVisits
    BY DEF TypeOK
  <2>2. MaxVisits \in Nat
    BY BillingAssumption
  <2>3. QED
    BY <2>1, <2>2
<1>2. TypeOK /\ FirstVisit /\ [Next]_vars =>
        [~told /\ told' =>
           \/ due = "paid" /\ ~(sess.ghost /\ ~sess.authorized)
           \/ \E t \in tasks : t.kind = "letOut"]_vars
  BY <1>1, NextLeaves
<1>3. QED
  BY <1>2, FirstVisitSettled, PTL DEF Spec, LeavesSettled
=============================================================================

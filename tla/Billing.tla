------------------------------ MODULE Billing ------------------------------
(***************************************************************************)
(* How one car is invoiced, pays and is let out: the session in memory, its *)
(* row in active_sessions with the once-only charge claim, the coroutines  *)
(* that sleep before they invoice, staff, and the simulator on the other   *)
(* side.  Everything here is about one plate; the simulator uses plates    *)
(* again, so the plate may come back for another visit.                    *)
(*                                                                         *)
(* The plate's webhooks are handled one at a time, in order (NoOvertaking  *)
(* of module Ingress): they are in `inbox`, and `stripe` says what the     *)
(* handler that holds the stripe is waiting for.  Penalties, staff's       *)
(* requests, forged webhooks and the spawned coroutines take no stripe.    *)
(*                                                                         *)
(* A spawned coroutine's code up to its sleep is taken to run with its     *)
(* spawner, and AUTOPILOT is on.  Amounts are named by where they come from. *)
(***************************************************************************)
EXTENDS Naturals, Sequences, FiniteSets

CONSTANTS
  Exits,              \* names of the exit sensors
  PaymentRetryMax,    \* settings.payment_retry_max
  TamperedRetryMax,   \* settings.tampered_payment_retry_max
  Staff,              \* what staff do: subset of StaffActs
  MaxVisits,          \* bound: visits of the plate
  MaxSessions,        \* bound: sessions the plate gets
  MaxInbox,           \* bound: webhooks under way
  Limit               \* bound: how often each of the Rare events, and any, happens

StaffActs == {"ask", "override", "release"}
Rare == {"restart", "forge", "wrong", "correct", "ask", "lost", "early", "all"}

Words == {"free", "hold", "release", "none", "away", "road", "bay"}

ASSUME BillingAssumption ==
  /\ Exits \cap Words = {}
  /\ PaymentRetryMax \in Nat /\ TamperedRetryMax \in Nat
  /\ Staff \subseteq StaffActs
  /\ MaxVisits \in Nat /\ MaxSessions \in Nat /\ MaxInbox \in Nat
  /\ Limit \in [Rare -> Nat]

VARIABLES
  \* The simulator:
  at,         \* where the car is
  due,        \* what it has been asked to pay and accepts, or "paid"
  told,       \* leavepark has reached it
  visits,     \* visits so far
  \* The dispatcher:
  inbox,      \* the plate's webhooks, oldest first
  stripe,     \* the exit a ghost's handler awaits the hold of, or a word
  sess,       \* state.sessions[plate]; sid 0 when there is none
  made,       \* sessions made so far, to number them
  tasks,      \* spawned coroutines, and staff's requests that wait
  synced,     \* a sync has succeeded since the process started
  \* SQLite:
  row,        \* the plate's row in active_sessions
  deletes,    \* the ids whose DELETE is in the write buffer
  ghost,      \* the exit of the open row in ghost_car_events, or "none"
  \* Bounds, and history read by the properties only:
  used,       \* used[k]: times the rare event k has happened
  invoices,   \* invoices[s]: invoices put on the wire for session s
  claims      \* sessions a charge claim was made for

simulator == <<at, due, told, visits>>
memory == <<sess, made>>
disk == <<row, deletes>>
history == <<invoices, claims>>
vars == <<at, due, told, visits, inbox, stripe, sess, made, tasks, synced,
          row, deletes, ghost, used, invoices, claims>>

Sids == 1..MaxSessions
Amounts == {"fee", "estimate", "corrected"}

Session ==
  [sid : 0..MaxSessions,
   entry : {"gate", "adopted", "ghost", "override"},   \* VehicleSession.entry_gate
   ghost : BOOLEAN,                                    \* ghost_id is set
   stay : {"driving", "parked", "left"},               \* parked_at, left_spot_at
   declined : BOOLEAN,
   exit : Exits \cup {"none"},
   confirmed : BOOLEAN,
   attempted : BOOLEAN, charged : BOOLEAN, paid : BOOLEAN,
   expected : Amounts \cup {"none"},
   retries : Nat, corrected : BOOLEAN,
   authorized : BOOLEAN, released : BOOLEAN]

Fresh(id, kind) ==
  [sid |-> id, entry |-> kind, ghost |-> FALSE, stay |-> "driving", declined |-> FALSE,
   exit |-> "none", confirmed |-> FALSE, attempted |-> FALSE, charged |-> FALSE,
   paid |-> FALSE, expected |-> "none", retries |-> 0, corrected |-> FALSE,
   authorized |-> FALSE, released |-> FALSE]
Nobody == Fresh(0, "gate")
Known == sess.sid # 0

Row == [saved : Session, claimed : BOOLEAN]
NoRow == [saved |-> Nobody, claimed |-> FALSE]

\* n tells the retries of a session apart, and a release the stripe waits for.
Task == [kind : {"charge", "ghost", "ask", "tamper", "release", "letOut"},
         sid : Sids, n : Nat]
Webhook == [kind : {"entry", "park", "left", "exitIn", "exitOut", "paid"},
            what : Exits \cup Amounts \cup {"none", "wrong"}]

TypeOK ==
  /\ at \in {"away", "road", "bay"} \cup Exits
  /\ due \in Amounts \cup {"none", "paid"}
  /\ told \in BOOLEAN /\ visits \in 0..MaxVisits
  /\ inbox \in Seq(Webhook)
  /\ stripe \in {"free", "release"} \cup Exits
  /\ sess \in Session
  /\ made \in 0..MaxSessions
  /\ tasks \subseteq Task
  /\ synced \in BOOLEAN
  /\ row \in Row
  /\ deletes \subseteq Sids
  /\ ghost \in Exits \cup {"none"}
  /\ used \in [Rare -> Nat]
  /\ invoices \in [Sids -> Nat]
  /\ claims \subseteq Sids

Init ==
  /\ at = "away" /\ due = "none" /\ told = FALSE /\ visits = 0
  /\ inbox = <<>> /\ stripe = "free"
  /\ sess = Nobody /\ made = 0 /\ tasks = {} /\ synced = TRUE
  /\ row = NoRow /\ deletes = {} /\ ghost = "none"
  /\ used = [k \in Rare |-> 0]
  /\ invoices = [s \in Sids |-> 0] /\ claims = {}

Rarely(k) ==
  /\ used[k] < Limit[k] /\ used["all"] < Limit["all"]
  /\ used' = [used EXCEPT ![k] = @ + 1, !["all"] = @ + 1]

-----------------------------------------------------------------------------
(* The simulator (external).                                               *)

Post(ms) ==
  /\ Len(inbox) + Len(ms) <= MaxInbox
  /\ inbox' = inbox \o ms
  /\ UNCHANGED <<stripe, memory, tasks, synced, disk, ghost, history>>

Event(kind, what) == [kind |-> kind, what |-> what]

\* A visit begins: seen at an entrance, or not (a ghost, or a webhook lost
\* while the service was down).  A plate does not come back within the few
\* seconds a release takes.
Arrive(ms) ==
  /\ at = "away" /\ visits < MaxVisits
  /\ \A t \in tasks : t.kind \notin {"release", "letOut"}
  /\ at' = "road" /\ visits' = visits + 1
  /\ Post(ms)
  /\ UNCHANGED <<due, told, used>>

Park ==
  /\ at = "road" /\ at' = "bay"
  /\ Post(<<Event("park", "none")>>)
  /\ UNCHANGED <<due, told, visits, used>>

\* The car reaches an exit, from its bay, without having parked, or because
\* the sensor it was at was one it only drove past.
ReachExit(x) ==
  /\ at # "away" /\ at # x /\ ~told
  /\ at \in Exits => due = "none"
  /\ at' = x
  /\ Post(IF at = "bay" THEN <<Event("left", "none"), Event("exitIn", x)>>
                        ELSE <<Event("exitIn", x)>>)
  /\ UNCHANGED <<due, told, visits, used>>

\* It leaves when it is told to, or escapes without having paid.
DriveOff ==
  /\ at \in Exits /\ (told \/ due # "paid")
  /\ at' = "away" /\ due' = "none" /\ told' = FALSE
  /\ Post(<<Event("exitOut", at)>>)
  /\ UNCHANGED <<visits, used>>

\* It pays what it was asked, or another amount.
Pay ==
  /\ at \in Exits /\ due \in Amounts
  /\ due' = "paid"
  /\ Post(<<Event("paid", due)>>)
  /\ UNCHANGED <<at, told, visits, used>>
PayWrong ==
  /\ at \in Exits /\ due \in Amounts
  /\ Rarely("wrong")
  /\ Post(<<Event("paid", "wrong")>>)
  /\ UNCHANGED simulator

\* What an invoice does there: it is answered 201 also when it is refused
\* because the car is not waiting at an exit.
Send(s, amount) ==
  /\ invoices' = [invoices EXCEPT ![s] = @ + 1]
  /\ \/ UNCHANGED due
     \/ at \in Exits /\ due # "paid" /\ due' = amount
  /\ UNCHANGED <<at, told, visits>>

-----------------------------------------------------------------------------
(* Sessions.                                                               *)

\* db.save_active_session: one row per plate, whose claim is never lowered.
Upserted(s) == [saved |-> s, claimed |-> row.claimed \/ s.attempted]

\* _persist.
Save(s) == sess' = s /\ row' = Upserted(s)

\* _archive: the DELETE goes through the write buffer.
Archive ==
  /\ sess' = Nobody
  /\ deletes' = deletes \cup {sess.sid}

\* restore_sessions: the claim is read from its own column.
Restored(r) ==
  IF r.saved.sid = 0 THEN Nobody ELSE [r.saved EXCEPT !.attempted = r.claimed]

\* db.claim_charge of session s, with row r.
Claimable(s, r) == r.saved.sid = s.sid /\ ~r.claimed

\* Deliberately wrong variant: the number of the latest session.
LatestId == made
NewId == made + 1
Create == made < MaxSessions /\ made' = NewId

\* _valid_exit, for a car that has been inside for the minimum time.
ValidExit(s) == s.stay # "driving" \/ s.entry = "override" \/ s.ghost

\* mark_left_spot, mark_exit_requested and mark_at_exit, mark_charged.
Left(s) == [s EXCEPT !.stay = "left"]
AtItsExit(s, x) == [s EXCEPT !.confirmed = TRUE, !.exit = x]
Charged(s) == [s EXCEPT !.attempted = TRUE, !.charged = TRUE]
\* mark_paid, which says no while a session is claimed but not charged.
MarksPaid(s) == s.charged /\ ~s.paid
Paid(s) == [s EXCEPT !.paid = TRUE]

\* _spawn keeps the task referenced.  Deliberately wrong variant: it is lost.
SpawnLost(kind, id) == UNCHANGED tasks
Spawn(kind, id) == tasks' = tasks \cup {[kind |-> kind, sid |-> id, n |-> 0]}

-----------------------------------------------------------------------------
(* The handlers of the plate's webhooks.                                   *)

Handle(kind, what) ==
  /\ stripe = "free"
  /\ inbox # <<>>
  /\ Head(inbox) = Event(kind, what)
  /\ inbox' = Tail(inbox)

Ignore == UNCHANGED <<stripe, memory, tasks, disk, ghost, used>>

\* EntrySpot CarIn: _retire_previous_visit, then dispatch_entry starts and
\* saves a session (the reservation is not part of this module).
EntryIn ==
  /\ Handle("entry", "none")
  /\ LET finished == Known /\ (sess.stay # "driving" \/ sess.confirmed
                                 \/ sess.attempted \/ sess.paid)
     IN  IF Known /\ ~finished
         THEN /\ Save([sess EXCEPT !.entry = "gate"])
              /\ UNCHANGED <<made, deletes>>
         ELSE /\ Create
              /\ Save(Fresh(NewId, "gate"))
              /\ deletes' = IF finished THEN deletes \cup {sess.sid} ELSE deletes
  /\ UNCHANGED <<simulator, stripe, tasks, synced, ghost, used, history>>

\* Park CarIn: a car nobody dispatched is adopted.
ParkIn ==
  /\ Handle("park", "none")
  /\ IF Known
     THEN /\ Save([sess EXCEPT !.stay = IF @ = "driving" THEN "parked" ELSE @])
          /\ UNCHANGED made
     ELSE /\ Create
          /\ Save([Fresh(NewId, "adopted") EXCEPT !.stay = "parked"])
  /\ UNCHANGED <<simulator, stripe, tasks, synced, deletes, ghost, used, history>>

ParkOut ==
  /\ Handle("left", "none")
  /\ IF Known THEN Save(Left(sess)) ELSE UNCHANGED <<sess, row>>
  /\ UNCHANGED <<simulator, stripe, made, tasks, synced, deletes, ghost, used, history>>

\* ExitSpot CarIn, in the order of the handler's branches.
IsGhost == ~Known \/ ((sess.entry = "adopted" \/ sess.ghost) /\ ValidExit(sess))

DeclinedAtExit(x) ==
  /\ Known /\ sess.declined
  /\ Save(AtItsExit(sess, x))
  /\ UNCHANGED <<stripe, made, tasks, deletes, ghost, used>>

\* _handle_ghost_car up to the await of _hold_exit.
GhostAtExit(x) ==
  /\ ~(Known /\ sess.declined) /\ IsGhost
  /\ ghost' = IF ghost = "none" THEN x ELSE ghost
  /\ stripe' = x
  /\ UNCHANGED <<memory, tasks, disk, used>>

AtExit(x) ==
  /\ ~sess.declined /\ ~IsGhost /\ ValidExit(sess) /\ ~sess.charged
  /\ Save(AtItsExit(sess, x))
  /\ Spawn("charge", sess.sid)
  /\ UNCHANGED <<stripe, made, deletes, ghost, used>>

\* Charged and unpaid at another exit: the branch that would give the claim
\* back and invoice the car here reads settings.payment_wait_s, which does not
\* exist.  The handler raises before it has changed anything.
UnpaidElsewhere(x) ==
  /\ ~sess.declined /\ ~IsGhost /\ ValidExit(sess)
  /\ sess.charged /\ ~sess.paid /\ sess.exit # x
  /\ Ignore

\* A sensor on the way, or nothing left to invoice.
PassingExit(x) ==
  /\ Known /\ ~sess.declined /\ ~IsGhost
  /\ ~ValidExit(sess) \/ (sess.charged /\ (sess.paid \/ sess.exit = x))
  /\ Ignore

ExitIn(x) ==
  /\ Handle("exitIn", x)
  /\ DeclinedAtExit(x) \/ GhostAtExit(x) \/ AtExit(x) \/ UnpaidElsewhere(x) \/ PassingExit(x)
  /\ UNCHANGED <<simulator, synced, history>>

\* The rest of _handle_ghost_car: meanwhile the session may have been reaped.
GhostHeld ==
  /\ stripe \in Exits
  /\ LET s == IF Known THEN sess ELSE Fresh(NewId, "ghost") IN
     /\ IF Known THEN UNCHANGED made ELSE Create
     /\ Save([AtItsExit(s, stripe) EXCEPT !.ghost = TRUE,
                       !.expected = IF s.attempted THEN @ ELSE "estimate"])
     /\ Spawn("ghost", s.sid)
  /\ stripe' = "free"
  /\ UNCHANGED <<simulator, inbox, synced, deletes, ghost, used, history>>

\* ExitSpot CarOut.  A declined car's row is deleted at once.
ExitOut(x) ==
  /\ Handle("exitOut", x)
  /\ IF ~Known \/ ~sess.confirmed
     THEN Ignore
     ELSE IF sess.declined /\ sess.exit = x
     THEN /\ sess' = Nobody
          /\ row' = IF row.saved.sid = sess.sid THEN NoRow ELSE row
          /\ UNCHANGED <<stripe, made, tasks, deletes, ghost, used>>
     ELSE IF ValidExit(sess)
     THEN Archive /\ UNCHANGED <<stripe, made, tasks, row, ghost, used>>
     ELSE Ignore
  /\ UNCHANGED <<simulator, synced, history>>

\* _handle_payment_made.
Valid(amount) == Known /\ sess.attempted /\ amount = sess.expected

\* The release the handler, or a gate that became usable, may start.
\* Deliberately wrong variant: a ghost car is like any other.
ReleasableUnasked(s) ==
  /\ s.paid /\ ~s.released
  /\ \A t \in tasks : ~(t.kind = "release" /\ t.sid = s.sid)
Releasable(s) ==
  /\ s.paid /\ ~s.released
  /\ ~s.ghost \/ s.authorized
  /\ \A t \in tasks : ~(t.kind = "release" /\ t.sid = s.sid)

\* Suspect: the car is held and asked again (_ask_to_pay_again).
SuspectPayment(amount) ==
  /\ ~Valid(amount)
  /\ IF Known /\ sess.expected # "none" /\ ~sess.paid /\ sess.retries < PaymentRetryMax
     THEN /\ Save([sess EXCEPT !.retries = @ + 1])
          /\ tasks' = tasks \cup {[kind |-> "ask", sid |-> sess.sid, n |-> sess.retries]}
     ELSE /\ IF Known THEN Save(sess) ELSE UNCHANGED <<sess, row>>
          /\ UNCHANGED tasks
  /\ UNCHANGED stripe

\* state.mark_paid, and the release of a car that is not a ghost.
\* Deliberately wrong variant: the payment is not saved before the release.
AcceptPaymentUnsaved(amount) ==
  /\ Valid(amount)
  /\ sess.paid \/ MarksPaid(sess)
  /\ sess' = Paid(sess)
  /\ UNCHANGED row
  /\ IF Releasable(sess') /\ (sess.paid \/ ~sess.ghost)
     THEN /\ tasks' = tasks \cup {[kind |-> "release", sid |-> sess.sid, n |-> 1]}
          /\ stripe' = "release"
     ELSE UNCHANGED <<tasks, stripe>>
AcceptPayment(amount) ==
  /\ Valid(amount)
  /\ sess.paid \/ MarksPaid(sess)
  /\ Save(Paid(sess))
  /\ IF Releasable(sess') /\ (sess.paid \/ ~sess.ghost)
     THEN /\ tasks' = tasks \cup {[kind |-> "release", sid |-> sess.sid, n |-> 1]}
          /\ stripe' = "release"
     ELSE UNCHANGED <<tasks, stripe>>

\* mark_paid says no: the session was claimed, but not charged.
IgnorePayment(amount) ==
  /\ Valid(amount)
  /\ ~sess.paid /\ ~MarksPaid(sess)
  /\ UNCHANGED <<sess, row, tasks, stripe>>

Payment(amount) ==
  /\ Handle("paid", amount)
  /\ SuspectPayment(amount) \/ AcceptPayment(amount) \/ IgnorePayment(amount)
  /\ UNCHANGED <<simulator, made, synced, deletes, ghost, used, history>>

-----------------------------------------------------------------------------
(* The coroutines that slept.                                              *)

Wake(t) ==
  /\ t \in tasks
  /\ tasks' = tasks \ {t}
  /\ UNCHANGED <<inbox, made, synced, deletes, ghost>>

\* _charge_at_exit computes the amount, _invoice_ghost takes the estimate.
AmountOf(t) == IF t.kind = "charge" THEN "fee" ELSE sess.expected

\* _charge_at_exit saves the session, with its amount, before the claim.
RowAtClaim(t) ==
  IF t.kind = "charge" THEN Upserted([sess EXCEPT !.expected = AmountOf(t)]) ELSE row

\* The session is still the one that was to be invoiced.  Deliberately wrong
\* variant: the session is not looked at again.
StillUnbilledUnchecked(t) == Known
StillUnbilled(t) == sess.sid = t.sid /\ ~sess.paid /\ ~sess.attempted

\* _charge_at_exit and _invoice_ghost after the sleep: db.claim_charge, the
\* session saved, the invoice.  Deliberately wrong variants: the charge is not
\* claimed; nothing is written before the invoice is sent.
InvoiceUnclaimed(t) ==
  /\ t.kind \in {"charge", "ghost"} /\ Wake(t)
  /\ StillUnbilled(t) /\ Claimable(sess, RowAtClaim(t))
  /\ Save([sess EXCEPT !.expected = AmountOf(t)])
  /\ Send(t.sid, AmountOf(t))
  /\ UNCHANGED <<stripe, used, claims>>
Invoice(t) ==
  /\ t.kind \in {"charge", "ghost"} /\ Wake(t)
  /\ StillUnbilled(t) /\ Claimable(sess, RowAtClaim(t))
  /\ Save(Charged([sess EXCEPT !.expected = AmountOf(t)]))
  /\ claims' = claims \cup {sess.sid}
  /\ Send(t.sid, AmountOf(t))
  /\ UNCHANGED <<stripe, used>>

\* The row says the charge was claimed already.
ClaimRefused(t) ==
  /\ t.kind \in {"charge", "ghost"} /\ Wake(t)
  /\ StillUnbilled(t) /\ ~Claimable(sess, RowAtClaim(t))
  /\ sess' = [sess EXCEPT !.expected = AmountOf(t), !.attempted = TRUE]
  /\ row' = RowAtClaim(t)
  /\ UNCHANGED <<simulator, stripe, used, history>>

NothingToInvoice(t) ==
  /\ t.kind \in {"charge", "ghost"} /\ Wake(t)
  /\ ~StillUnbilled(t)
  /\ UNCHANGED <<simulator, stripe, sess, row, used, history>>

\* _ask_to_pay_again and _recover_tampered_payment after their sleep.
\* Deliberately wrong variant: whether it settled meanwhile is not looked at.
StillOwesUnchecked(t) == Known
StillOwes(t) == sess.sid = t.sid /\ ~sess.paid

AskAgain(t) ==
  /\ t.kind \in {"ask", "tamper"} /\ Wake(t)
  /\ IF StillOwes(t) THEN Send(t.sid, sess.expected)
                     ELSE UNCHANGED <<simulator, invoices>>
  /\ UNCHANGED <<stripe, sess, row, used, claims>>

\* _send_paid_release has waited for the gate: leavepark, then the session is
\* saved.  A gate that stays shut or a failed command leaves it unreleased.
\* Staff's release then resolves the ghost event, whatever came of it.
LetOut(t, sent) ==
  /\ t.kind \in {"release", "letOut"} /\ t \in tasks
  /\ tasks' = tasks \ {t}
  /\ stripe' = IF t.n = 1 THEN "free" ELSE stripe
  /\ IF sent
     THEN /\ told' = (told \/ at \in Exits)
          /\ IF sess.sid = t.sid THEN Save([sess EXCEPT !.released = TRUE])
             ELSE IF Known THEN Save(sess) ELSE UNCHANGED <<sess, row>>
     ELSE Rarely("lost") /\ UNCHANGED <<told, sess, row>>
  /\ sent => UNCHANGED used
  /\ ghost' = IF t.kind = "letOut" THEN "none" ELSE ghost
  /\ UNCHANGED <<at, due, visits, inbox, made, synced, deletes, history>>

-----------------------------------------------------------------------------
(* What needs no stripe.                                                   *)

\* A payment webhook with a bad signature: _recover_tampered_payment.
Tamper ==
  /\ Rarely("forge")
  /\ Known /\ ~sess.paid /\ sess.attempted /\ sess.confirmed /\ sess.expected # "none"
  /\ \A t \in tasks : ~(t.kind = "tamper" /\ t.sid = sess.sid)
  /\ sess.retries < TamperedRetryMax
  /\ Save([sess EXCEPT !.retries = @ + 1])
  /\ Spawn("tamper", sess.sid)
  /\ UNCHANGED <<simulator, inbox, stripe, made, synced, deletes, ghost, history>>

\* A penalty that names the right amount: _apply_charge_correction.
Correct ==
  /\ Rarely("correct")
  /\ \E s \in Sids : invoices[s] > 0
  /\ Known /\ ~sess.paid /\ ~sess.corrected
  /\ Save([sess EXCEPT !.corrected = TRUE, !.expected = "corrected"])
  /\ Send(sess.sid, "corrected")
  /\ UNCHANGED <<inbox, stripe, made, tasks, synced, deletes, ghost, claims>>

\* POST /api/sessions/{plate}/request-payment.
StaffAsk ==
  /\ "ask" \in Staff /\ Rarely("ask")
  /\ Known /\ ~sess.paid /\ sess.expected # "none"
  /\ Save([sess EXCEPT !.retries = @ + 1])
  /\ Send(sess.sid, sess.expected)
  /\ UNCHANGED <<inbox, stripe, made, tasks, synced, deletes, ghost, claims>>

\* POST /api/ghost-cars/{id}/override: the session is changed and saved before
\* the 409 for a charge that was already attempted.
StaffOverride ==
  /\ "override" \in Staff /\ ghost # "none"
  /\ LET s == IF Known THEN sess ELSE Fresh(NewId, "override")
         billed == [AtItsExit(s, ghost) EXCEPT !.expected = "estimate"]
     IN  /\ IF Known THEN UNCHANGED made ELSE Create
         /\ IF s.attempted \/ row.claimed
            THEN /\ Save(billed)
                 /\ UNCHANGED <<simulator, ghost, history>>
            ELSE /\ Save(Charged(billed))
                 /\ claims' = claims \cup {s.sid}
                 /\ Send(s.sid, "estimate")
                 /\ ghost' = "none"
  /\ UNCHANGED <<inbox, stripe, tasks, synced, deletes, used>>

\* POST /api/ghost-cars/{id}/release; staff confirm a car that has not paid.
StaffRelease ==
  /\ "release" \in Staff /\ ghost # "none"
  /\ LET s == IF Known THEN sess
              ELSE [AtItsExit(Fresh(NewId, "ghost"), ghost) EXCEPT !.ghost = TRUE]
     IN  /\ IF Known THEN UNCHANGED made ELSE Create
         /\ Save([s EXCEPT !.authorized = TRUE])
         /\ Spawn("letOut", s.sid)
  /\ UNCHANGED <<simulator, inbox, stripe, synced, deletes, ghost, used, history>>

\* reap_orphans: a car that left its bay, or never reached one, and was not
\* seen at an exit for long.
Reap ==
  /\ Known /\ ~sess.confirmed /\ sess.stay # "parked"
  /\ Archive
  /\ UNCHANGED <<simulator, inbox, stripe, made, tasks, synced, row, ghost, used, history>>

\* _on_no_park: the simulator's log says, as the car drives in, that it will
\* not park.
NoPark ==
  /\ at = "road"
  /\ Known /\ sess.stay = "driving" /\ ~sess.declined
  /\ Save([sess EXCEPT !.declined = TRUE])
  /\ UNCHANGED <<simulator, inbox, stripe, made, tasks, synced, deletes, ghost, used, history>>

\* _ensure_barriers_open, after a repair and when staff hand a gate back.
Resume(s) ==
  /\ IF s.confirmed /\ ~s.attempted /\ ~s.paid
     THEN Spawn("charge", s.sid)
     ELSE IF s.sid # 0 /\ Releasable(s)
     THEN Spawn("release", s.sid)
     ELSE UNCHANGED tasks
  /\ synced' = TRUE
EnsureOpen ==
  /\ Resume(sess)
  /\ UNCHANGED <<simulator, inbox, stripe, memory, disk, ghost, used, history>>

\* sync_from_simulator: a parked car whose bay reads empty has left it, then
\* restore_sessions and _ensure_barriers_open.
Sync ==
  /\ Known
  /\ \/ UNCHANGED <<sess, row>>
     \/ sess.stay = "parked" /\ at # "bay" /\ Save(Left(sess))
  /\ Resume(sess)
  /\ UNCHANGED <<simulator, inbox, stripe, made, deletes, ghost, used, history>>

\* A sync earlier than the DELETE of an archived session: restore_sessions
\* takes the row for a session of this process.
SyncEarly ==
  /\ ~Known /\ row.saved.sid # 0
  /\ Rarely("early")
  /\ sess' = Restored(row)
  /\ Resume(sess')
  /\ UNCHANGED <<simulator, inbox, stripe, made, disk, ghost, history>>

-----------------------------------------------------------------------------
(* SQLite's background writer, and the end of the process.                 *)

\* DELETE FROM active_sessions WHERE session_id = s.
Flush(s) ==
  /\ s \in deletes
  /\ deletes' = deletes \ {s}
  /\ row' = IF row.saved.sid = s THEN NoRow ELSE row
  /\ UNCHANGED <<simulator, inbox, stripe, memory, tasks, synced, ghost, used, history>>

\* The process dies with row r on disk, and another one starts.  The webhooks
\* it had not handled are gone, or are sent again.
Restart(r) ==
  /\ Rarely("restart")
  /\ inbox' \in {<<>>, inbox}
  /\ stripe' = "free"
  /\ row' = r
  /\ sess' = Restored(r)
  /\ tasks' = {} /\ deletes' = {} /\ synced' = FALSE
  /\ UNCHANGED <<simulator, made, ghost>>

Crash == Restart(row) /\ UNCHANGED history

\* It dies after claim_charge committed and before _persist.
CrashAfterClaim(t) ==
  /\ t \in tasks /\ t.kind \in {"charge", "ghost"}
  /\ StillUnbilled(t) /\ Claimable(sess, RowAtClaim(t))
  /\ claims' = claims \cup {sess.sid}
  /\ Restart([RowAtClaim(t) EXCEPT !.claimed = TRUE])
  /\ UNCHANGED invoices

-----------------------------------------------------------------------------
Car ==
  \/ Arrive(<<Event("entry", "none")>>) \/ Arrive(<<>>)
  \/ Park \/ DriveOff \/ Pay \/ PayWrong
  \/ \E x \in Exits : ReachExit(x)
Handler ==
  \/ EntryIn \/ ParkIn \/ ParkOut \/ GhostHeld
  \/ \E x \in Exits : ExitIn(x) \/ ExitOut(x)
  \/ \E a \in Amounts \cup {"wrong"} : Payment(a)
Coroutine(t) ==
  \/ Invoice(t) \/ ClaimRefused(t) \/ NothingToInvoice(t) \/ AskAgain(t)
  \/ LetOut(t, TRUE) \/ LetOut(t, FALSE)
Unstriped ==
  \/ Tamper \/ Correct \/ StaffAsk \/ StaffOverride \/ StaffRelease
  \/ Reap \/ NoPark \/ EnsureOpen \/ Sync \/ SyncEarly
Storage ==
  \/ \E s \in deletes : Flush(s)
  \/ Crash \/ \E t \in tasks : CrashAfterClaim(t)

Next == Car \/ Handler \/ (\E t \in tasks : Coroutine(t)) \/ Unstriped \/ Storage

Spec == Init /\ [][Next]_vars

(***************************************************************************)
(* Fairness: the event loop handles what is in the inbox and wakes every   *)
(* sleeper, and a sync is made again until it succeeds (at startup, when   *)
(* the client reconnects, at the first car).                               *)
(***************************************************************************)
Fairness ==
  /\ WF_vars(Handler)
  /\ WF_vars(\E t \in tasks : Coroutine(t))
  /\ WF_vars(~synced /\ Sync)

FairSpec == Spec /\ Fairness
-----------------------------------------------------------------------------
(* Safety.                                                                 *)

\* However sleeps, staff, corrections and crashes fall together, a session is
\* invoiced once, once more for a correction and for each re-request that it
\* counts, and never more: claim, correction and count are on disk before the
\* invoice is sent (db.claim_charge, "the once-only claim").
Budget(s) == (IF s.sid \in claims THEN 1 ELSE 0) + (IF s.corrected THEN 1 ELSE 0) + s.retries
InvoiceBudget == Known => invoices[sess.sid] <= Budget(sess)

\* An invoice is only sent for the session that is the plate's at that moment,
\* and never for one that has paid, though what led to it was read before a
\* sleep, a crash or another visit.
InvoiceIsDue ==
  [][\A s \in Sids :
       invoices'[s] > invoices[s]
         => sess'.sid = s /\ ~(sess.sid = s /\ sess.paid)]_vars

\* The car is told to leave only when the simulator has its money and, for a
\* ghost car, staff agree, or when staff let it go: no exit event, retry,
\* forged webhook, restored session or earlier visit opens the way otherwise.
LeavesSettled ==
  [][~told /\ told' =>
       \/ due = "paid" /\ ~(sess.ghost /\ ~sess.authorized)
       \/ \E t \in tasks : t.kind = "letOut"]_vars

\* A payment that was accepted is on disk at once, so that a crash neither
\* asks the car again nor keeps it ("Payment is durable before release"), unless a
\* sync has brought back a session while the row of it was still to be deleted.
PaidIsDurable ==
  sess.paid /\ used["early"] = 0 => row.saved.sid = sess.sid /\ row.saved.paid

(* Liveness.                                                               *)

\* The charge of session s was attempted with a claim that was spent: the process had
\* died between the claim and the invoice; or the row of an earlier visit, which was
\* claimed, had passed that on (NewVisitIsUnclaimed); or a sync had brought back the
\* session of a row that was still to be deleted.
ClaimWasSpent(s) ==
  /\ sess.attempted
  /\ \/ s \in claims /\ used["restart"] > 0
     \/ \E r \in claims : r < s
     \/ used["early"] > 0

\* A car at its exit does not wait for ever: an invoice for it goes out, which may fail
\* and is then for staff to review (main.py:2317); or it is gone, or staff let it go, also
\* after a crash; unless its claim was spent.
EveryExitIsBilled ==
  \A s \in Sids :
    []<>~(/\ sess.sid = s /\ sess.confirmed /\ ~sess.declined /\ ~sess.authorized
          /\ invoices[s] = 0 /\ ~ClaimWasSpent(s))

-----------------------------------------------------------------------------
(* What the documentation says and the code does not do.                   *)

\* "A plate at the entrance whose session already parked ... is a new visit":
\* the new visit does not inherit the charge claim of the one it retires.
NewVisitIsUnclaimed ==
  [][EntryIn /\ Known /\ sess'.sid # sess.sid => ~row'.claimed]_vars
=============================================================================

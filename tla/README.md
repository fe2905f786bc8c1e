# A verification model of the KuruSushi parking dispatcher

The repository is a car-park dispatcher: an asyncio service (`app/`) that hears a
simulator's webhooks, keeps a picture of bays, gates, cars and payments in memory,
writes what matters to SQLite and answers with REST commands. This directory holds
TLA+ modules translated from that code, TLC configurations that check them on small
instances, and TLAPS proofs for every value of the constants.

    tlc -workers 2 -config MCIngress.cfg MCIngress.tla     # one run
    tlapm IngressProofs.tla                                # the proofs of one component

`PROJECT.json` maps every definition to the lines it models, and lists the runs, the
mutants that break each property, the hazards and the theorems.

## 1. The system

One process, one event loop, one thread that writes SQLite behind it. Control passes
between coroutines at an `await` only, so everything below is about what may happen
during an await, between two webhooks, or across a crash.

| Component | State | Operations | Module |
|---|---|---|---|
| Webhook ingress and event log (`queue_worker.py`, `main.py:1840-1955`, `db.py:240-450`) | queue, 256 stripe locks, two records of known ids (`_accepted`, `_accepted_event_ids`), last sequence number, write buffer, `events` and `sequence_gaps` tables | accept, refuse, take, serialise, record, handle, mark, retry, crash, clean stop | `Ingress`, `IngressProofs` |
| Charging, payment, release (`main.py:671-705, 2062-2530, 2700-2885, 1490-1690`) | one session per plate, its row in `active_sessions` with the charge claim, sleeping coroutines, ghost-car records | invoice after a settling sleep, re-request, correction, forged payment, release, staff override, archive, restore | `Billing`, `BillingProofs` |
| Bay reservation and dispatch (`main.py:565-662, 719-876, 1069-1194, 2062-2211, 2923-2957`, `state.py:420-545, 725-881`) | `spots`, `sessions`, `active_dispatches`, `_dispatch_tasks`, `pending_repairs`, `deferred_repairs` | dispatch, resend, park, double park, collide, neglect, reap, break, repair, sync | `Bays`, `BayAllocation`, `BaysProofs`, `BaysOrderProofs`, `BayAllocationProofs` |
| Zone gates and gate maintenance (`main.py:100-530, 1355-1487, 1960-2051, 2588-2605, 2659-2673, 2799-2881`) | `barriers` with holds and staff modes, `zone_maintenance`, `stuck_repairs`, `_holding_gate` | open for a car, close when idle, hold, staff open, close and let go, break, close a zone, repair both gates, give up on a repair, reopen, drive round a blocked gate | `ZoneGates`, `ZoneGatesProofs` |
| Exhaust fans (`main.py:853-876, 1544-1571, 1994-2051, 2608-2656`) | `fans`, `gas_co_level`, `pending_repairs`, flags of proactive repairs | react to a reading, switch by hand, wear, break, stop and repair, one of a zone at a time | `Fans`, `FansProofs` |
| Maintenance queue (`queue_worker.py:115-223`) | heap, retries, one worker | submit, run, retry with backoff, drop | in `Fans`; as far as bays and gates go, in `Bays` and `ZoneGates` |
| Simulator client (`client.py`), log follower (`simlog.py`, `main.py:500-533`), sync (`main.py:137-150, 752-850`) | token, recovery lock, `_recovering`, slots for commands, offset in the log, `_live_bays_synced` | request, log in, recover after a 401, sync, wait for a slot, follow the log, drop a level | `Link`, `LinkProofs` |
| Lights (`main.py:892-945, 1574-1603`) | lit zones, a timer | day and night, relight | planned |
| Zone choice (`zones.py`) | none | three-stage choice | planned |
| Accounts and access (`auth.py`, `policy.py`) | users, login sessions | login, expiry, roles, last administrator | planned |
| Live feed (`ws_manager.py`) | connected clients | broadcast, drop the failing | planned |

Not modelled, and not planned: `ml_agent.py` (floating-point fitting, advisory),
`routing.py` and `reachability.py` (shortest paths over level files), `tariffs.py`,
`config.py`, `signature.py`, `seed.py` (constants, a digest, start data), the browser
console, scripts and tests.

How they interact. A webhook goes through the ingress to one handler; a plate's
webhooks are handled one at a time and in order (theorem `VehicleOrder`), which is what
`Billing` and `Bays` assume of their inboxes. The handlers share the session of a plate:
`Billing` keeps the money and the exits of one plate, `Bays` the entrance and the bays of
several. `ZoneGates` keeps the gates those cars drive through, `Fans` the fans that share the
maintenance queue with gates and bays, and `Link` what all commands and syncs go through.
Penalty and component webhooks, staff requests, the log follower, the wear loop and a sync
are on no stripe and run between any two steps; component webhooks of one gate or fan may
even be taken in the wrong order, as their stripe is chosen without their name.

What is hard: handlers that give up control between reading a session and using it;
sleeping coroutines that outlive their car; rows deleted through a buffer and upserted
directly; plates that come back; a bay or gate whose repair was decided when it was empty;
a list read from the simulator and applied four requests later; a recovery that runs inside
the request that failed; a crash between any two of these. Section `hazards` of
`PROJECT.json` has each at its line with the properties for it.

## 2. Plan

Order: what loses or repeats an event first, what loses or repeats money next, then what
costs fines.

1. `Ingress`, `IngressProofs` - done.
2. `Billing`, `BillingProofs` - done. Next for it: an abstract ledger (a visit is claimed,
   invoiced within a budget, settled, let out) that `Billing` implements.
3. `Bays`, with the abstract allocation `BayAllocation` it implements, `BaysProofs`,
   `BaysOrderProofs` - done. Next: what remains of the proofs when staff dispatch cars.
4. `ZoneGates`, `ZoneGatesProofs` - done. Next: the main gate and `open_all_gates`.
5. `Fans`, with the attempts and the one worker of `PriorityTaskQueue`, `FansProofs` - done.
6. `Link`, `LinkProofs` - done.
7. `Lights`, next to `Fans`.
8. `ZonePick`: `pick_zone_staged` against a declarative reference over small ratios.
9. `Accounts` and `LiveFeed`.

Disagreements seen while modelling that have no run of their own are in section 6.

## 3. The modules

Names follow the code. An action is a coroutine's piece between two awaits at which
something else can happen; a handler whose awaits change nothing shared is one action.

**`Ingress`.** A delivery is one HTTP request, numbered in order of arrival, and carries an
event; events may come again. `stage[t]` says where delivery `t` is: queued, waiting for
its stripe, being handled, or out of the service. `accepted` and `stored` are the two
records of known ids (the pool's and the database's); they are different on purpose, as in
the code. `buffer` and `disk` split a write into being appended and committed.
`AnswerEnqueued`, `AnswerDuplicate`, `AnswerFull` are `simulator_webhook`; `TakeAndStart`,
`TakeAndWait`, `ObtainStripe` are `_run`; `Succeed`, `Fail`, `FailUnrecorded` the ends of
`_process_simulator_event`; `Commit`, `LoseWrite` the write buffer; `Crash`, `BeginStop`,
`StopAndStart` and `Reload` the process. `Key` is the stripe's key as `_key` computes it:
component webhooks fall back on their own id. `done`, `observed` and `base` are history.

**`Billing`.** One plate over several visits and sessions. The simulator's side is where the
car is, what it owes (`due`) and whether it was told to leave. `sess` is the session in memory,
`row` its row (session and claim column apart, as `save_active_session` keeps the larger
claim), `deletes` the buffered DELETEs, `tasks` the sleeping coroutines, `stripe` whether a
handler waits for a release, `ghost` the ghost-car record. Amounts are `billed` and others by
name; only their being equal matters. A coroutine's sleep ends in `Invoice`, `ClaimRefused`,
`NothingToInvoice`, `AskAgain` or `LetOut`.

**`Bays`.** Cars are at the entrance, on the road or in a bay; `goal` is the bay a car was let
in for. `bay`, `sess`, `active`, `pending`, `deferred` are the dispatcher's dictionaries.
A call of `dispatch_entry` is a record in `calls`: it begins (`Begin`: retire the previous
visit, answer a duplicate, make the session, reap), goes on at once or waits if reaping
archived somebody, and ends in `Reserve`, `NoGate`, `TurnAway` or `Unavailable`. `leg[p]` is
the resend task: it checks (`LegCheck`), opens the gate, sends (`LegSends`) and sleeps.
`repair[b]` is the bay's task in the maintenance queue; the wear check queues bays that are broken
and now and then one that is only worn (`Maintain`). A sync is `SyncRead` and, any time later,
`SyncApply`.

**`BayAllocation`** is what `Bays` promises, without how: a bay is given to one car (`Give`),
never while a car stands in it; a car parks where it was given a bay and leaves it (`Park`,
`Leave`); bays are taken back from cars that stand in none (`TakeBack`). It translates no
code. `Bays` instantiates it with a refinement mapping: a bay is given by the session that is
`assigned` or `parked` and has not left, and a car stands in a bay once its arrival there
has been handled. `AllocatesBays` says that every step of `Bays` is a step of it or none.

**`ZoneGates`.** One zone's two gates and the cars through them. `door` and `health` are the
simulator's, `gate` is the dispatcher's belief (`state.barriers`), `reports` are webhooks on
their way. `work` is the zone's maintenance: what is pending, tasks queued (`jobs`), repairs
given up on, what is to do, whether the zone takes cars again; `_schedule_gate_repairs` and
what it calls are functions of that record (`Scheduled`), as every handler ends with it.
`leg[p]` and `rel[p]` are the tasks that get a car in and let it out: they check the gate,
send the command, take the answer, wait for the report, and send the car. A sweep
(`_close_idle_gates`) looks once at what is in use and then closes one gate after another.
Every command to a gate may fail (`act` returns false), done or not: `Loses` for those whose
answer is waited for, `Tells` for those whose answer is part of the step (a hold's close, a
report's, staff's, the one that follows a repair), `SweepFails` and `RepairDropped`. As in the
code the handler then skips its own bookkeeping and nobody tries again. Rare events, a failed
command ("lost") among them, happen once each, and in the combinations `Troubles` lists.

**`Fans`.** `switch` and `health` are the simulator's; `fan`, `level`, `pending`, `flagged` the
dispatcher's. A handler of a reading or of staff (`hand[w]`) goes through the zone's fans in
order and waits for each answer. `tasks` are the tasks of the maintenance queue in the order they
were submitted, each with its fan and its attempts: ready, running (`stopping`, `repairing`) or
asleep until its retry; the worker takes the oldest that is ready (`Takes`). A command whose
answer is lost may have been done. For a repair (`Sends`) that means that the fan is in repair
while its task sleeps: the report of its end takes the fan out of `pending`, and another fan may
be queued beside the task that will send its repair again.

**`Link`.** A call of `_request` (`call[c]`) is at a step between two awaits: it waits for a slot,
logs in, waits for its answer, for the lock, or recovers (`relogin`, `relist`, `retake`,
`release`), and a sync takes over (`take`) later than it has read. The simulator's runs and
levels are numbered; `token`, `synced` and `bays` say of which run and level the
dispatcher's are. `Poll`, `LevelLoaded` and `LevelSyncs` are the log follower; a level that is
loaded cancels the tasks of `_entry_watchers` (`CancelsTasks`), and any command or charge under
way may be one of theirs.

Abstractions, all of them:

- `AUTOPILOT` is on, the minimum dwell time and the grace times may have elapsed whenever
  the code compares a clock (a timeout is a step that may happen).
- The first piece of a spawned coroutine is part of the action that spawns it.
- The gate a release or a leg waits for either opens or cannot be used.
- "The command was done but its answer was lost" is modelled for every command in `ZoneGates` and
  `Fans` and for invoices in `Billing` (`Send`); it is abstracted from for releases in `Billing`
  (one that fails is not done), for repairs and gotos in `Bays`, and does not matter in `Link`,
  which counts what is sent.
- `Billing`: the second of two exits stands for all others. Fees are a name.
- `Bays`: which of the free bays is chosen is any of them (zone choice and distance are
  elsewhere); the exits are one webhook, `gone`; a hop by way of a zone's own sensor is left
  out, as are crashes (Billing has them) and `_on_no_park`. A plate comes back only when the
  webhooks of its last visit have been handled and its leg has ended. Of a car that stands
  in two bays only the second is kept as its position. A session is reaped although its car
  is still there only as the bounded event `slow`. `_close_gates_for_level_start` of a sync
  is left out: the restored cars' legs start in the same step. Which bays are worn is any of
  them, as often as `Limit` lets bays break; the flag `pending_proactive_repair` (`Fans` has it)
  would only make it fewer.
- `ZoneGates`: one zone (zones share no gate), no sync, a car's webhooks are handled at once,
  an answer comes before the movement it announces ends, the answers to staff, holds and
  repair commands are part of the step, one sweep runs at a time, the predictor may find any
  gate due that has been opened since its repair, a task's attempts may end at any of them,
  the other way out is free.
- `Fans`: one zone, three levels of air, wear is there or not, priorities are equal, an answer
  comes before the fan's repair ends, a fan told twice to go into repair stays in it, no sync; one
  answer is lost in a behaviour.
- `Link`: a sync is its list of bays, the attempts of a request are one answer that fails or
  not, log lines name levels only.

## 4. Runs

| Run | Checks | Bounds |
|---|---|---|
| `MCIngress` | `TypeOK`, `NoOvertaking`, `Retryable`, `Accounted`, `NoReplay`, `CleanStop`, `EveryDeliverySettles`, `SuccessReachesDisk` | 3 events, 2 subjects, 3 workers, capacity 2, 3 deliveries, 2 restarts, an SQLite error |
| `MCBilling` | `TypeOK`, `InvoiceBudget`, `PaidIsDurable`, `InvoiceIsDue`, `LeavesSettled` | one visit, two exits, any two of a crash, a forged or wrong payment, a correction, a staff request, a failed release |
| `MCBillingVisits` | `InvoiceIsDue`, `EveryExitIsBilled` | two visits, one exit, a crash or a sync before the archive's DELETE is written |
| `MCBillingRecycled` | finding: `NewVisitIsUnclaimed` | two visits |
| `MCBays` | `TypeOK`, `FreeIsEmpty`, `PromisesTakenBack`, `RepairsSpareCars`, `AllocatesBays` | 2 cars, 2 bays, 2 visits each, a bay that breaks or is worn, an unusable gate, two cars that give up |
| `MCBaysDisorder` | `ActiveIsAssigned`, `OccupiedStays` | 1 visit, any two of: astray or double parked, a bay that breaks or is worn, sync, staff, reaped although present |
| `MCBaysLive` | `BrokenIsRepaired` | 1 bay that breaks or is worn twice, 2 cars, a lost repair |
| `MCZoneGates` | `TypeOK`, `HeldGateShuts`, `RepairSparesCars`, `StaffOpenStands`, `ZoneReopens`, `CarGetsIn`, `PaidIsReleased` | both gates, 2 cars, 13 pairs of troubles (`MCTroubles`), once each |
| `MCFans` | `TypeOK`, `StopsFirst`, `FansFollowAir`, `BrokenIsRepaired` | 2 fans, 2 handlers, a reading on its way, 2 attempts, 2 tasks, any wear, one kind of trouble |
| `MCFansWorn` | finding: `WornIsRepaired` | wear only |
| `MCLink` | `TypeOK`, `ChargeSentOnce`, `OneRecovery`, `RecoveryIsSynced`, `CallsEnd`, `LevelIsTakenOver` | 2 calls, 3 slots, 3 runs of the simulator, 2 levels, one trouble |
| `MCLinkSlots` | finding: `CallsEnd` | 2 calls, 2 slots |

Why the bounds are enough for the question asked. Overtaking needs two deliveries of one
key and a third that keeps a worker busy, and replay needs the same event twice around a
restart; two restarts let a process inherit from one that inherited. An invoice too many
needs two sleepers of one session and a third cause (a correction, a forged payment, staff),
and the two visits of a plate meet in one row only in pairs. A bay is contended by two cars;
a third adds a waiting car, not a new kind of step. A gate is contended by a car and the
maintenance, or by a car let out and one held; a zone has two gates. The pairs of troubles leave
out those whose state space is out of reach (a breakdown or a predicted failure while staff open
a gate, both while another car waits): for these the safety properties are proved (section 5),
and the liveness properties are not checked. A command that fails is paired with everything that
holds a gate (a suspect car, staff's close), with a predicted failure and with a second car. Of
fans the second is the one that is in the way, and two tasks are enough: one answer is lost, so
that one task at most is left behind by the report of its own repair's end, and the next fan's
makes two (with three, TLC finds the same states). A recovery concerns the call that makes it and one that waits
for it; with more slots than calls one is always free, and with as many as calls
(`MCLinkSlots`) the program's 30 are full. Rare events are counted in `Limit`, or may happen
in the sets `Troubles` lists: each run names the ones it allows. Mutants show that each
property can fail within its bounds. Plates and bays are symmetric in `Bays`, exits in
`Billing` (no action names one); the symmetry is used for safety runs only. Deadlock is not
checked where the last car, reading or call may simply have gone.

`LeavesSettled` is not in `MCBillingVisits`: a crash within 50 ms of an archive restores a
session that had paid, and `_ensure_barriers_open` may then release the plate's next visit
on its account. Runs of one visit do not have that next visit.

The four properties of `MCBays` are checked without a sync, without dispatches by staff,
without cars astray and without cars archived while they are still there, the four
`Disorders` of `BaysOrderProofs`. Webhooks of two cars are not ordered, so the CarOut of a car
that was archived or went astray may be handled after the CarIn of the next one in its bay; a
sync applies a list that is a few requests old; and staff may send a car twice, to a bay of
their choice. In runs of one visit with one of them, a breakdown and a neglected car, TLC
finds `FreeIsEmpty`, `RepairsSpareCars` and `AllocatesBays` violated by a car astray, a sync or
a car archived too early, and `PromisesTakenBack` and `AllocatesBays` by staff.
`MCBaysDisorder` checks what holds nonetheless.

`HeldGateShuts` excepts the step in which the hold's own close fails, and a gate out of service, one
in repair unknown to the dispatcher among them (`Mending`). Once a gate is closed and held, no
later step may leave it open, whatever fails.

What the temporal properties except, each because the code has no answer to it (section 6).
`EveryExitIsBilled`: a car whose claim was spent without an invoice (`ClaimWasSpent`: the process
died between claim and invoice, an earlier visit's row passed its claim on, or an early sync brought
a session back) - `claim_charge` refuses it for good. `attempted` alone excuses nothing.
`CarGetsIn`: a slow gate, a break, reports taken late, a gate taken for open that is shut - a leg
gives up after `entry_max_attempts`, and a wrong belief about a gate is not corrected. `PaidIsReleased`: a lost
command, an exit that staff hold shut, and a car turned back because of another. `ZoneReopens`:
a paid car that stays in the zone, and a gate believed to move that does not. `FansFollowAir`:
a lost command, crossing answers, staff. `BrokenIsRepaired` of `Fans`: air that stays bad.
`RecoveryIsSynced`: a lost answer, a cancelled call, a second restart during the recovery,
a list that is out of date. `LevelIsTakenOver`: such a list, and a log rewritten unseen.
These are in `used`, so that each property holds of every behaviour without them; that each
one is needed was tried.

**Fairness.** Only what the event loop gives: a ready coroutine or handler runs, a sleep ends,
every network call has a timeout. In `Ingress` also the writer thread wakes every 50 ms and
an announced shutdown ends. In `Billing` a sync is made again until one succeeds (at start,
on reconnect, at the first car). In `Bays`, `ZoneGates` and `Fans` the wear loop recurs
(`Maintain`, `Reap`, `WearCheck`), and of the simulator: cars drive on, park, leave or give up
at the entrance, gates move, and a repair it accepted ends or, for a gate, is found stuck and
given up on (`WearCheck /\ UNCHANGED used`: it does so without calling a timely repair late).
In `Link` a level that is loading runs in the end and cars keep coming while it runs. Strong
fairness is used where a step needs one of the few `Workers` or `Callers` of the model to be
free, which the program, having no such limit, always has: readings and fan reports in
`Fans`, the syncs of cars and of a level in `Link`. Nothing is assumed of crashes, staff,
breakdowns, restarts or syncs by hand. `BrokenIsRepaired` of `Bays` excepts a bay that leaked
(section 6): nothing frees that one.

## 5. Proofs

`IngressProofs` proves, from `EventsAssumption` and `BoundsAssumption` alone, for any
events, subjects, workers, capacity and bounds:

- `TypeCorrect`: `Spec => []TypeOK`;
- `VehicleOrder`: `Spec => []NoOvertaking`;
- `HandledOnce`: `Spec => NoReplay`.

The argument. `NoOvertaking` is not inductive: it says nothing of who waits or is queued.
The invariant `IInv` is `TypeOK /\ Order /\ Records`. `Order` says that what a worker holds
is older than what is queued, that of the deliveries with one key the one being handled is
older than those that wait for the stripe, and that no two with one key are handled at once.
The FIFO queue (`FirstQueued`) and the FIFO stripe (`ObtainStripe` takes the oldest waiter)
keep it; equal vehicles have equal keys, hence `NoOvertaking`. `Records` says that an event
being handled is in `stored`, and that one handled with success, or whose success is on disk
or in the buffer (`Marked`), is in `stored` and not being handled; a handler starts only
for an event that is not in `stored` (`BeginsUnrecorded`), hence `NoReplay`. `Commit` and
`LoseWrite` keep it because they mark nothing new, `Reload` because `stored` is read from the
disk. One lemma per action or group of actions shows that `[Next]_vars` keeps each part; the
temporal steps are by PTL.

It goes on to what crashes, restarts and redeliveries leave:
`CanBeSentAgain` (`Retryable`), `GapsAreReported` (`Accounted`) and `StopsCleanly`
(`CleanStop`). `Retryable` says what is in the two records of known ids, and depends on what
is in the buffer and on disk. The invariant adds to `IInv` the part `Recovery`: no failure is
written after a success of the same event (`Final`), a row's sequence number was seen by the
process (`Seen`), and, until SQLite fails, what is recorded has a row, a success is on disk or on
its way (`Rowed`, `Lasting`), and an event is known only while it is under way or after its
success (`Known`). `Reload` needs `Final` and `Seen`: a process begins with what is on disk only.

`BillingProofs` proves, from `BillingAssumption`, `TypeCorrect`, `InvoicedOnce`
(`InvoiceBudget`), `PaymentsAreDurable` (`PaidIsDurable`) and `OnlyDueIsInvoiced`
(`InvoiceIsDue`), for any number of visits, exits and rare events. `InvoiceBudget` is not inductive: a
sleeper will send an invoice later, and a restart replaces the session by its row. The
invariant `Books` counts both: what was sent and what sleepers are about to send (`Asks`) is within
the credit of the session in memory and of the session in the row (`Budgeted`); the row agrees
with the session in retries, correction and payment, or is gone (`OneRow`); a claim is
remembered in memory and in the claim column (`ClaimsKept`); and session numbers are given
once, so that nothing is about a session not made yet (`Numbered`).

`FirstVisitIsSettled` is what `LeavesSettled` says, of the first visit of a plate, and
`EveryVisitIsSettled` is `LeavesSettled` itself where `MaxVisits` is 1, as in `MCBilling`. The
second invariant, `FirstVisit`, is about a car from its payment to the barrier: a payment that
is in memory, in the row or behind a release under way was made, and then no ghost's handler
holds the stripe and nothing but the car's departure is in its inbox (`Ended`), because nothing
else is posted after a payment (`LastWord`); and a release under way is for a car that is no
ghost or is agreed to, in memory and in the row a restart or a sync reads (`Consent`). `LastWord`
is what keeps a car that has paid from being made a ghost at an exit it reached earlier, after
its release was started. `KeepSettled` says it once for the steps that neither post nor accept a
payment (`Calm`) and make no promise stronger (`Deal`). Later visits are excluded for the
reason given in section 4. The invariant was checked with TLC under the bounds of `MCBilling` and
`MCBillingVisits` before it was proved.

`LinkProofs` proves, from `LinkAssumption`, `TypeCorrect`, `ChargesGoOutOnce`
(`ChargeSentOnce`) and `RecoversOnce` (`OneRecovery`), for any number of calls, slots, runs and
levels, also when a level is loaded and calls are cancelled for it (`LevelLoadedInv`). The invariant ties to every step of a call how often it was sent and that only a first
attempt may be refused into a recovery (`Attempts`), what token and list it can have (`Dated`), that
whatever came from the present run came with its token (`Current`: a call that finds the token
it was refused with still there finds the bays old too), and that the lock is held by the
call that recovers (`Exclusion`). `Moves` and `Guards` say once what a call's step may change, and
each action is shown to do that.

`FansProofs` proves, from `FansAssumption`, `TypeCorrect`, `StoppedFirst` (`StopsFirst`) and
`OneRepairPerZone`, for any number of fans, handlers, tasks and attempts. `OneRepairPerZone` says when
what `docs/ENGINEERING_LOG.md:1085` promises can be relied on: as long as no answer has been lost,
one fan at most of a zone is pending or in repair, and every task is of that fan. It is
stated with that condition because without it the code does not keep the promise (section 6). The
invariant is conditional in the same way, `"lost" \notin used => Order`: `Order` follows a repair from
its task to its report (`Course`) and says that, until an answer is overtaken, a fan that runs is
known to or has a command unanswered (`Heard`). The types hold in any case, and `StopsFirst` excepts
lost answers itself.

`BaysProofs` proves, from `BaysAssumption` - the names are different and `Limit` is a
function to Nat -, `TypeCorrect`, `ActiveAgrees` (`ActiveIsAssigned`) and `OccupiedIsKept`
(`OccupiedStays`), for any plates, bays and numbers of rare events. The invariant `Agrees` says of each
plate that `active_dispatches` and its session name the same bay, or none if there is no
session; for `OccupiedIsKept` each action is shown to free no bay that is occupied, but
for the ones the property names.

`BaysOrderProofs` proves the other four, from the same assumption and from `Orderly`: none of
the four `Disorders` of section 4 has happened. Everything else may: breakdowns, unusable
gates, lost repairs, penalties, cars turned away, archived sessions whose dispatch is waiting,
any number of each and of visits. `OccupiedIsNotFree` is `Spec => [](Orderly => FreeIsEmpty)`;
`RepairsSpare` (`RepairsSpareCars`), `PromisesKept` (`PromisesTakenBack`) and `AllocatesThem`
(`AllocatesBays`) are of behaviours that are `Orderly` throughout, and `NoDisorder` puts the
four together for bounds that allow no disorder, those of `MCBays` among them. None of the four
is inductive: they say where cars and bays are, and the webhooks that will change it are
still on their way. The invariant `Ordered` gives each car a stage of its visit (`Course`) that
ties four things together: where the car is, the bay it was let in for, the exact list of its
webhooks yet to be handled, and what its session says of it. With that it says

- that a promised bay is reserved for its car and one with a parked car occupied (`Shape`,
  `Kept`), so that no two cars have one bay and no car finds its bay taken (`NoCollision`);
- that a leg about to send a car at the entrance sends it to its session's bay (`LegFits`);
- that a bay is in use if and only if it is somebody's, and that one in repair, or whose
  repair is on its way, is nobody's and is not given (`Named`, `RepairFits`);
- that a dispatch is for a car at the entrance, or turned back there, that has no bay
  (`CallFits`), and that there is one per plate and one at a time that does not wait (`CallsApart`);
- that cars fined for neglect are away (`NewsFits`).

Each action is shown to keep it, as long as it is not one of the disorders (`StepsTaken`,
`NextOrdered`). `BeginShape`, `ParkInShape` and `ParkOutShape` say what is left of a handler's
branches then. For the refinement, `GivenTo` and `StandsAt` are the two variables of the
allocation; `AllocationSteps` says once what a step must do to them to be one of
`BayAllocation`, and every action is shown to do it or to leave them alone. TLC found `Ordered` to
hold in `MCBays`, and with one bay, two breakdowns and a lost repair, before it was proved. `OneCarPerBay` says of `Bays` what `BayAllocation` promises.

`ZoneGatesProofs` proves, from `GatesAssumption`, `TypeCorrect`, `HeldGatesShut`
(`HeldGateShuts`), `RepairsSpareCars` (`RepairSparesCars`) and `OpenGatesStand`
(`StaffOpenStands`), for any number of cars and, where the run tries some pairs of troubles,
for all of them together, each once. The invariant: no gate is held open and closed (`Opened`); only
cars that paid are let out, until a car was held and staff opened a gate (`Unpaid`); and no car is
on its way through a gate that works and waits for its repair (`Spared`). `Minded(g)` says what a
step may do to a held gate, and that it may leave it open only as the command of that step fails;
each action is shown to keep to it. That the dispatcher knows of every repair is no part of the
invariant: a repair whose answer was lost is unknown to it, and `InService` excludes such a gate.
Three exceptions are stated because of these proofs: the failed close above; with three troubles at
once a hold put on a gate that waits for a repair closes nothing (`main.py:2437`), and when that
repair is dropped or ends (`main.py:2597`) the gate is in service, open and held; and a held
car that staff let out may pay on its way, after its gate was queued for repair (`main.py:1394`).

`BayAllocationProofs` proves of the abstract allocation, for any plates and bays and from no
assumption, `TypeCorrect` and `OneCarPerBay`: `Spec => [](Exclusive /\ StandsInGiven)`. The
invariant is the two with the types: `Give` keeps `Exclusive` as the bay is given to nobody,
and `StandsInGiven` because a car without a bay stands in none; `TakeBack` is for cars that
stand in none. With `AllocatesBays`, which `BaysOrderProofs` proves, this is what `Bays` gives its cars.

All of them are laid out alike: what the helpers on records return, the invariant, `Init`, one
lemma per action (or group of actions) for the types and for the rest, and the theorems, whose
temporal steps are by PTL. The bounds of the runs are constants here; nothing is assumed of
them but that they are numbers.

Model-checked only:

- everything about fairness: the liveness properties of every module, `RecoveryIsSynced`,
  `CallsEnd` and `LevelIsTakenOver` of `Link` and `WornIsRepaired` included. The prover has
  neither ENABLED nor induction over behaviours.

No invariant or action property of a run is left to the model checker alone; each theorem
names what it excludes.

## 6. Where the code disagrees with its documentation

Shown by a run:

- `MCBillingRecycled`. A returning plate's new visit does not inherit `charged`
  (`main.py:1070-1075`) - it inherits `charge_attempted` through the old row, whose DELETE
  is still buffered, and its only invoice is refused.
- `MCFansWorn`. Two fans of a zone are repaired one at a time (`docs/ENGINEERING_LOG.md:1085`) -
  one that wears out while the other is in repair is flagged as proactively repaired
  (`main.py:871`) before `_queue_repair` returns early, and does not have its turn.
- `MCLinkSlots`. A 401 triggers a one-shot recovery (`README.md:352`) that must not wait for
  the request it runs in (`main.py:2806`) - its commands wait for a slot of
  `_mutation_slots`, and when refused commands hold all 30, everyone waits for everyone.

Seen while modelling, without a run of their own so far; each is in the modules as the code
has it:

- `README.md:321`: "Every webhook is written to SQLite before any handler runs". The row is
  in a buffer for up to 50 ms; a crash loses it.
- `main.py:1880`: the gap logged as missing may be a number still waiting for its stripe.
- `queue_worker.py:21`: component webhooks share a stripe. Their `Name` is no part of `_key`.
- `main.py:2309`: a crash between the claim and the invoice leaves a car that is never invoiced; so do
  an inherited claim (`MCBillingRecycled`) and a sync before the DELETE (`main.py:781`). These are
  the exceptions of `EveryExitIsBilled`.
- `main.py:2163-2167`: re-invoicing at a second exit reads `settings.payment_wait_s`, which
  `config.py` does not define, and raises.
- `main.py:1620`: a refused staff override leaves its amount in `expected_amount`.
- `main.py:847` with `main.py:2152`: a car that declined parking is invoiced by
  `_ensure_barriers_open`.
- `main.py:2780`: the payment dropped as unsolicited may be one staff asked for, after a
  crash between claim and save.
- `main.py:781`: a sync before the DELETE is written brings an archived session back.
- `main.py:764`: a car that parks between the read and the application of a sync is not in
  the list, and its bay is free in the service's eyes.
- `main.py:661`: the goto goes out up to 5 s after the bay was found sound.
- `README.md:135`: a failed event can be redelivered. Not after `record_security_event` or
  `record_sequence_gap` raised: the pool releases the id and `_accepted_event_ids` keeps it.
  `Retryable` excepts SQLite errors for this.
- `state.py:422`: a reservation is swept when its car never comes. The sweep is called by
  nobody, and a dispatch that waited in `reap_orphans` (`main.py:1101`) while its session was
  archived reserves a bay that nothing gives back: the exception of `PromisesTakenBack`.
- `main.py:1101` again: when a dispatch by staff waits there and the entry webhook's own
  dispatch goes on, both reserve, and the car holds a second bay until it has left.

Gates:

- `main.py:264` has a sweep spare gates a car still has to drive through. It looks once
  (`main.py:276`) and then waits for each close: a gate that came into use meanwhile is shut.
- `main.py:176`: a release waits for a gate that breaks meanwhile and sends its goto all the
  same; the car counts as released and is not sent again.
- A gate that breaks as it opens and is repaired keeps the belief `Opening`: a leg then waits
  and never sends an open. A repaired gate told to go where it is makes no report either.
- `main.py:1364`: the task of a repair that staff cancelled stays in the queue and runs later.
- `main.py:2862`: a paid car turned back because another is held is tried again only when
  something else happens.
- `main.py:2596-2604`: a repaired gate stays in `todo` while its close is awaited, and may be
  queued again.
- `main.py:352-357`: `reopened` is set at once when the entry gate waits for inbound cars.
- Staff open a gate while a close of it is on its way: it may end shut.
- `main.py:2439`, `2671`, `1421`: the close of a hold that fails is not repeated. The gate stays open
  and held, and a car that must not leave can (the exception of `HeldGateShuts`).
- `main.py:2597`: when the close after a repair fails, the dispatcher takes the gate for open. If it
  is shut, legs send their cars at it and never open it (the exception of `CarGetsIn`).
- `main.py:2041`: a gate's repair that is accepted with its answer lost is in repair unknown to the
  dispatcher, which goes on using it once the task is dropped.
- `main.py:795`: a sync adds holds again to a gate that staff have opened.

Fans and lights:

- `docs/ENGINEERING_LOG.md:1075`: a zone always keeps ventilating. Not when its other fan is broken.
- `README.md:355`: fans stop below 30. The code has 15.
- `docs/ENGINEERING_LOG.md:1085`: two fans of a zone are repaired one at a time. Not when the answer of
  a repair is lost (`main.py:2041-2043`): the report of its end takes the fan out of
  `pending_repairs` (`main.py:2570`) while its task sleeps, the zone's other fan is queued, and the
  task wakes and sends its repair again. `OneRepairPerZone` is conditional for this. A fan
  that runs unknown to the dispatcher and wears out again and again then keeps the zone's other,
  broken fan from its turn: `BrokenIsRepaired` is not run with a breakdown and a lost answer together.
- `main.py:2640-2656`: a fan whose command is on its way when bad air is reported is left off
  until the next reading.
- While the air is bad, a worn fan that runs is queued, postponed, dropped and queued again,
  and keeps a broken one of its zone from being repaired: `BrokenIsRepaired` excepts it.
- `main.py:924-933`: `_relight_after` runs inside the timer it re-arms, which is therefore not
  re-armed; the comment at `main.py:923` says that it is.

Link:

- `docs/ENGINEERING_LOG.md:553`: without the log, level loads are noticed only at the first car.
  After the first level they are not noticed at all: `_live_bays_synced` is never reset
  (`main.py:139`, reset only at 521). `Link` with `Logged = FALSE` shows it.
- A failed login of a recovery leaves no token; the next request logs in without a sync. A
  sync that fails in a recovery is not repeated. A leg's task cancelled while it recovers
  drops the sync.
- While one call recovers, other calls' 401s are final.
- A list read before a level was loaded and applied after it counts as the new level's, and
  ends the follower's attempts (`main.py:531`).
- Queued webhooks and repairs of the level before survive the change of level.

## 7. Not modelled

Lights, zone choice, accounts and the live feed are planned (section 2). In the modelled
components: the main gate and `open_all_gates` (`main.py:1430-1453`), the predictor's
arithmetic, priorities of the maintenance queue (all its tasks are in the end taken), the
fees at an exit, the distance between bays, and the texts of logs and webhooks. They decide
which of several allowed steps is taken, or only report.

------------------------------ MODULE Ingress ------------------------------
(***************************************************************************)
(* The way of a simulator webhook through the dispatcher, from the HTTP    *)
(* request to the row in SQLite that says it was handled:                  *)
(*                                                                         *)
(*   simulator_webhook  -> WebhookWorkerPool.enqueue   (in memory)         *)
(*   worker             -> _process_simulator_event    (record, handle)    *)
(*   SQLiteWriteBuffer  -> events table                (in the background) *)
(*                                                                         *)
(* A webhook that reaches the service is a delivery, numbered in order of  *)
(* arrival: delivery t carries the event event[t].  The simulator may send *)
(* the same event again, so several deliveries can carry one event.        *)
(*                                                                         *)
(* An event is named by its SequenceId; its EventId is equally unique and  *)
(* is not represented separately.                                          *)
(***************************************************************************)
EXTENDS Naturals, Sequences, FiniteSets

CONSTANTS
  Events,         \* the simulator's events, named by their SequenceId
  VehicleEvents,  \* the events whose payload has a CarPlateNumber
  Subject,        \* the vehicle or component each event is about
  WorkerCount,    \* consumers of the pool (16 in the code)
  Capacity,       \* size of the in-memory queue (10 000 in the code)
  MaxDeliveries,  \* bound: deliveries in a behaviour
  MaxRestarts,    \* bound: crashes and clean restarts in a behaviour
  MaxDbErrors     \* bound: SQLite errors in a behaviour

ASSUME EventsAssumption ==
  /\ Events \subseteq Nat \ {0}
  /\ VehicleEvents \subseteq Events

ASSUME BoundsAssumption ==
  /\ WorkerCount \in Nat \ {0}
  /\ Capacity \in Nat \ {0}
  /\ MaxDeliveries \in Nat
  /\ MaxRestarts \in Nat
  /\ MaxDbErrors \in Nat

VARIABLES
  last,      \* number of the latest delivery
  event,     \* event[t]: the event delivery t carries
  stage,     \* stage[t]: how far delivery t has come
  accepted,  \* WebhookWorkerPool._accepted
  stored,    \* db._accepted_event_ids
  buffer,    \* SQLiteWriteBuffer._queue: writes not committed yet
  disk,      \* disk[e]: the row of e in the events table
  lastSeq,   \* ParkingState.last_sequence_id
  gaps,      \* the sequence numbers the sequence_gaps table calls missing
  mode,      \* "up", or "stopping" while the service shuts down cleanly
  restarts,  \* counts towards MaxRestarts
  dbErrors,  \* counts towards MaxDbErrors
  \* History, read by the properties only:
  done,      \* events handled with success since the process started
  observed,  \* events whose sequence number has been looked at
  base       \* the first one looked at since lastSeq was last 0

pool == <<last, event, stage, accepted>>
database == <<stored, buffer, disk>>
sequence == <<lastSeq, gaps, observed, base>>
process == <<mode, restarts, dbErrors, done>>
vars == <<last, event, stage, accepted, stored, buffer, disk, lastSeq, gaps,
          mode, restarts, dbErrors, done, observed, base>>

Deliveries == 1..MaxDeliveries
NoEvent == 0

\* "queued": in asyncio.Queue; "waiting": taken by a worker that waits for the
\* stripe lock; "handling": its handler runs; the others are final.
Stages == {"unsent", "duplicate", "full", "queued", "waiting", "handling",
           "handled", "skipped", "failed", "lost"}
Rows == {"absent", "stored", "processed"}
Writes == [op : {"insert", "processed", "failed"}, event : Events]

InStage(s) == {t \in Deliveries : stage[t] = s}
Busy == InStage("waiting") \cup InStage("handling")
Pending == InStage("queued") \cup Busy

(***************************************************************************)
(* The stripe an event is serialised on.  _key looks for a plate, then for *)
(* fields the component webhooks do not have (they say "Name"), and falls  *)
(* back on the EventId.  Two keys that hash to one of the 256 stripes are  *)
(* serialised more than this, never less.                                  *)
(***************************************************************************)
Key(e) == IF e \in VehicleEvents THEN <<"subject", Subject[e]>> ELSE <<"event", e>>

SameKey(t, u) == Key(event[t]) = Key(event[u])

TypeOK ==
  /\ last \in 0..MaxDeliveries
  /\ event \in [Deliveries -> Events \cup {NoEvent}]
  /\ stage \in [Deliveries -> Stages]
  /\ \A t \in Deliveries : (t <= last) = (stage[t] # "unsent")
  /\ \A t \in Deliveries : (event[t] = NoEvent) = (stage[t] = "unsent")
  /\ accepted \subseteq Events
  /\ stored \subseteq Events
  /\ buffer \in Seq(Writes)
  /\ disk \in [Events -> Rows]
  /\ lastSeq \in Nat
  /\ gaps \subseteq Nat
  /\ mode \in {"up", "stopping"}
  /\ restarts \in 0..MaxRestarts
  /\ mode = "stopping" => restarts < MaxRestarts
  /\ dbErrors \in 0..MaxDbErrors
  /\ done \subseteq Events
  /\ observed \subseteq Events
  /\ base \in Nat

Init ==
  /\ last = 0
  /\ event = [t \in Deliveries |-> NoEvent]
  /\ stage = [t \in Deliveries |-> "unsent"]
  /\ accepted = {} /\ stored = {} /\ buffer = <<>>
  /\ disk = [e \in Events |-> "absent"]
  /\ lastSeq = 0 /\ gaps = {} /\ observed = {} /\ base = 0
  /\ mode = "up" /\ restarts = 0 /\ dbErrors = 0
  /\ done = {}

-----------------------------------------------------------------------------
(* The HTTP request: simulator_webhook and WebhookWorkerPool.enqueue.      *)

Deliver(e, s) ==
  /\ mode = "up"
  /\ last < MaxDeliveries
  /\ last' = last + 1
  /\ event' = [event EXCEPT ![last + 1] = e]
  /\ stage' = [stage EXCEPT ![last + 1] = s]
  /\ UNCHANGED <<database, sequence, mode, restarts, dbErrors, done>>

\* 200 {"status": "duplicate"}.
AnswerDuplicate(e) ==
  /\ e \in accepted
  /\ Deliver(e, "duplicate")
  /\ UNCHANGED accepted

\* 503.  Deliberately wrong variant: the id is reserved before the capacity
\* is looked at.
AnswerFullReserving(e) ==
  /\ e \notin accepted
  /\ Cardinality(InStage("queued")) >= Capacity
  /\ Deliver(e, "full")
  /\ accepted' = accepted \cup {e}
AnswerFull(e) ==
  /\ e \notin accepted
  /\ Cardinality(InStage("queued")) >= Capacity
  /\ Deliver(e, "full")
  /\ UNCHANGED accepted

\* 200 {"status": "enqueued"}: nothing is on disk yet.
AnswerEnqueued(e) ==
  /\ e \notin accepted
  /\ Cardinality(InStage("queued")) < Capacity
  /\ Deliver(e, "queued")
  /\ accepted' = accepted \cup {e}

-----------------------------------------------------------------------------
(* A worker: WebhookWorkerPool._run around _process_simulator_event.       *)

\* ParkingState.observe_sequence: the numbers a new id skips over.
\* Deliberately wrong variant: the last of them is left out.
SkippedButOne(e) == IF lastSeq = 0 THEN {} ELSE (lastSeq + 1) .. (e - 2)
Skipped(e) == IF lastSeq = 0 THEN {} ELSE (lastSeq + 1) .. (e - 1)

Observe(e) ==
  /\ lastSeq' = IF e > lastSeq THEN e ELSE lastSeq
  /\ observed' = observed \cup {e}
  /\ base' = IF lastSeq = 0 THEN e ELSE base

\* db.record_event of an event that is not known yet.
RecordEvent(e) ==
  /\ stored' = stored \cup {e}
  /\ buffer' = Append(buffer, [op |-> "insert", event |-> e])
  /\ UNCHANGED disk

\* The event is already recorded: True, without calling the handler.
SkipRecorded(t) ==
  /\ event[t] \in stored
  /\ stage' = [stage EXCEPT ![t] = "skipped"]
  /\ UNCHANGED <<last, event, accepted, database, sequence, process>>

\* The event is recorded, its sequence number looked at, its handler called.
BeginHandling(t) ==
  /\ event[t] \notin stored
  /\ RecordEvent(event[t])
  /\ Observe(event[t])
  /\ gaps' = gaps \cup Skipped(event[t])
  /\ stage' = [stage EXCEPT ![t] = "handling"]
  /\ UNCHANGED <<last, event, accepted, process>>

\* db.record_sequence_gap writes at once; its SQLite error is not one of the
\* exceptions caught around it and leaves _process_simulator_event.  The pool
\* releases its own record of the id, the database's stays.
GapNotLogged(t) ==
  /\ event[t] \notin stored
  /\ Skipped(event[t]) # {}
  /\ dbErrors < MaxDbErrors
  /\ RecordEvent(event[t])
  /\ Observe(event[t])
  /\ accepted' = accepted \ {event[t]}
  /\ stage' = [stage EXCEPT ![t] = "failed"]
  /\ dbErrors' = dbErrors + 1
  /\ UNCHANGED <<last, event, gaps, mode, restarts, done>>

Start(t) == SkipRecorded(t) \/ BeginHandling(t) \/ GapNotLogged(t)

FirstQueued(t) == t \in InStage("queued") /\ \A u \in InStage("queued") : t <= u

\* A free worker takes the oldest delivery and finds its stripe free.
TakeAndStart(t) ==
  /\ FirstQueued(t)
  /\ Cardinality(Busy) < WorkerCount
  /\ \A u \in Busy : ~SameKey(t, u)
  /\ Start(t)

\* A free worker takes the oldest delivery and has to wait for its stripe.
TakeAndWait(t) ==
  /\ FirstQueued(t)
  /\ Cardinality(Busy) < WorkerCount
  /\ \E u \in Busy : SameKey(t, u)
  /\ stage' = [stage EXCEPT ![t] = "waiting"]
  /\ UNCHANGED <<last, event, accepted, database, sequence, process>>

\* The stripe is free again and goes to the one that has waited longest.
\* Deliberately wrong variants: it goes to any of the waiters; a waiter waits
\* for itself.
ObtainStripeUnfair(t) ==
  /\ t \in InStage("waiting")
  /\ \A u \in InStage("handling") : ~SameKey(t, u)
  /\ Start(t)
ObtainStripeLast(t) ==
  /\ t \in InStage("waiting")
  /\ \A u \in InStage("handling") : ~SameKey(t, u)
  /\ \A u \in InStage("waiting") : SameKey(t, u) => t < u
  /\ Start(t)
ObtainStripe(t) ==
  /\ t \in InStage("waiting")
  /\ \A u \in InStage("handling") : ~SameKey(t, u)
  /\ \A u \in InStage("waiting") : SameKey(t, u) => t <= u
  /\ Start(t)

\* The handler returns: the id stays reserved, mark_processed is buffered.
\* Deliberately wrong variant: mark_processed is forgotten.
SucceedUnmarked(t) ==
  /\ stage[t] = "handling"
  /\ stage' = [stage EXCEPT ![t] = "handled"]
  /\ done' = done \cup {event[t]}
  /\ UNCHANGED <<last, event, accepted, database, sequence,
                 mode, restarts, dbErrors>>
Succeed(t) ==
  /\ stage[t] = "handling"
  /\ stage' = [stage EXCEPT ![t] = "handled"]
  /\ buffer' = Append(buffer, [op |-> "processed", event |-> event[t]])
  /\ done' = done \cup {event[t]}
  /\ UNCHANGED <<last, event, accepted, stored, disk, sequence,
                 mode, restarts, dbErrors>>

\* The handler raises: mark_failed forgets the id and buffers its UPDATE, the
\* pool releases the id.
Fail(t) ==
  /\ stage[t] = "handling"
  /\ stage' = [stage EXCEPT ![t] = "failed"]
  /\ stored' = stored \ {event[t]}
  /\ accepted' = accepted \ {event[t]}
  /\ buffer' = Append(buffer, [op |-> "failed", event |-> event[t]])
  /\ UNCHANGED <<last, event, disk, sequence, process>>

\* The handler raises and so does record_security_event, which is called
\* before mark_failed: the error leaves _process_simulator_event.
FailUnrecorded(t) ==
  /\ stage[t] = "handling"
  /\ dbErrors < MaxDbErrors
  /\ stage' = [stage EXCEPT ![t] = "failed"]
  /\ accepted' = accepted \ {event[t]}
  /\ dbErrors' = dbErrors + 1
  /\ UNCHANGED <<last, event, database, sequence, mode, restarts, done>>

-----------------------------------------------------------------------------
(* SQLiteWriteBuffer: a batch is the oldest writes, in order.  A batch is  *)
(* one transaction, and where it ends depends on timing, so committing     *)
(* write by write reaches the same database contents.                      *)

\* INSERT OR IGNORE, and the two UPDATEs that match no row when e has none.
\* Deliberately wrong variant: mark_failed leaves a third status behind, which
\* known_event_ids does not look for.
RowAfterThird(w) ==
  LET row == disk[w.event] IN
  CASE w.op = "insert" -> IF row = "absent" THEN "stored" ELSE row
    [] w.op = "processed" -> IF row = "absent" THEN "absent" ELSE "processed"
    [] w.op = "failed" -> IF row = "absent" THEN "absent" ELSE "failed"
RowAfter(w) ==
  LET row == disk[w.event] IN
  CASE w.op = "insert" -> IF row = "absent" THEN "stored" ELSE row
    [] w.op = "processed" -> IF row = "absent" THEN "absent" ELSE "processed"
    [] w.op = "failed" -> IF row = "absent" THEN "absent" ELSE "stored"

Commit ==
  /\ buffer # <<>>
  /\ disk' = [disk EXCEPT ![Head(buffer).event] = RowAfter(Head(buffer))]
  /\ buffer' = Tail(buffer)
  /\ UNCHANGED <<pool, stored, sequence, process>>

\* The batch failed, was retried write by write, and this write failed again.
LoseWrite ==
  /\ buffer # <<>>
  /\ dbErrors < MaxDbErrors
  /\ buffer' = Tail(buffer)
  /\ dbErrors' = dbErrors + 1
  /\ UNCHANGED <<pool, stored, disk, sequence, mode, restarts, done>>

-----------------------------------------------------------------------------
(* Stopping and starting: lifespan, known_event_ids, WebhookWorkerPool.    *)
(* start and stop, SQLiteWriteBuffer.stop.                                 *)

OnDisk == {e \in Events : disk[e] # "absent"}
Processed == {e \in Events : disk[e] = "processed"}

\* What a new process reads back from SQLite.  Deliberately wrong variant:
\* nothing is read back into the two records of known ids.
ReloadNothing ==
  /\ stage' = [t \in Deliveries |-> IF t \in Pending THEN "lost" ELSE stage[t]]
  /\ accepted' = {}
  /\ stored' = {}
  /\ buffer' = <<>>
  /\ lastSeq' \in OnDisk \cup {0}
  /\ \A e \in OnDisk : e <= lastSeq'
  /\ base' = IF OnDisk = {} THEN 0 ELSE base
  /\ done' = {}
  /\ mode' = "up"
  /\ restarts' = restarts + 1
  /\ UNCHANGED <<last, event, disk, gaps, observed, dbErrors>>
Reload ==
  /\ stage' = [t \in Deliveries |-> IF t \in Pending THEN "lost" ELSE stage[t]]
  /\ accepted' = Processed
  /\ stored' = Processed
  /\ buffer' = <<>>
  /\ lastSeq' \in OnDisk \cup {0}
  /\ \A e \in OnDisk : e <= lastSeq'
  /\ base' = IF OnDisk = {} THEN 0 ELSE base
  /\ done' = {}
  /\ mode' = "up"
  /\ restarts' = restarts + 1
  /\ UNCHANGED <<last, event, disk, gaps, observed, dbErrors>>

Crash ==
  /\ restarts < MaxRestarts
  /\ Reload

\* The server stops taking requests; webhook_queue.stop waits for the queue.
BeginStop ==
  /\ mode = "up"
  /\ restarts < MaxRestarts
  /\ mode' = "stopping"
  /\ UNCHANGED <<pool, database, sequence, restarts, dbErrors, done>>

\* queue.join has returned and stop_writer has flushed; the next process
\* starts.  Deliberately wrong variant: the buffer is not flushed.
StopWithoutFlush ==
  /\ mode = "stopping"
  /\ Pending = {}
  /\ Reload
StopAndStart ==
  /\ mode = "stopping"
  /\ Pending = {}
  /\ buffer = <<>>
  /\ Reload

-----------------------------------------------------------------------------
Request == \E e \in Events : AnswerDuplicate(e) \/ AnswerFull(e) \/ AnswerEnqueued(e)
Take(t) == TakeAndStart(t) \/ TakeAndWait(t)
Finish(t) == Succeed(t) \/ Fail(t) \/ FailUnrecorded(t)
Worker(t) == Take(t) \/ ObtainStripe(t) \/ Finish(t)

Next ==
  \/ Request
  \/ \E t \in Deliveries : Worker(t)
  \/ Commit \/ LoseWrite
  \/ Crash \/ BeginStop \/ StopAndStart

Spec == Init /\ [][Next]_vars

(***************************************************************************)
(* Fairness.  The event loop runs every ready coroutine: a free worker     *)
(* takes the oldest delivery, the holder of a released stripe is woken,    *)
(* a handler ends (each network call has a timeout), and the writer wakes  *)
(* every 50 ms.  Nothing is assumed of the simulator, of crashes, or of a  *)
(* shutdown being asked for.                                               *)
(***************************************************************************)
Fairness ==
  /\ \A t \in Deliveries : WF_vars(Take(t)) /\ WF_vars(ObtainStripe(t)) /\ WF_vars(Finish(t))
  /\ WF_vars(Commit)
  /\ WF_vars(StopAndStart)

FairSpec == Spec /\ Fairness

-----------------------------------------------------------------------------
(* Safety.                                                                 *)

\* One vehicle's webhooks are handled one at a time and in the order they
\* arrived, whatever the workers do ("without allowing one vehicle's lifecycle
\* to overtake itself", WebhookWorkerPool).
NoOvertaking ==
  \A t \in InStage("handling"), u \in Pending :
    (t # u /\ event[t] \in VehicleEvents /\ event[u] \in VehicleEvents
       /\ Subject[event[t]] = Subject[event[u]]) => t < u

\* A handler is never started for an event this process has handled with
\* success, nor, in any process, for one whose success is on disk.
NoReplay ==
  [][\A t \in Deliveries :
       (stage[t] # "handling" /\ stage'[t] = "handling")
         => event[t] \notin done /\ disk[event[t]] # "processed"]_vars

\* An event that has no delivery under way and was not handled with success
\* can be sent again: neither of the two records of known ids holds it, however
\* deliveries, failures, crashes and restarts alternate.  README.md:135 says so
\* without exception; an SQLite error in the request makes one (FailUnrecorded).
Retryable ==
  \A e \in Events :
    ( /\ \A t \in Pending : event[t] # e
      /\ e \notin done
      /\ disk[e] # "processed"
      /\ dbErrors = 0 )
    => e \notin accepted /\ e \notin stored

\* A process that has stopped cleanly leaves no success unrecorded: what it
\* handled is known to its successor (webhook_queue.stop, then stop_writer).
CleanStop ==
  [][(StopAndStart /\ dbErrors = 0) => done \subseteq accepted']_vars

\* Every sequence number up to the highest seen is accounted for: its event
\* was looked at, or the gap it fell into was reported.
Accounted ==
  dbErrors = 0 =>
    \A n \in base..lastSeq : n # 0 => n \in observed \cup gaps

(* Liveness.                                                               *)

\* A delivery that was answered "enqueued" does not stay in the service.
EveryDeliverySettles ==
  \A t \in Deliveries : (t \in Pending) ~> (t \notin Pending)

\* A success reaches the disk, unless the process dies first or the write
\* itself fails.
SuccessReachesDisk ==
  \A e \in Events :
    (e \in done) ~> (disk[e] = "processed" \/ e \notin done \/ dbErrors > 0)
=============================================================================

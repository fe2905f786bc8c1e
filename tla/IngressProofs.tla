--------------------------- MODULE IngressProofs ---------------------------
(***************************************************************************)
(* Proofs about Ingress, for every set of events and every bound: in one   *)
(* process, and below through failures, crashes and restarts.              *)
(***************************************************************************)
EXTENDS Ingress, TLAPS

\* e has a success on disk or on its way there.
Marked(e) ==
  \/ disk[e] = "processed"
  \/ \E i \in 1..Len(buffer) : buffer[i] = [op |-> "processed", event |-> e]

\* Work is taken in order: what a worker holds is older than what is queued,
\* and of one stripe at most one delivery, the oldest, is being handled.
Order ==
  /\ \A t \in Busy, u \in InStage("queued") : t < u
  /\ \A t \in InStage("handling"), u \in InStage("waiting") : SameKey(t, u) => t < u
  /\ \A t, u \in InStage("handling") : SameKey(t, u) => t = u

\* An event being handled is recorded, and one handled with success is
\* recorded and not being handled.
Records ==
  /\ \A t \in InStage("handling") : event[t] \in stored
  /\ \A e \in Events :
       Marked(e) \/ e \in done
         => e \in stored /\ \A t \in InStage("handling") : event[t] # e

IInv == TypeOK /\ Order /\ Records

USE EventsAssumption, BoundsAssumption

\* The three ways Start(t) can go share the state they leave alone.
LEMMA StartFrame ==
  ASSUME TypeOK, NEW t \in Deliveries, stage[t] # "unsent", Start(t)
  PROVE  /\ UNCHANGED <<last, event, disk, mode, restarts, done>>
         /\ \/ stage' = [stage EXCEPT ![t] = "skipped"] /\ UNCHANGED <<stored, buffer>>
            \/ /\ event[t] \notin stored
               /\ stage' = [stage EXCEPT ![t] = "handling"]
               /\ stored' = stored \cup {event[t]}
               /\ buffer' = Append(buffer, [op |-> "insert", event |-> event[t]])
            \/ /\ event[t] \notin stored
               /\ stage' = [stage EXCEPT ![t] = "failed"]
               /\ stored' = stored \cup {event[t]}
               /\ buffer' = Append(buffer, [op |-> "insert", event |-> event[t]])
BY DEF Start, SkipRecorded, BeginHandling, GapNotLogged, RecordEvent, database, sequence, process

-----------------------------------------------------------------------------
(* Type correctness.                                                       *)

LEMMA InitType == Init => TypeOK
BY DEF Init, TypeOK, Deliveries, NoEvent, Stages, Rows, Writes

LEMMA EventOfSent ==
  ASSUME TypeOK, NEW t \in Deliveries, stage[t] # "unsent"
  PROVE  event[t] \in Events
BY DEF TypeOK, NoEvent

LEMMA StartType ==
  ASSUME TypeOK, NEW t \in Deliveries, stage[t] # "unsent", Start(t)
  PROVE  TypeOK'
<1>1. event[t] \in Events /\ event[t] \in Nat \ {0}
  BY EventOfSent
<1>2. CASE SkipRecorded(t)
  BY <1>1, <1>2 DEF SkipRecorded, TypeOK, database, sequence, process, Stages
<1>3. CASE BeginHandling(t) \/ GapNotLogged(t)
  <2>1. /\ buffer' = Append(buffer, [op |-> "insert", event |-> event[t]])
        /\ [op |-> "insert", event |-> event[t]] \in Writes
    BY <1>1, <1>3 DEF BeginHandling, GapNotLogged, RecordEvent, Writes
  <2>2. buffer' \in Seq(Writes)
    BY <2>1 DEF TypeOK
  <2>3. stored' \subseteq Events /\ observed' \subseteq Events
    BY <1>1, <1>3 DEF BeginHandling, GapNotLogged, RecordEvent, Observe, TypeOK
  <2>4. lastSeq' \in Nat /\ base' \in Nat
    BY <1>1, <1>3 DEF BeginHandling, GapNotLogged, Observe, TypeOK
  <2>5. gaps' \subseteq Nat
    <3>1. Skipped(event[t]) \subseteq Nat
      BY <1>1 DEF Skipped, TypeOK
    <3>2. QED
      BY <1>3, <3>1 DEF BeginHandling, GapNotLogged, TypeOK
  <2>6. /\ stage' \in [Deliveries -> Stages]
        /\ \A u \in Deliveries : (stage'[u] # "unsent") = (stage[u] # "unsent")
    BY <1>3 DEF BeginHandling, GapNotLogged, TypeOK, Stages
  <2>7. accepted' \subseteq Events /\ dbErrors' \in 0..MaxDbErrors
    <3>1. CASE BeginHandling(t)
      BY <3>1 DEF BeginHandling, TypeOK, process
    <3>2. CASE GapNotLogged(t)
      <4>1. accepted' \subseteq Events
        BY <3>2 DEF GapNotLogged, TypeOK
      <4>2. dbErrors \in 0..MaxDbErrors /\ dbErrors < MaxDbErrors /\ dbErrors' = dbErrors + 1
        BY <3>2 DEF GapNotLogged, TypeOK
      <4>3. dbErrors' \in 0..MaxDbErrors
        BY <4>2
      <4>4. QED
        BY <4>1, <4>3
    <3>3. QED
      BY <1>3, <3>1, <3>2
  <2>8. UNCHANGED <<last, event, disk, mode, restarts, done>>
    BY <1>3 DEF BeginHandling, GapNotLogged, RecordEvent, process
  <2>9. QED
    BY <2>2, <2>3, <2>4, <2>5, <2>6, <2>7, <2>8 DEF TypeOK
<1>4. QED
  BY <1>2, <1>3 DEF Start

LEMMA DeliverType ==
  ASSUME TypeOK, NEW e \in Events, NEW s \in Stages \ {"unsent"}, Deliver(e, s),
         accepted' \subseteq Events
  PROVE  TypeOK'
<1>1. last' \in 0..MaxDeliveries /\ last + 1 \in Deliveries
  BY DEF Deliver, TypeOK, Deliveries
<1>2. event' \in [Deliveries -> Events \cup {NoEvent}] /\ stage' \in [Deliveries -> Stages]
  BY <1>1 DEF Deliver, TypeOK
<1>3. \A t \in Deliveries : (t <= last') = (stage'[t] # "unsent")
  BY <1>1 DEF Deliver, TypeOK, Deliveries
<1>4. \A t \in Deliveries : (event'[t] = NoEvent) = (stage'[t] = "unsent")
  BY <1>1 DEF Deliver, TypeOK, NoEvent
<1>5. QED
  BY <1>1, <1>2, <1>3, <1>4 DEF Deliver, TypeOK, database, sequence

\* Every step of the service keeps every variable in its type.
LEMMA NextType == TypeOK /\ [Next]_vars => TypeOK'
<1> SUFFICES ASSUME TypeOK, [Next]_vars PROVE TypeOK'
  OBVIOUS
<1>1. ASSUME NEW e \in Events, AnswerDuplicate(e) \/ AnswerFull(e) \/ AnswerEnqueued(e)
      PROVE  TypeOK'
  <2>1. accepted' \subseteq Events
    BY <1>1 DEF AnswerDuplicate, AnswerFull, AnswerEnqueued, TypeOK
  <2>2. \E s \in Stages \ {"unsent"} : Deliver(e, s)
    BY <1>1 DEF AnswerDuplicate, AnswerFull, AnswerEnqueued, Stages
  <2>3. QED
    BY <2>1, <2>2, DeliverType
<1>2. ASSUME NEW t \in Deliveries, TakeAndStart(t) \/ ObtainStripe(t)
      PROVE  TypeOK'
  BY <1>2, StartType DEF TakeAndStart, ObtainStripe, FirstQueued, InStage
<1>3. ASSUME NEW t \in Deliveries, TakeAndWait(t)
      PROVE  TypeOK'
  BY <1>3 DEF TakeAndWait, FirstQueued, InStage, TypeOK, database, sequence, process, Stages
<1>4. ASSUME NEW t \in Deliveries, Finish(t)
      PROVE  TypeOK'
  <2>1. event[t] \in Events
    BY <1>4, EventOfSent DEF Finish, Succeed, Fail, FailUnrecorded
  <2>2. /\ [op |-> "processed", event |-> event[t]] \in Writes
        /\ [op |-> "failed", event |-> event[t]] \in Writes
    BY <2>1 DEF Writes
  <2>3. CASE Succeed(t)
    <3>1. buffer' \in Seq(Writes)
      BY <2>2, <2>3 DEF Succeed, TypeOK
    <3>2. QED
      BY <2>1, <2>3, <3>1 DEF Succeed, TypeOK, sequence, Stages
  <2>4. CASE Fail(t)
    <3>1. buffer' \in Seq(Writes)
      BY <2>2, <2>4 DEF Fail, TypeOK
    <3>2. QED
      BY <2>1, <2>4, <3>1 DEF Fail, TypeOK, sequence, process, Stages
  <2>5. CASE FailUnrecorded(t)
    <3>1. dbErrors \in 0..MaxDbErrors /\ dbErrors < MaxDbErrors /\ dbErrors' = dbErrors + 1
      BY <2>5 DEF FailUnrecorded, TypeOK
    <3>2. dbErrors' \in 0..MaxDbErrors
      BY <3>1
    <3>3. QED
      BY <2>1, <2>5, <3>2 DEF FailUnrecorded, TypeOK, database, sequence, Stages
  <2>6. QED
    BY <1>4, <2>3, <2>4, <2>5 DEF Finish
<1>5. CASE Commit
  <2>1. Head(buffer) \in Writes /\ buffer' \in Seq(Writes)
    BY <1>5 DEF Commit, TypeOK
  <2>2. RowAfter(Head(buffer)) \in Rows
    BY <2>1 DEF RowAfter, Writes, Rows, TypeOK
  <2>3. disk' \in [Events -> Rows]
    BY <1>5, <2>1, <2>2 DEF Commit, TypeOK
  <2>4. QED
    BY <1>5, <2>1, <2>3 DEF Commit, TypeOK, pool, sequence, process
<1>6. CASE LoseWrite
  <2>1. buffer' \in Seq(Writes)
    BY <1>6 DEF LoseWrite, TypeOK
  <2>2. QED
    BY <1>6, <2>1 DEF LoseWrite, TypeOK, pool, sequence
<1>7. CASE Crash \/ StopAndStart
  <2>1. Reload /\ restarts' \in 0..MaxRestarts
    <3>1. CASE Crash
      BY <3>1 DEF Crash, Reload, TypeOK
    <3>2. CASE StopAndStart
      BY <3>2 DEF StopAndStart, Reload, TypeOK
    <3>3. QED
      BY <1>7, <3>1, <3>2
  <2>2. stage' \in [Deliveries -> Stages]
        /\ \A t \in Deliveries : (stage'[t] = "unsent") = (stage[t] = "unsent")
    BY <2>1 DEF Reload, Pending, Busy, InStage, TypeOK, Stages
  <2>3. lastSeq' \in Nat /\ base' \in Nat
    BY <2>1 DEF Reload, OnDisk, TypeOK
  <2>4. accepted' \subseteq Events /\ stored' \subseteq Events /\ buffer' \in Seq(Writes)
    BY <2>1 DEF Reload, Processed
  <2>5. QED
    BY <2>1, <2>2, <2>3, <2>4 DEF Reload, TypeOK
<1>8. CASE BeginStop
  BY <1>8 DEF BeginStop, TypeOK, pool, database, sequence
<1>9. CASE UNCHANGED vars
  BY <1>9 DEF vars, TypeOK
<1>10. QED
  BY <1>1, <1>2, <1>3, <1>4, <1>5, <1>6, <1>7, <1>8, <1>9
     DEF Next, Request, Worker, Take

\* Every reachable state is well typed: the deliveries numbered so far are the
\* ones that carry an event, and no counter or table leaves its range.
THEOREM TypeCorrect == Spec => []TypeOK
<1>1. Init => TypeOK
  BY InitType
<1>2. TypeOK /\ [Next]_vars => TypeOK'
  BY NextType
<1>3. QED
  BY <1>1, <1>2, PTL DEF Spec

-----------------------------------------------------------------------------
(* The order of handling.                                                  *)

LEMMA InitOrder == Init => Order
BY DEF Init, Order, InStage, Busy

\* A delivery that arrives is the youngest, and is not in a worker's hands.
LEMMA DeliverOrder ==
  ASSUME TypeOK, Order, NEW e \in Events, NEW s \in {"duplicate", "full", "queued"},
         Deliver(e, s)
  PROVE  Order'
<1>1. last + 1 \in Deliveries /\ stage[last + 1] = "unsent"
  BY DEF Deliver, TypeOK, Deliveries
<1>2. \A t \in Deliveries : t # last + 1 => stage'[t] = stage[t] /\ event'[t] = event[t]
  BY <1>1 DEF Deliver, TypeOK
<1>3. stage'[last + 1] = s
  BY <1>1 DEF Deliver, TypeOK
<1>4. \A t \in Deliveries : stage[t] # "unsent" => t < last + 1
  BY DEF TypeOK, Deliveries
<1>5. /\ InStage("handling")' = InStage("handling")
      /\ InStage("waiting")' = InStage("waiting")
      /\ InStage("queued")' \subseteq InStage("queued") \cup {last + 1}
  BY <1>1, <1>2, <1>3 DEF InStage
<1>6. \A t \in Busy : t < last + 1
  BY <1>4 DEF Busy, InStage
<1>7. \A t, u \in Busy : SameKey(t, u)' = SameKey(t, u)
  BY <1>1, <1>2 DEF SameKey, Key, Busy, InStage
<1>8. QED
  BY <1>5, <1>6, <1>7 DEF Order, Busy

\* What a delivery leaves behind when it is over, or is handled.
LEMMA StartOrder ==
  ASSUME TypeOK, Order, NEW t \in Deliveries, stage[t] # "unsent", Start(t),
         \A u \in InStage("handling") : ~SameKey(t, u),
         \A u \in InStage("waiting") : u # t /\ SameKey(t, u) => t < u,
         \A u \in InStage("queued") : u # t => t < u
  PROVE  Order'
<1>1. event' = event /\ \E s \in {"skipped", "handling", "failed"} :
                           stage' = [stage EXCEPT ![t] = s]
  BY StartFrame
<1>2. \A u \in Deliveries : u # t => stage'[u] = stage[u]
  BY <1>1 DEF TypeOK
<1>3. stage'[t] \in {"skipped", "handling", "failed"}
  BY <1>1 DEF TypeOK
<1>4. /\ InStage("handling")' \subseteq InStage("handling") \cup {t}
      /\ InStage("waiting")' \subseteq InStage("waiting") \ {t}
      /\ InStage("queued")' \subseteq InStage("queued") \ {t}
  BY <1>2, <1>3 DEF InStage
<1>5. \A u, v \in Deliveries : SameKey(u, v)' = SameKey(u, v)
  BY <1>1 DEF SameKey, Key
<1>6. \A u, v \in Deliveries : SameKey(u, v) = SameKey(v, u)
  BY DEF SameKey
<1>7. \A u \in InStage("handling")', v \in InStage("queued")' : u < v
  BY <1>4 DEF Order, Busy
<1>8. \A u \in InStage("waiting")', v \in InStage("queued")' : u < v
  BY <1>4 DEF Order, Busy
<1>9. \A u \in InStage("handling")', v \in InStage("waiting")' : SameKey(u, v)' => u < v
  BY <1>4, <1>5 DEF Order, InStage
<1>10. \A u, v \in InStage("handling")' : SameKey(u, v)' => u = v
  BY <1>4, <1>5, <1>6 DEF Order, InStage
<1>11. QED
  BY <1>7, <1>8, <1>9, <1>10 DEF Order, Busy

\* A step that only takes deliveries out of the workers' hands keeps the order.
LEMMA LeaveOrder ==
  ASSUME TypeOK, Order, event' = event,
         InStage("handling")' \subseteq InStage("handling"),
         InStage("waiting")' \subseteq InStage("waiting"),
         InStage("queued")' \subseteq InStage("queued")
  PROVE  Order'
<1>1. \A u, v \in Deliveries : SameKey(u, v)' = SameKey(u, v)
  BY DEF SameKey, Key
<1>2. QED
  BY <1>1 DEF Order, Busy, InStage

LEMMA NextOrder == TypeOK /\ Order /\ [Next]_vars => Order'
<1> SUFFICES ASSUME TypeOK, Order, [Next]_vars PROVE Order'
  OBVIOUS
<1>1. ASSUME NEW e \in Events, AnswerDuplicate(e) \/ AnswerFull(e) \/ AnswerEnqueued(e)
      PROVE  Order'
  BY <1>1, DeliverOrder DEF AnswerDuplicate, AnswerFull, AnswerEnqueued
<1>2. ASSUME NEW t \in Deliveries, TakeAndStart(t)
      PROVE  Order'
  <2>1. \A u \in InStage("queued") : u # t => t < u
    BY <1>2 DEF TakeAndStart, FirstQueued, InStage, Deliveries
  <2>2. QED
    BY <1>2, <2>1, StartOrder DEF TakeAndStart, FirstQueued, InStage, Busy
<1>3. ASSUME NEW t \in Deliveries, ObtainStripe(t)
      PROVE  Order'
  <2>1. \A u \in InStage("waiting") : u # t /\ SameKey(t, u) => t < u
    BY <1>3 DEF ObtainStripe, InStage, Deliveries
  <2>2. \A u \in InStage("queued") : t < u
    BY <1>3 DEF ObtainStripe, Order, Busy
  <2>3. QED
    BY <1>3, <2>1, <2>2, StartOrder DEF ObtainStripe, InStage
<1>4. ASSUME NEW t \in Deliveries, TakeAndWait(t)
      PROVE  Order'
  <2>1. event' = event /\ stage' = [stage EXCEPT ![t] = "waiting"]
    BY <1>4 DEF TakeAndWait
  <2>2. /\ InStage("handling")' = InStage("handling")
        /\ InStage("waiting")' = InStage("waiting") \cup {t}
        /\ InStage("queued")' = InStage("queued") \ {t}
    BY <1>4, <2>1 DEF TakeAndWait, FirstQueued, InStage, TypeOK
  <2>3. \A u \in Busy : u < t
    BY <1>4 DEF TakeAndWait, FirstQueued, Order
  <2>4. \A u \in InStage("queued") : u # t => t < u
    BY <1>4 DEF TakeAndWait, FirstQueued, InStage, Deliveries
  <2>5. \A u, v \in Deliveries : SameKey(u, v)' = SameKey(u, v)
    BY <2>1 DEF SameKey, Key
  <2>6. QED
    BY <2>2, <2>3, <2>4, <2>5 DEF Order, Busy, InStage
<1>5. ASSUME NEW t \in Deliveries, Finish(t)
      PROVE  Order'
  <2>1. event' = event /\ \E s \in {"handled", "failed"} : stage' = [stage EXCEPT ![t] = s]
    BY <1>5 DEF Finish, Succeed, Fail, FailUnrecorded
  <2>2. /\ InStage("handling")' \subseteq InStage("handling")
        /\ InStage("waiting")' \subseteq InStage("waiting")
        /\ InStage("queued")' \subseteq InStage("queued")
    BY <2>1 DEF InStage, TypeOK
  <2>3. QED
    BY <2>1, <2>2, LeaveOrder
<1>6. CASE Crash \/ StopAndStart
  <2>1. event' = event /\ stage' = [t \in Deliveries |-> IF t \in Pending THEN "lost" ELSE stage[t]]
    BY <1>6 DEF Crash, StopAndStart, Reload
  <2>2. InStage("handling")' = {} /\ InStage("waiting")' = {} /\ InStage("queued")' = {}
    BY <2>1 DEF InStage, Pending, Busy
  <2>3. QED
    BY <2>1, <2>2, LeaveOrder
<1>7. CASE Commit \/ LoseWrite \/ BeginStop \/ UNCHANGED vars
  <2>1. event' = event /\ stage' = stage
    BY <1>7 DEF Commit, LoseWrite, BeginStop, pool, vars
  <2>2. QED
    BY <2>1, LeaveOrder DEF InStage
<1>8. QED
  BY <1>1, <1>2, <1>3, <1>4, <1>5, <1>6, <1>7 DEF Next, Request, Worker, Take

\* One vehicle's webhooks are handled one at a time, in the order in which the
\* service received them, for any number of workers and any queue size.
THEOREM VehicleOrder == Spec => []NoOvertaking
<1>1. Init => TypeOK /\ Order
  BY InitType, InitOrder
<1>2. (TypeOK /\ Order) /\ [Next]_vars => (TypeOK /\ Order)'
  BY NextType, NextOrder
<1>3. TypeOK /\ Order => NoOvertaking
  <2> SUFFICES ASSUME TypeOK, Order, NEW t \in InStage("handling"), NEW u \in Pending,
                      t # u, event[t] \in VehicleEvents, event[u] \in VehicleEvents,
                      Subject[event[t]] = Subject[event[u]]
               PROVE  t < u
    BY DEF NoOvertaking
  <2>1. SameKey(t, u)
    BY DEF SameKey, Key
  <2>2. QED
    BY <2>1 DEF Order, Pending, Busy
<1>4. QED
  BY <1>1, <1>2, <1>3, PTL DEF Spec
-----------------------------------------------------------------------------
(* Nothing is handled twice.                                               *)

\* A buffer that only lost its oldest write, or gained a write that is not a
\* mark, holds no new mark.
LEMMA MarkOfTail ==
  ASSUME TypeOK, buffer # <<>>, buffer' = Tail(buffer), NEW e \in Events,
         NEW i \in 1..Len(buffer'), buffer'[i] = [op |-> "processed", event |-> e]
  PROVE  Marked(e)
<1>1. i + 1 \in 1..Len(buffer) /\ buffer'[i] = buffer[i + 1]
  BY DEF TypeOK
<1>2. QED
  BY <1>1 DEF Marked

LEMMA MarkOfAppend ==
  ASSUME TypeOK, disk' = disk, NEW w \in Writes, buffer' = Append(buffer, w),
         NEW e \in Events, Marked(e)'
  PROVE  Marked(e) \/ w = [op |-> "processed", event |-> e]
<1>1. \A i \in 1..Len(buffer') : buffer'[i] = IF i = Len(buffer) + 1 THEN w ELSE buffer[i]
  BY DEF TypeOK
<1>2. Len(buffer') = Len(buffer) + 1 /\ Len(buffer) \in Nat
  BY DEF TypeOK
<1>3. \A i \in 1..Len(buffer') : i # Len(buffer) + 1 => i \in 1..Len(buffer)
  BY <1>2
<1>4. QED
  BY <1>1, <1>3 DEF Marked

LEMMA InitRecords == Init => Records
BY DEF Init, Records, Marked, InStage

LEMMA StartRecords ==
  ASSUME TypeOK, Records, NEW t \in Deliveries, stage[t] # "unsent", Start(t)
  PROVE  Records'
<1>1. event[t] \in Events
  BY EventOfSent
<1>2. UNCHANGED <<event, disk, done>>
  BY StartFrame
<1>3. ASSUME stage' = [stage EXCEPT ![t] = "skipped"], UNCHANGED <<stored, buffer>>
      PROVE  Records'
  <2>1. InStage("handling")' \subseteq InStage("handling")
    BY <1>3 DEF InStage, TypeOK
  <2>2. \A e \in Events : Marked(e)' = Marked(e)
    BY <1>2, <1>3 DEF Marked
  <2>3. QED
    BY <1>2, <1>3, <2>1, <2>2 DEF Records
<1>4. ASSUME event[t] \notin stored,
             stage' = [stage EXCEPT ![t] = "handling"] \/ stage' = [stage EXCEPT ![t] = "failed"],
             stored' = stored \cup {event[t]},
             buffer' = Append(buffer, [op |-> "insert", event |-> event[t]])
      PROVE  Records'
  <2>1. InStage("handling")' \subseteq InStage("handling") \cup {t}
    BY <1>4 DEF InStage, TypeOK
  <2>2. [op |-> "insert", event |-> event[t]] \in Writes
    BY <1>1 DEF Writes
  <2>3. ASSUME NEW e \in Events, Marked(e)'
        PROVE  Marked(e)
    BY <1>2, <1>4, <2>2, <2>3, MarkOfAppend
  <2>4. ~Marked(event[t]) /\ event[t] \notin done
    BY <1>1, <1>4 DEF Records
  <2>5. \A u \in InStage("handling")' : event'[u] \in stored'
    BY <1>2, <1>4, <2>1 DEF Records
  <2>6. ASSUME NEW e \in Events, Marked(e)' \/ e \in done'
        PROVE  e \in stored' /\ \A u \in InStage("handling")' : event'[u] # e
    <3>1. Marked(e) \/ e \in done
      BY <1>2, <2>3, <2>6
    <3>2. QED
      BY <1>2, <1>4, <2>1, <2>4, <3>1 DEF Records
  <2>7. QED
    BY <2>5, <2>6 DEF Records
<1>5. QED
  BY <1>3, <1>4, StartFrame

LEMMA FinishRecords ==
  ASSUME TypeOK, Order, Records, NEW t \in Deliveries, Finish(t)
  PROVE  Records'
<1>1. stage[t] = "handling" /\ event[t] \in Events /\ UNCHANGED <<event, disk>>
  BY EventOfSent DEF Finish, Succeed, Fail, FailUnrecorded, database
<1>2. \E s \in {"handled", "failed"} : stage' = [stage EXCEPT ![t] = s]
  BY DEF Finish, Succeed, Fail, FailUnrecorded
<1>3. InStage("handling")' = InStage("handling") \ {t}
  BY <1>2 DEF InStage, TypeOK
<1>4. \A u \in InStage("handling") : u # t => event[u] # event[t]
  BY <1>1 DEF Order, InStage, SameKey
<1>5. event[t] \in stored /\ ~Marked(event[t]) /\ event[t] \notin done
  BY <1>1 DEF Records, InStage
<1>6. CASE Succeed(t)
  <2>1. /\ stored' = stored /\ done' = done \cup {event[t]}
        /\ buffer' = Append(buffer, [op |-> "processed", event |-> event[t]])
        /\ [op |-> "processed", event |-> event[t]] \in Writes
    BY <1>1, <1>6 DEF Succeed, Writes
  <2>2. ASSUME NEW e \in Events, Marked(e)' \/ e \in done'
        PROVE  Marked(e) \/ e \in done \/ e = event[t]
    BY <1>1, <2>1, <2>2, MarkOfAppend
  <2>3. QED
    BY <1>1, <1>3, <1>4, <1>5, <2>1, <2>2 DEF Records
<1>7. CASE Fail(t)
  <2>1. /\ stored' = stored \ {event[t]} /\ done' = done
        /\ buffer' = Append(buffer, [op |-> "failed", event |-> event[t]])
        /\ [op |-> "failed", event |-> event[t]] \in Writes
    BY <1>1, <1>7 DEF Fail, Writes, process
  <2>2. ASSUME NEW e \in Events, Marked(e)' \/ e \in done'
        PROVE  Marked(e) \/ e \in done
    BY <1>1, <2>1, <2>2, MarkOfAppend
  <2>3. QED
    BY <1>1, <1>3, <1>4, <1>5, <2>1, <2>2 DEF Records
<1>8. CASE FailUnrecorded(t)
  BY <1>1, <1>3, <1>8 DEF FailUnrecorded, database, Records, Marked
<1>9. QED
  BY <1>6, <1>7, <1>8 DEF Finish

LEMMA CommitRecords ==
  ASSUME TypeOK, Records, Commit
  PROVE  Records'
<1>1. /\ buffer # <<>> /\ buffer' = Tail(buffer) /\ UNCHANGED <<event, stage, stored, done>>
      /\ disk' = [disk EXCEPT ![Head(buffer).event] = RowAfter(Head(buffer))]
  BY DEF Commit, pool, process
<1>2. Head(buffer) \in Writes /\ Head(buffer) = buffer[1] /\ 1 \in 1..Len(buffer)
  BY <1>1 DEF TypeOK
<1>3. ASSUME NEW e \in Events, disk'[e] = "processed"
      PROVE  Marked(e)
  <2>1. CASE disk[e] = "processed"
    BY <2>1 DEF Marked
  <2>2. CASE disk[e] # "processed"
    <3>1. Head(buffer).event = e /\ RowAfter(Head(buffer)) = "processed"
      BY <1>1, <1>2, <1>3, <2>2 DEF TypeOK
    <3>2. Head(buffer).op = "processed"
      BY <1>2, <2>2, <3>1 DEF RowAfter, Writes
    <3>3. Head(buffer) = [op |-> "processed", event |-> e]
      BY <1>2, <3>1, <3>2 DEF Writes
    <3>4. QED
      BY <1>2, <3>3 DEF Marked
  <2>3. QED
    BY <2>1, <2>2
<1>4. ASSUME NEW e \in Events, Marked(e)'
      PROVE  Marked(e)
  BY <1>1, <1>3, <1>4, MarkOfTail DEF Marked
<1>5. InStage("handling")' = InStage("handling")
  BY <1>1 DEF InStage
<1>6. QED
  BY <1>1, <1>4, <1>5 DEF Records

LEMMA NextRecords == TypeOK /\ Order /\ Records /\ [Next]_vars => Records'
<1> SUFFICES ASSUME TypeOK, Order, Records, [Next]_vars PROVE Records'
  OBVIOUS
<1>1. ASSUME NEW e \in Events, NEW s \in {"duplicate", "full", "queued"}, Deliver(e, s)
      PROVE  Records'
  <2>1. last + 1 \in Deliveries /\ stage[last + 1] = "unsent"
    BY <1>1 DEF Deliver, TypeOK, Deliveries
  <2>2. /\ InStage("handling")' = InStage("handling")
        /\ \A t \in InStage("handling") : event'[t] = event[t]
    BY <1>1, <2>1 DEF Deliver, InStage, TypeOK
  <2>3. UNCHANGED <<stored, buffer, disk, done>>
    BY <1>1 DEF Deliver, database
  <2>4. QED
    BY <2>2, <2>3 DEF Records, Marked
<1>2. ASSUME NEW t \in Deliveries, TakeAndStart(t) \/ ObtainStripe(t)
      PROVE  Records'
  BY <1>2, StartRecords DEF TakeAndStart, ObtainStripe, FirstQueued, InStage
<1>3. ASSUME NEW t \in Deliveries, TakeAndWait(t)
      PROVE  Records'
  <2>1. InStage("handling")' \subseteq InStage("handling")
    BY <1>3 DEF TakeAndWait, InStage, TypeOK
  <2>2. QED
    BY <1>3, <2>1 DEF TakeAndWait, Records, Marked, database, process
<1>4. ASSUME NEW t \in Deliveries, Finish(t)
      PROVE  Records'
  BY <1>4, FinishRecords
<1>5. CASE Commit
  BY <1>5, CommitRecords
<1>6. CASE LoseWrite
  <2>1. /\ buffer # <<>> /\ buffer' = Tail(buffer)
        /\ UNCHANGED <<event, stage, stored, disk, done>>
    BY <1>6 DEF LoseWrite, pool
  <2>2. ASSUME NEW e \in Events, Marked(e)'
        PROVE  Marked(e)
    BY <2>1, <2>2, MarkOfTail DEF Marked
  <2>3. InStage("handling")' = InStage("handling")
    BY <2>1 DEF InStage
  <2>4. QED
    BY <2>1, <2>2, <2>3 DEF Records
<1>7. CASE Crash \/ StopAndStart
  <2>1. Reload
    BY <1>7 DEF Crash, StopAndStart
  <2>2. InStage("handling")' = {}
    BY <2>1 DEF Reload, InStage, Pending, Busy
  <2>3. stored' = Processed /\ buffer' = <<>> /\ done' = {} /\ disk' = disk
    BY <2>1 DEF Reload
  <2>4. ASSUME NEW e \in Events, Marked(e)' \/ e \in done'
        PROVE  e \in stored'
    BY <2>3, <2>4 DEF Marked, Processed
  <2>5. QED
    BY <2>2, <2>4 DEF Records
<1>8. CASE BeginStop \/ UNCHANGED vars
  <2>1. UNCHANGED <<event, stage, stored, buffer, disk, done>>
    BY <1>8 DEF BeginStop, vars, pool, database
  <2>2. QED
    BY <2>1 DEF Records, Marked, InStage
<1>9. QED
  BY <1>1, <1>2, <1>3, <1>4, <1>5, <1>6, <1>7, <1>8
     DEF Next, Request, Worker, Take, AnswerDuplicate, AnswerFull, AnswerEnqueued

\* Only a delivery whose event is not recorded begins to be handled.
LEMMA BeginsUnrecorded ==
  ASSUME TypeOK, [Next]_vars, NEW t \in Deliveries,
         stage[t] # "handling", stage'[t] = "handling"
  PROVE  event[t] \in Events \ stored
<1>1. \E u \in Deliveries : stage[u] # "unsent" /\ Start(u)
  BY DEF Next, Request, AnswerDuplicate, AnswerFull, AnswerEnqueued, Deliver,
         Worker, Take, TakeAndStart, FirstQueued, InStage, TakeAndWait, ObtainStripe,
         Finish, Succeed, Fail, FailUnrecorded, Commit, LoseWrite, pool,
         Crash, StopAndStart, Reload, BeginStop, vars, TypeOK
<1>2. PICK u \in Deliveries : stage[u] # "unsent" /\ Start(u)
  BY <1>1
<1>3. \/ stage' = [stage EXCEPT ![u] = "skipped"]
      \/ event[u] \notin stored /\ stage' = [stage EXCEPT ![u] = "handling"]
      \/ stage' = [stage EXCEPT ![u] = "failed"]
  BY <1>2, StartFrame
<1>4. stage \in [Deliveries -> Stages]
  BY DEF TypeOK
<1>5. u = t /\ event[u] \notin stored
  BY <1>3, <1>4
<1>6. QED
  BY <1>2, <1>5, EventOfSent

\* No event is handled again once it was handled with success: not in the same
\* process, and not after a restart that finds its success on disk.
THEOREM HandledOnce == Spec => NoReplay
<1>1. Init => IInv
  BY InitType, InitOrder, InitRecords DEF IInv
<1>2. IInv /\ [Next]_vars => IInv'
  BY NextType, NextOrder, NextRecords DEF IInv
<1>3. IInv /\ [Next]_vars =>
        [\A t \in Deliveries :
           (stage[t] # "handling" /\ stage'[t] = "handling")
             => event[t] \notin done /\ disk[event[t]] # "processed"]_vars
  BY BeginsUnrecorded DEF IInv, Records, Marked
<1>4. QED
  BY <1>1, <1>2, <1>3, PTL DEF Spec, NoReplay

-----------------------------------------------------------------------------
(* Failures, crashes and restarts.                                         *)

Write(op, e) == [op |-> op, event |-> e]

\* e has a row, or will have one before the n-th write of the buffer is made.
Row(e, n) ==
  disk[e] # "absent" \/ \E j \in 1 .. Len(buffer) : j < n /\ buffer[j] = Write("insert", e)

\* No success is undone: no failure of the same event is written after it.
Final ==
  \A e \in Events :
    /\ disk[e] = "processed" => \A j \in 1 .. Len(buffer) : buffer[j] # Write("failed", e)
    /\ \A i, j \in 1 .. Len(buffer) :
         i < j /\ buffer[i] = Write("processed", e) => buffer[j] # Write("failed", e)

\* The sequence number of a row was seen by the process that wrote it.
Seen ==
  /\ \A e \in Events : disk[e] # "absent" => e <= lastSeq
  /\ \A i \in 1 .. Len(buffer) : buffer[i].op = "insert" => buffer[i].event <= lastSeq

\* What is recorded has a row, and so has all that is updated.
Rowed ==
  /\ \A e \in stored : Row(e, Len(buffer) + 1)
  /\ \A i \in 1 .. Len(buffer) : buffer[i].op # "insert" => Row(buffer[i].event, i)

\* A success is on disk or on its way there.
Lasting == \A e \in done : Marked(e)

\* An event is known only while it is under way, and after its success.
Known ==
  \A e \in Events :
    /\ e \in stored =>
         (\E t \in InStage("handling") : event[t] = e) \/ e \in done \/ disk[e] = "processed"
    /\ e \in accepted =>
         (\E t \in Pending : event[t] = e) \/ e \in done \/ disk[e] = "processed"

Recovery == Final /\ Seen /\ Accounted /\ (dbErrors = 0 => Rowed /\ Lasting /\ Known)

-----------------------------------------------------------------------------
(* What a step does to the records on disk and on their way there.         *)

Sequences == UNCHANGED <<lastSeq, observed, gaps, base>>
Quiet == UNCHANGED <<stored, buffer, disk, done>> /\ Sequences
Inserts(e) ==
  /\ buffer' = Append(buffer, Write("insert", e)) /\ stored' = stored \cup {e}
  /\ UNCHANGED <<disk, done>> /\ Observe(e)
  /\ gaps' = gaps \cup Skipped(e) \/ dbErrors' > 0
Succeeds(e) ==
  /\ buffer' = Append(buffer, Write("processed", e)) /\ done' = done \cup {e}
  /\ e \in stored /\ UNCHANGED <<disk, stored>> /\ Sequences
Fails(e) ==
  /\ buffer' = Append(buffer, Write("failed", e)) /\ stored' = stored \ {e}
  /\ e \in stored /\ ~Marked(e) /\ e \notin done
  /\ UNCHANGED <<disk, done>> /\ Sequences

LEMMA Effects ==
  ASSUME IInv, [Next]_vars
  PROVE  /\ dbErrors' = 0 => dbErrors = 0
         /\ \/ Quiet \/ (\E e \in Events : Inserts(e) \/ Succeeds(e) \/ Fails(e))
            \/ Commit \/ LoseWrite \/ Reload
<1>1. dbErrors \in Nat /\ dbErrors + 1 # 0
  BY DEF IInv, TypeOK
<1>2. CASE Request \/ BeginStop \/ UNCHANGED vars
  BY <1>2 DEF Request, AnswerDuplicate, AnswerFull, AnswerEnqueued, Deliver, BeginStop, vars,
     database, sequence, Quiet, Sequences
<1>3. ASSUME NEW t \in Deliveries, Worker(t)
      PROVE  /\ dbErrors' = 0 => dbErrors = 0
             /\ Quiet \/ \E e \in Events : Inserts(e) \/ Succeeds(e) \/ Fails(e)
  <2>1. stage[t] # "unsent" /\ event[t] \in Events
    BY <1>3, EventOfSent DEF IInv, Worker, Take, TakeAndStart, TakeAndWait, FirstQueued, InStage,
       ObtainStripe, Finish, Succeed, Fail, FailUnrecorded
  <2>2. CASE TakeAndWait(t) \/ SkipRecorded(t)
    BY <2>2 DEF TakeAndWait, SkipRecorded, database, sequence, process, Quiet, Sequences
  <2>3. CASE FailUnrecorded(t)
    BY <1>1, <2>3 DEF FailUnrecorded, database, sequence, Quiet, Sequences
  <2>4. CASE BeginHandling(t)
    <3>1. Inserts(event[t]) /\ dbErrors' = dbErrors
      BY <2>4 DEF BeginHandling, RecordEvent, process, Inserts, Write
    <3>2. QED
      BY <2>1, <3>1
  <2>5. CASE GapNotLogged(t)
    <3>1. dbErrors' > 0 /\ dbErrors' # 0
      BY <1>1, <2>5 DEF GapNotLogged
    <3>2. Inserts(event[t])
      BY <2>5, <3>1 DEF GapNotLogged, RecordEvent, Inserts, Write
    <3>3. QED
      BY <2>1, <3>1, <3>2
  <2>6. CASE Succeed(t) \/ Fail(t)
    <3>1. stage[t] = "handling" /\ dbErrors' = dbErrors
      BY <2>6 DEF Succeed, Fail, process
    <3>2. event[t] \in stored /\ ~Marked(event[t]) /\ event[t] \notin done
      BY <2>1, <3>1 DEF IInv, Records, InStage
    <3>3. Succeeds(event[t]) \/ Fails(event[t])
      BY <2>6, <3>2 DEF Succeed, Fail, Succeeds, Fails, sequence, process, Write, Sequences
    <3>4. QED
      BY <2>1, <3>1, <3>3
  <2>7. QED
    BY <1>3, <2>2, <2>3, <2>4, <2>5, <2>6
       DEF Worker, Take, TakeAndStart, ObtainStripe, Start, Finish
<1>4. CASE Commit \/ LoseWrite
  BY <1>1, <1>4 DEF Commit, LoseWrite, process
<1>5. CASE Crash \/ StopAndStart
  BY <1>5 DEF Crash, StopAndStart, Reload
<1>6. QED
  BY <1>2, <1>3, <1>4, <1>5 DEF Next

\* The buffer after a write is added to it, and after its oldest is taken.
LEMMA AppendFacts ==
  ASSUME TypeOK, NEW w \in Writes, buffer' = Append(buffer, w)
  PROVE  /\ Len(buffer) \in Nat /\ Len(buffer') = Len(buffer) + 1
         /\ \A i \in 1 .. Len(buffer) : buffer'[i] = buffer[i] /\ i \in 1 .. Len(buffer')
         /\ buffer'[Len(buffer) + 1] = w
         /\ \A i \in 1 .. Len(buffer') : i \in 1 .. Len(buffer) \/ i = Len(buffer) + 1
BY DEF TypeOK

LEMMA TailFacts ==
  ASSUME TypeOK, buffer # <<>>, buffer' = Tail(buffer)
  PROVE  /\ Len(buffer) \in Nat \ {0} /\ Len(buffer') = Len(buffer) - 1
         /\ \A i \in 1 .. Len(buffer') : buffer'[i] = buffer[i + 1] /\ i + 1 \in 1 .. Len(buffer)
         /\ 1 \in 1 .. Len(buffer) /\ Head(buffer) = buffer[1] /\ buffer[1] \in Writes
BY DEF TypeOK

LEMMA WriteFacts ==
  ASSUME NEW op \in {"insert", "processed", "failed"}, NEW e \in Events
  PROVE  /\ Write(op, e) \in Writes /\ Write(op, e).op = op /\ Write(op, e).event = e
         /\ \A op2, e2 : Write(op, e) = Write(op2, e2) => op = op2 /\ e = e2
<1>1. Write(op, e) \in Writes /\ Write(op, e).op = op /\ Write(op, e).event = e
  BY DEF Write, Writes
<1>2. \A op2, e2 : Write(op2, e2).op = op2 /\ Write(op2, e2).event = e2
  BY DEF Write
<1>3. QED
  BY <1>1, <1>2

\* A commit makes the oldest write, which alone changes a row.
LEMMA CommitFacts ==
  ASSUME TypeOK, Commit, NEW e \in Events
  PROVE  /\ disk[e] # "absent" => disk'[e] # "absent"
         /\ disk'[e] # disk[e] =>
              \/ disk[e] = "absent" /\ buffer[1] = Write("insert", e) /\ disk'[e] = "stored"
              \/ disk[e] # "absent" /\ buffer[1] = Write("processed", e) /\ disk'[e] = "processed"
              \/ disk[e] # "absent" /\ buffer[1] = Write("failed", e) /\ disk'[e] = "stored"
         /\ buffer[1] = Write("insert", e) => disk'[e] # "absent"
         /\ buffer[1] = Write("processed", e) /\ disk[e] # "absent" => disk'[e] = "processed"
<1>1. /\ buffer # <<>> /\ buffer' = Tail(buffer)
      /\ disk' = [disk EXCEPT ![Head(buffer).event] = RowAfter(Head(buffer))]
  BY DEF Commit
<1>2. Head(buffer) = buffer[1] /\ buffer[1] \in Writes
  BY <1>1, TailFacts
<1>3. disk \in [Events -> Rows]
  BY DEF TypeOK
<1> DEFINE w == buffer[1]
<1>4. w.op \in {"insert", "processed", "failed"} /\ w.event \in Events /\ w = Write(w.op, w.event)
  BY <1>2 DEF Writes, Write
<1>5. disk'[e] = IF e = w.event THEN RowAfter(w) ELSE disk[e]
  BY <1>1, <1>2, <1>3, <1>4
<1>6. /\ w.op = "insert" => RowAfter(w) = IF disk[w.event] = "absent" THEN "stored" ELSE disk[w.event]
      /\ w.op = "processed" => RowAfter(w) = IF disk[w.event] = "absent" THEN "absent" ELSE "processed"
      /\ w.op = "failed" => RowAfter(w) = IF disk[w.event] = "absent" THEN "absent" ELSE "stored"
  BY <1>4 DEF RowAfter
<1>7. \A op : w = Write(op, e) => op = w.op /\ e = w.event
  BY <1>4 DEF Write
<1> HIDE DEF w
<1>8. /\ disk[e] # "absent" => disk'[e] # "absent"
      /\ disk'[e] # disk[e] =>
              \/ disk[e] = "absent" /\ w = Write("insert", e) /\ disk'[e] = "stored"
              \/ disk[e] # "absent" /\ w = Write("processed", e) /\ disk'[e] = "processed"
              \/ disk[e] # "absent" /\ w = Write("failed", e) /\ disk'[e] = "stored"
      /\ w = Write("insert", e) => disk'[e] # "absent"
      /\ w = Write("processed", e) /\ disk[e] # "absent" => disk'[e] = "processed"
  BY <1>4, <1>5, <1>6, <1>7
<1>9. QED
  BY <1>8 DEF w

-----------------------------------------------------------------------------
(* The invariant, part by part.                                            *)

LEMMA EffectsFinal ==
  ASSUME TypeOK, Final,
         \/ Quiet \/ (\E e \in Events : Inserts(e) \/ Succeeds(e) \/ Fails(e))
         \/ Commit \/ LoseWrite \/ Reload
  PROVE  Final'
<1>1. CASE Quiet
  BY <1>1 DEF Quiet, Final
<1>2. ASSUME NEW d \in Events, Inserts(d) \/ Succeeds(d) \/ Fails(d)
      PROVE  Final'
  <2> PICK w \in Writes : /\ buffer' = Append(buffer, w) /\ disk' = disk
                          /\ \A e : w = Write("failed", e) => e \in Events /\ ~Marked(e)
    BY <1>2, WriteFacts DEF Inserts, Succeeds, Fails
  <2>1. /\ Len(buffer) \in Nat /\ Len(buffer') = Len(buffer) + 1
        /\ \A i \in 1 .. Len(buffer) : buffer'[i] = buffer[i] /\ i \in 1 .. Len(buffer')
        /\ buffer'[Len(buffer) + 1] = w
        /\ \A i \in 1 .. Len(buffer') : i \in 1 .. Len(buffer) \/ i = Len(buffer) + 1
    BY AppendFacts
  <2>2. ASSUME NEW e \in Events, w = Write("failed", e)
        PROVE  /\ disk[e] # "processed"
               /\ \A i \in 1 .. Len(buffer) : buffer[i] # Write("processed", e)
    BY <2>2 DEF Marked, Write
  <2>3. ASSUME NEW e \in Events, disk'[e] = "processed", NEW j \in 1 .. Len(buffer')
        PROVE  buffer'[j] # Write("failed", e)
    BY <2>1, <2>2, <2>3 DEF Final
  <2>4. ASSUME NEW e \in Events, NEW i \in 1 .. Len(buffer'), NEW j \in 1 .. Len(buffer'),
               i < j, buffer'[i] = Write("processed", e)
        PROVE  buffer'[j] # Write("failed", e)
    <3>1. i \in 1 .. Len(buffer)
      BY <2>1, <2>4
    <3>2. QED
      BY <2>1, <2>2, <2>4, <3>1 DEF Final
  <2>5. QED
    BY <2>3, <2>4 DEF Final
<1>3. CASE Commit \/ LoseWrite
  <2>1. buffer # <<>> /\ buffer' = Tail(buffer)
    BY <1>3 DEF Commit, LoseWrite
  <2>2. /\ Len(buffer) \in Nat \ {0} /\ Len(buffer') = Len(buffer) - 1
        /\ \A i \in 1 .. Len(buffer') : buffer'[i] = buffer[i + 1] /\ i + 1 \in 1 .. Len(buffer)
        /\ 1 \in 1 .. Len(buffer)
    BY <2>1, TailFacts
  <2>3. ASSUME NEW e \in Events, disk'[e] = "processed"
        PROVE  disk[e] = "processed" \/ buffer[1] = Write("processed", e)
    BY <1>3, <2>3, CommitFacts DEF LoseWrite
  <2>4. ASSUME NEW e \in Events, disk'[e] = "processed", NEW j \in 1 .. Len(buffer')
        PROVE  buffer'[j] # Write("failed", e)
    <3>1. buffer'[j] = buffer[j + 1] /\ j + 1 \in 1 .. Len(buffer) /\ 1 < j + 1
      BY <2>2
    <3>2. CASE disk[e] = "processed"
      BY <3>1, <3>2 DEF Final
    <3>3. CASE buffer[1] = Write("processed", e)
      BY <2>2, <3>1, <3>3 DEF Final
    <3>4. QED
      BY <2>3, <2>4, <3>2, <3>3
  <2>5. ASSUME NEW e \in Events, NEW i \in 1 .. Len(buffer'), NEW j \in 1 .. Len(buffer'),
               i < j, buffer'[i] = Write("processed", e)
        PROVE  buffer'[j] # Write("failed", e)
    BY <2>2, <2>5 DEF Final
  <2>6. QED
    BY <2>4, <2>5 DEF Final
<1>4. CASE Reload
  <2>1. Len(buffer') = 0
    BY <1>4 DEF Reload
  <2>2. QED
    BY <2>1 DEF Final
<1>5. QED
  BY <1>1, <1>2, <1>3, <1>4

LEMMA EffectsSeen ==
  ASSUME TypeOK, Seen,
         \/ Quiet \/ (\E e \in Events : Inserts(e) \/ Succeeds(e) \/ Fails(e))
         \/ Commit \/ LoseWrite \/ Reload
  PROVE  Seen'
<1> lastSeq \in Nat /\ Events \subseteq Nat \ {0}
  BY DEF TypeOK
<1>1. CASE Quiet
  BY <1>1 DEF Quiet, Sequences, Seen
<1>2. ASSUME NEW d \in Events, Inserts(d) \/ Succeeds(d) \/ Fails(d)
      PROVE  Seen'
  <2>1. d \in Nat /\ lastSeq' \in Nat /\ lastSeq <= lastSeq' /\ (Inserts(d) => d <= lastSeq')
    BY <1>2 DEF Inserts, Succeeds, Fails, Observe, Sequences
  <2>2. PICK w \in Writes : /\ buffer' = Append(buffer, w) /\ disk' = disk
                            /\ w.op = "insert" => w.event <= lastSeq'
    BY <1>2, <2>1, WriteFacts DEF Inserts, Succeeds, Fails
  <2>3. /\ Len(buffer) \in Nat /\ Len(buffer') = Len(buffer) + 1
        /\ \A i \in 1 .. Len(buffer) : buffer'[i] = buffer[i] /\ i \in 1 .. Len(buffer')
        /\ buffer'[Len(buffer) + 1] = w
        /\ \A i \in 1 .. Len(buffer') : i \in 1 .. Len(buffer) \/ i = Len(buffer) + 1
    BY <2>2, AppendFacts
  <2>4. \A e \in Events : disk'[e] # "absent" => e <= lastSeq'
    BY <2>1, <2>2 DEF Seen
  <2>5. ASSUME NEW i \in 1 .. Len(buffer'), buffer'[i].op = "insert"
        PROVE  buffer'[i].event <= lastSeq'
    <3>1. CASE i \in 1 .. Len(buffer)
      <4>1. buffer[i] \in Writes
        BY <3>1 DEF TypeOK
      <4>2. buffer[i].event <= lastSeq /\ buffer[i].event \in Nat
        BY <2>3, <2>5, <3>1, <4>1 DEF Seen, Writes
      <4>3. QED
        BY <2>1, <2>3, <3>1, <4>2
    <3>2. QED
      BY <2>2, <2>3, <2>5, <3>1
  <2>6. QED
    BY <2>4, <2>5 DEF Seen
<1>3. CASE Commit \/ LoseWrite
  <2>1. buffer # <<>> /\ buffer' = Tail(buffer) /\ lastSeq' = lastSeq
    BY <1>3 DEF Commit, LoseWrite, sequence
  <2>2. /\ \A i \in 1 .. Len(buffer') : buffer'[i] = buffer[i + 1] /\ i + 1 \in 1 .. Len(buffer)
        /\ 1 \in 1 .. Len(buffer)
    BY <2>1, TailFacts
  <2>3. ASSUME NEW e \in Events, disk'[e] # "absent"
        PROVE  e <= lastSeq'
    <3>1. CASE disk[e] # "absent"
      BY <2>1, <3>1 DEF Seen
    <3>2. CASE disk[e] = "absent"
      <4>1. buffer[1] = Write("insert", e)
        BY <1>3, <2>3, <3>2, CommitFacts DEF LoseWrite
      <4>2. buffer[1].op = "insert" /\ buffer[1].event = e
        BY <4>1, WriteFacts
      <4>3. QED
        BY <2>1, <2>2, <4>2 DEF Seen
    <3>3. QED
      BY <3>1, <3>2
  <2>4. QED
    BY <2>1, <2>2, <2>3 DEF Seen
<1>4. CASE Reload
  <2>1. Len(buffer') = 0 /\ \A e \in Events : disk'[e] # "absent" => e <= lastSeq'
    BY <1>4 DEF Reload, OnDisk
  <2>2. QED
    BY <2>1 DEF Seen
<1>5. QED
  BY <1>1, <1>2, <1>3, <1>4

LEMMA EffectsAccounted ==
  ASSUME TypeOK, Seen, Accounted, dbErrors' = 0 => dbErrors = 0,
         \/ Quiet \/ (\E e \in Events : Inserts(e) \/ Succeeds(e) \/ Fails(e))
         \/ Commit \/ LoseWrite \/ Reload
  PROVE  Accounted'
<1> SUFFICES ASSUME dbErrors' = 0, NEW n \in (base .. lastSeq)', n # 0
             PROVE  (n \in observed \cup gaps)'
  BY DEF Accounted
<1> dbErrors = 0 /\ lastSeq \in Nat /\ base \in Nat /\ Events \subseteq Nat \ {0}
  BY DEF TypeOK
<1>1. CASE Sequences
  BY <1>1 DEF Sequences, Accounted
<1>2. ASSUME NEW d \in Events, Inserts(d)
      PROVE  (n \in observed \cup gaps)'
  <2>1. d \in Nat /\ Observe(d) /\ gaps' = gaps \cup Skipped(d)
    BY <1>2 DEF Inserts
  <2>2. CASE lastSeq = 0
    BY <2>1, <2>2 DEF Observe
  <2>3. CASE lastSeq # 0
    <3>1. base' = base /\ observed' = observed \cup {d}
      BY <2>1, <2>3 DEF Observe
    <3>2. CASE n \in base .. lastSeq
      BY <2>1, <3>1, <3>2 DEF Accounted
    <3>3. CASE n \in lastSeq + 1 .. d - 1
      BY <2>1, <2>3, <3>3 DEF Skipped
    <3>4. n \in base .. lastSeq \/ n \in lastSeq + 1 .. d - 1 \/ n = d
      BY <2>1, <3>1 DEF Observe
    <3>5. QED
      BY <3>1, <3>2, <3>3, <3>4
  <2>4. QED
    BY <2>2, <2>3
<1>3. CASE Reload
  <2>1. lastSeq' \in OnDisk \cup {0} /\ base' = (IF OnDisk = {} THEN 0 ELSE base)
        /\ UNCHANGED <<observed, gaps>>
    BY <1>3 DEF Reload
  <2>2. CASE OnDisk = {}
    BY <2>1, <2>2
  <2>3. CASE OnDisk # {}
    <3>1. lastSeq' \in Nat /\ lastSeq' <= lastSeq
      <4>1. \A e \in OnDisk : e \in Nat /\ e <= lastSeq
        BY DEF Seen, OnDisk
      <4>2. QED
        BY <2>1, <4>1
    <3>2. QED
      BY <2>1, <2>3, <3>1 DEF Accounted
  <2>4. QED
    BY <2>2, <2>3
<1>4. CASE Commit \/ LoseWrite
  BY <1>1, <1>4 DEF Commit, LoseWrite, sequence, Sequences
<1>5. QED
  BY <1>1, <1>2, <1>3, <1>4 DEF Quiet, Succeeds, Fails

\* A write that is made next to the others changes no row before it, and one that is
\* made is a row.
LEMMA RowStays ==
  ASSUME TypeOK, NEW e \in Events
  PROVE  /\ \A w \in Writes, n \in 1 .. Len(buffer) + 1 :
              buffer' = Append(buffer, w) /\ disk' = disk /\ Row(e, n) => Row(e, n)'
         /\ \A n \in Nat : Commit /\ Row(e, n + 1) => Row(e, n)'
<1>1. ASSUME NEW w \in Writes, NEW n \in 1 .. Len(buffer) + 1,
             buffer' = Append(buffer, w), disk' = disk, Row(e, n)
      PROVE  Row(e, n)'
  BY <1>1, AppendFacts DEF Row
<1>2. ASSUME NEW n \in Nat, Commit, Row(e, n + 1)
      PROVE  Row(e, n)'
  <2>1. /\ Len(buffer) \in Nat \ {0} /\ Len(buffer') = Len(buffer) - 1
        /\ \A i \in 1 .. Len(buffer') : buffer'[i] = buffer[i + 1]
    BY <1>2, TailFacts DEF Commit
  <2>2. CASE disk[e] # "absent"
    BY <1>2, <2>2, CommitFacts DEF Row
  <2>3. ASSUME NEW j \in 1 .. Len(buffer), j < n + 1, buffer[j] = Write("insert", e)
        PROVE  Row(e, n)'
    <3>1. CASE j = 1
      BY <1>2, <2>3, <3>1, CommitFacts DEF Row
    <3>2. CASE j # 1
      <4>1. j - 1 \in 1 .. Len(buffer') /\ j - 1 < n /\ (j - 1) + 1 = j
        BY <2>1, <2>3, <3>2
      <4>2. buffer'[j - 1] = Write("insert", e)
        BY <2>1, <2>3, <4>1
      <4>3. QED
        BY <4>1, <4>2 DEF Row
    <3>3. QED
      BY <3>1, <3>2
  <2>4. QED
    BY <1>2, <2>2, <2>3 DEF Row
<1>3. QED
  BY <1>1, <1>2

LEMMA EffectsRowed ==
  ASSUME TypeOK, Rowed,
         Quiet \/ (\E e \in Events : Inserts(e) \/ Succeeds(e) \/ Fails(e)) \/ Commit \/ Reload
  PROVE  Rowed'
<1>0. stored \subseteq Events /\ \A i \in 1 .. Len(buffer) : buffer[i].event \in Events
  <2>1. stored \subseteq Events /\ \A i \in 1 .. Len(buffer) : buffer[i] \in Writes
    BY DEF TypeOK
  <2>2. QED
    BY <2>1 DEF Writes
<1>1. CASE Quiet
  BY <1>1 DEF Quiet, Rowed, Row
<1>2. ASSUME NEW d \in Events, Inserts(d) \/ Succeeds(d) \/ Fails(d)
      PROVE  Rowed'
  <2>1. PICK w \in Writes : /\ buffer' = Append(buffer, w) /\ disk' = disk /\ w.event = d
                            /\ w.op # "insert" => d \in stored
                            /\ stored' \subseteq stored \cup {d}
                            /\ d \in stored' \ stored => w = Write("insert", d)
    BY <1>2, WriteFacts DEF Inserts, Succeeds, Fails
  <2>2. /\ Len(buffer) \in Nat /\ Len(buffer') = Len(buffer) + 1
        /\ \A i \in 1 .. Len(buffer) : buffer'[i] = buffer[i] /\ i \in 1 .. Len(buffer')
        /\ buffer'[Len(buffer) + 1] = w
        /\ \A i \in 1 .. Len(buffer') : i \in 1 .. Len(buffer) \/ i = Len(buffer) + 1
    BY <2>1, AppendFacts
  <2>3. ASSUME NEW e \in Events, NEW n \in 1 .. Len(buffer) + 1, Row(e, n)
        PROVE  Row(e, n)'
    BY <2>1, <2>3, RowStays
  <2>4. ASSUME NEW e \in stored', NEW n, n = Len(buffer')  + 1
        PROVE  Row(e, n)'
    <3>1. CASE e \in stored
      <4>1. PICK m \in 1 .. Len(buffer) + 1 : m = Len(buffer) + 1
        BY <2>2
      <4>2. Row(e, m)'
        BY <1>0, <2>3, <3>1, <4>1 DEF Rowed
      <4>3. QED
        BY <2>2, <2>4, <4>1, <4>2 DEF Row
    <3>2. CASE e \notin stored
      <4>1. buffer'[Len(buffer) + 1] = Write("insert", e)
        BY <2>1, <2>2, <2>4, <3>2
      <4>2. QED
        BY <2>2, <2>4, <4>1 DEF Row
    <3>3. QED
      BY <3>1, <3>2
  <2>5. ASSUME NEW i \in 1 .. Len(buffer'), NEW e, buffer'[i].op # "insert", e = buffer'[i].event
        PROVE  Row(e, i)'
    <3>1. CASE i \in 1 .. Len(buffer)
      <4>1. e = buffer[i].event /\ Row(buffer[i].event, i) /\ i \in 1 .. Len(buffer) + 1
        BY <2>2, <2>5, <3>1 DEF Rowed
      <4>2. QED
        BY <1>0, <2>3, <3>1, <4>1
    <3>2. CASE i = Len(buffer) + 1
      <4>1. e = d /\ Row(d, i) /\ i \in 1 .. Len(buffer) + 1
        BY <2>1, <2>2, <2>5, <3>2 DEF Rowed
      <4>2. QED
        BY <2>3, <4>1
    <3>3. QED
      BY <2>2, <3>1, <3>2
  <2>6. QED
    BY <2>4, <2>5 DEF Rowed
<1>3. CASE Commit
  <2>1. /\ Len(buffer) \in Nat \ {0} /\ Len(buffer') = Len(buffer) - 1
        /\ \A i \in 1 .. Len(buffer') : buffer'[i] = buffer[i + 1] /\ i + 1 \in 1 .. Len(buffer)
    BY <1>3, TailFacts DEF Commit
  <2>2. stored' = stored
    BY <1>3 DEF Commit
  <2>3. ASSUME NEW e \in stored', NEW n, n = Len(buffer') + 1
        PROVE  Row(e, n)'
    <3>1. n \in Nat /\ n + 1 = Len(buffer) + 1
      BY <2>1, <2>3
    <3>2. e \in Events /\ Row(e, n + 1)
      BY <1>0, <2>2, <2>3, <3>1 DEF Rowed
    <3>3. QED
      BY <1>3, <3>1, <3>2, RowStays
  <2>4. ASSUME NEW i \in 1 .. Len(buffer'), NEW e, buffer'[i].op # "insert", e = buffer'[i].event
        PROVE  Row(e, i)'
    <3>1. buffer'[i] = buffer[i + 1] /\ i \in Nat /\ i + 1 \in 1 .. Len(buffer)
      BY <2>1
    <3>2. e \in Events /\ Row(e, i + 1)
      BY <1>0, <2>4, <3>1 DEF Rowed
    <3>3. QED
      BY <1>3, <3>1, <3>2, RowStays
  <2>5. QED
    BY <2>3, <2>4 DEF Rowed
<1>4. CASE Reload
  <2>1. Len(buffer') = 0 /\ \A e \in stored' : disk'[e] # "absent"
    BY <1>4 DEF Reload, Processed
  <2>2. QED
    BY <2>1 DEF Rowed, Row
<1>5. QED
  BY <1>1, <1>2, <1>3, <1>4

\* A success that is on disk stays there.
LEMMA EffectsProcessed ==
  ASSUME TypeOK, Final, NEW e \in Events, disk[e] = "processed",
         \/ Quiet \/ (\E d \in Events : Inserts(d) \/ Succeeds(d) \/ Fails(d))
         \/ Commit \/ LoseWrite \/ Reload
  PROVE  disk'[e] = "processed"
<1>1. CASE Commit
  <2>1. 1 \in 1 .. Len(buffer)
    BY <1>1, TailFacts DEF Commit
  <2>2. buffer[1] # Write("failed", e)
    BY <2>1 DEF Final
  <2>3. disk'[e] # disk[e] => disk'[e] = "processed"
    BY <1>1, <2>2, CommitFacts
  <2>4. QED
    BY <2>3
<1>2. QED
  BY <1>1 DEF Quiet, Inserts, Succeeds, Fails, LoseWrite, Reload

LEMMA EffectsLasting ==
  ASSUME TypeOK, Final, Rowed, Lasting,
         Quiet \/ (\E e \in Events : Inserts(e) \/ Succeeds(e) \/ Fails(e)) \/ Commit \/ Reload
  PROVE  Lasting'
<1> done \subseteq Events
  BY DEF TypeOK
<1>1. CASE Quiet
  BY <1>1 DEF Quiet, Lasting, Marked
<1>2. ASSUME NEW d \in Events, Inserts(d) \/ Succeeds(d) \/ Fails(d)
      PROVE  Lasting'
  <2>1. PICK w \in Writes : /\ buffer' = Append(buffer, w) /\ disk' = disk
                            /\ done' \subseteq done \cup {d}
                            /\ d \in done' \ done => w = Write("processed", d)
    BY <1>2, WriteFacts DEF Inserts, Succeeds, Fails
  <2>2. /\ Len(buffer) \in Nat /\ Len(buffer') = Len(buffer) + 1
        /\ \A i \in 1 .. Len(buffer) : buffer'[i] = buffer[i] /\ i \in 1 .. Len(buffer')
        /\ buffer'[Len(buffer) + 1] = w
    BY <2>1, AppendFacts
  <2>3. ASSUME NEW e \in done'
        PROVE  Marked(e)'
    <3>1. CASE e \in done
      <4>1. Marked(e)
        BY <3>1 DEF Lasting
      <4>2. QED
        BY <2>1, <2>2, <4>1 DEF Marked
    <3>2. CASE e \notin done
      BY <2>1, <2>2, <2>3, <3>2 DEF Marked, Write
    <3>3. QED
      BY <3>1, <3>2
  <2>4. QED
    BY <2>3 DEF Lasting
<1>3. CASE Commit
  <2>1. /\ Len(buffer) \in Nat \ {0} /\ Len(buffer') = Len(buffer) - 1
        /\ \A i \in 1 .. Len(buffer') : buffer'[i] = buffer[i + 1] /\ i + 1 \in 1 .. Len(buffer)
        /\ 1 \in 1 .. Len(buffer)
    BY <1>3, TailFacts DEF Commit
  <2>2. ASSUME NEW e \in done
        PROVE  Marked(e)'
    <3>1. CASE disk[e] = "processed"
      BY <1>3, <3>1, EffectsProcessed DEF Marked
    <3>2. ASSUME NEW i \in 1 .. Len(buffer), buffer[i] = Write("processed", e)
          PROVE  Marked(e)'
      <4>1. CASE i = 1
        <5>1. buffer[1].op # "insert" /\ buffer[1].event = e
          BY <3>2, <4>1, WriteFacts
        <5>2. Row(e, 1)
          BY <2>1, <5>1 DEF Rowed
        <5>3. disk[e] # "absent"
          BY <5>2 DEF Row
        <5>4. QED
          BY <1>3, <3>2, <4>1, <5>3, CommitFacts DEF Marked
      <4>2. CASE i # 1
        <5>1. i - 1 \in 1 .. Len(buffer') /\ (i - 1) + 1 = i
          BY <2>1, <4>2
        <5>2. buffer'[i - 1] = Write("processed", e)
          BY <2>1, <3>2, <5>1
        <5>3. QED
          BY <5>1, <5>2 DEF Marked, Write
      <4>3. QED
        BY <4>1, <4>2
    <3>3. QED
      BY <3>1, <3>2 DEF Lasting, Marked, Write
  <2>3. done' = done
    BY <1>3 DEF Commit, process
  <2>4. QED
    BY <2>2, <2>3 DEF Lasting
<1>4. CASE Reload
  BY <1>4 DEF Reload, Lasting
<1>5. QED
  BY <1>1, <1>2, <1>3, <1>4

\* What happens to the deliveries under way, and to the two records of known events.
LEMMA NextKnown ==
  ASSUME IInv, Final, Known, [Next]_vars, dbErrors' = 0
  PROVE  Known'
<1>1. TypeOK /\ dbErrors \in Nat /\ dbErrors + 1 # 0
  BY DEF IInv, TypeOK
<1>2. \A e \in Events : disk[e] = "processed" => disk'[e] = "processed"
  BY <1>1, Effects, EffectsProcessed
<1>3. stage \in [Deliveries -> Stages] /\ event \in [Deliveries -> Events \cup {NoEvent}]
  BY <1>1 DEF TypeOK
<1>4. ASSUME NEW d \in Events, AnswerDuplicate(d) \/ AnswerFull(d) \/ AnswerEnqueued(d)
      PROVE  Known'
  <2>1. PICK s \in {"duplicate", "full", "queued"} :
          Deliver(d, s) /\ accepted' \subseteq accepted \cup (IF s = "queued" THEN {d} ELSE {})
    BY <1>4 DEF AnswerDuplicate, AnswerFull, AnswerEnqueued
  <2>2. last + 1 \in Deliveries /\ stage[last + 1] = "unsent"
    BY <1>1, <2>1 DEF Deliver, TypeOK, Deliveries
  <2>3. /\ stage'[last + 1] = s /\ event'[last + 1] = d
        /\ \A t \in Deliveries \ {last + 1} : stage'[t] = stage[t] /\ event'[t] = event[t]
    BY <1>3, <2>1, <2>2 DEF Deliver
  <2>4. /\ \A t \in InStage("handling") : t \in InStage("handling")' /\ event'[t] = event[t]
        /\ \A t \in Pending : t \in Pending' /\ event'[t] = event[t]
        /\ s = "queued" => last + 1 \in Pending'
    BY <2>2, <2>3 DEF Pending, Busy, InStage
  <2>5. UNCHANGED <<stored, done>>
    BY <2>1 DEF Deliver, database
  <2>6. QED
    BY <1>2, <2>1, <2>3, <2>4, <2>5 DEF Known
<1>5. ASSUME NEW t \in Deliveries, TakeAndWait(t)
      PROVE  Known'
  <2>1. /\ stage[t] = "queued" /\ stage' = [stage EXCEPT ![t] = "waiting"]
        /\ UNCHANGED <<event, accepted, stored, done>>
    BY <1>5 DEF TakeAndWait, FirstQueued, InStage, database, process
  <2>2. InStage("handling")' = InStage("handling") /\ Pending' = Pending
    BY <1>3, <2>1 DEF Pending, Busy, InStage
  <2>3. QED
    BY <1>2, <2>1, <2>2 DEF Known
<1>6. ASSUME NEW t \in Deliveries, stage[t] \in {"queued", "waiting"}, Start(t)
      PROVE  Known'
  <2>1. CASE SkipRecorded(t)
    <3>1. /\ stage' = [stage EXCEPT ![t] = "skipped"] /\ event[t] \in stored
          /\ UNCHANGED <<event, accepted, stored, done>>
      BY <2>1 DEF SkipRecorded, database, process
    <3>2. InStage("handling")' = InStage("handling") /\ Pending' = Pending \ {t}
      BY <1>3, <1>6, <3>1 DEF Pending, Busy, InStage
    <3>3. \A u \in InStage("handling") : u # t /\ u \in Pending
      BY <1>6 DEF Pending, Busy, InStage
    <3>4. QED
      BY <1>2, <3>1, <3>2, <3>3 DEF Known
  <2>2. CASE BeginHandling(t)
    <3>1. /\ stage' = [stage EXCEPT ![t] = "handling"] /\ stored' = stored \cup {event[t]}
          /\ UNCHANGED <<event, accepted, done>>
      BY <2>2 DEF BeginHandling, RecordEvent, process
    <3>2. InStage("handling")' = InStage("handling") \cup {t} /\ Pending' = Pending
      BY <1>3, <1>6, <3>1 DEF Pending, Busy, InStage
    <3>3. QED
      BY <1>2, <3>1, <3>2 DEF Known
  <2>3. CASE GapNotLogged(t)
    BY <1>1, <2>3 DEF GapNotLogged
  <2>4. QED
    BY <1>6, <2>1, <2>2, <2>3 DEF Start
<1>7. ASSUME NEW t \in Deliveries, Finish(t)
      PROVE  Known'
  <2>1. /\ stage[t] = "handling" /\ event' = event
        /\ \E s \in {"handled", "failed"} : stage' = [stage EXCEPT ![t] = s]
    BY <1>7 DEF Finish, Succeed, Fail, FailUnrecorded
  <2>2. InStage("handling")' = InStage("handling") \ {t} /\ Pending' = Pending \ {t}
    BY <1>3, <2>1 DEF Pending, Busy, InStage
  <2>3. CASE Succeed(t)
    <3>1. done' = done \cup {event[t]} /\ UNCHANGED <<accepted, stored>>
      BY <2>3 DEF Succeed
    <3>2. QED
      BY <1>2, <2>1, <2>2, <3>1 DEF Known
  <2>4. CASE Fail(t)
    <3>1. stored' = stored \ {event[t]} /\ accepted' = accepted \ {event[t]} /\ done' = done
      BY <2>4 DEF Fail, process
    <3>2. QED
      BY <1>2, <2>1, <2>2, <3>1 DEF Known
  <2>5. CASE FailUnrecorded(t)
    BY <1>1, <2>5 DEF FailUnrecorded
  <2>6. QED
    BY <1>7, <2>3, <2>4, <2>5 DEF Finish
<1>8. CASE Commit \/ LoseWrite \/ BeginStop \/ UNCHANGED vars
  <2>1. UNCHANGED <<event, stage, accepted, stored, done>>
    BY <1>8 DEF Commit, LoseWrite, BeginStop, vars, pool, database, process
  <2>2. QED
    BY <1>2, <2>1 DEF Known, Pending, Busy, InStage
<1>9. CASE Crash \/ StopAndStart
  BY <1>9 DEF Crash, StopAndStart, Reload, Processed, Known
<1>10. QED
  BY <1>4, <1>5, <1>6, <1>7, <1>8, <1>9 DEF Next, Request, Worker, Take, TakeAndStart,
     ObtainStripe, FirstQueued, InStage

-----------------------------------------------------------------------------
(* The theorems.                                                           *)

LEMMA InitRecovery == Init => Recovery
<1> SUFFICES ASSUME Init PROVE Recovery
  OBVIOUS
<1>1. /\ Len(buffer) = 0 /\ stored = {} /\ accepted = {} /\ done = {} /\ base = 0 /\ lastSeq = 0
      /\ \A e \in Events : disk[e] = "absent"
  BY DEF Init
<1>2. QED
  BY <1>1 DEF Recovery, Final, Seen, Accounted, Rowed, Lasting, Known

LEMMA NextRecovery == IInv /\ Recovery /\ [Next]_vars => Recovery'
<1> SUFFICES ASSUME IInv, Recovery, [Next]_vars PROVE Recovery'
  OBVIOUS
<1>1. /\ dbErrors' = 0 => dbErrors = 0
      /\ \/ Quiet \/ (\E e \in Events : Inserts(e) \/ Succeeds(e) \/ Fails(e))
         \/ Commit \/ LoseWrite \/ Reload
  BY Effects
<1>2. TypeOK /\ Final /\ Seen /\ Accounted
  BY DEF IInv, Recovery
<1>3. Final' /\ Seen' /\ Accounted'
  BY <1>1, <1>2, EffectsFinal, EffectsSeen, EffectsAccounted
<1>4. ASSUME dbErrors' = 0
      PROVE  Rowed' /\ Lasting' /\ Known'
  <2>1. Rowed /\ Lasting /\ Known
    BY <1>1, <1>4 DEF Recovery
  <2>2. ~LoseWrite
    BY <1>2, <1>4 DEF LoseWrite, TypeOK
  <2>3. QED
    BY <1>1, <1>2, <1>4, <2>1, <2>2, EffectsRowed, EffectsLasting, NextKnown
<1>5. QED
  BY <1>3, <1>4 DEF Recovery

LEMMA RecoveryInvariant == Spec => [](IInv /\ Recovery)
<1>1. Init => IInv /\ Recovery
  BY InitType, InitOrder, InitRecords, InitRecovery DEF IInv
<1>2. IInv /\ Recovery /\ [Next]_vars => (IInv /\ Recovery)'
  BY NextType, NextOrder, NextRecords, NextRecovery DEF IInv
<1>3. QED
  BY <1>1, <1>2, PTL DEF Spec

\* An event that is not under way and was not handled with success is in neither record
\* of known events, so that it is accepted when it is sent again.
THEOREM CanBeSentAgain == Spec => []Retryable
<1>1. Recovery => Retryable
  BY DEF Recovery, Known, Retryable, Pending, Busy
<1>2. QED
  BY <1>1, RecoveryInvariant, PTL

\* No sequence number up to the highest seen is passed over in silence, however events
\* come out of order and the process restarts.
THEOREM GapsAreReported == Spec => []Accounted
BY RecoveryInvariant, PTL DEF Recovery

\* A clean stop and start keeps every success.
THEOREM StopsCleanly == Spec => CleanStop
<1>1. ASSUME IInv, Recovery, StopAndStart, dbErrors = 0
      PROVE  done \subseteq accepted'
  <2>1. Len(buffer) = 0 /\ accepted' = Processed
    BY <1>1 DEF StopAndStart, Reload
  <2>2. done \subseteq Events /\ \A e \in done : disk[e] = "processed"
    BY <1>1, <2>1 DEF IInv, TypeOK, Recovery, Lasting, Marked
  <2>3. QED
    BY <2>1, <2>2 DEF Processed
<1>2. IInv /\ Recovery /\ [Next]_vars =>
        [(StopAndStart /\ dbErrors = 0) => done \subseteq accepted']_vars
  BY <1>1
<1>3. QED
  BY <1>2, RecoveryInvariant, PTL DEF Spec, CleanStop

=============================================================================

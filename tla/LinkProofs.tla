----------------------------- MODULE LinkProofs -----------------------------
(***************************************************************************)
(* Proofs about Link, for any number of calls at a time, slots, restarts   *)
(* of the simulator and levels, and any troubles.                          *)
(***************************************************************************)
EXTENDS Link, TLAPS

LEMMA Bounds ==
  /\ MaxSyncs \in Nat /\ MaxSyncs # 0 /\ MaxRuns \in Nat /\ MaxRuns # 0
  /\ MaxLevels \in Nat /\ MaxLevels # 0 /\ Callers \subseteq Nat \ {0}
BY LinkAssumption

USE Bounds

Call ==
  [kind : {"none", "list", "command", "charge"}, why : {"none", "level", "car", "staff"},
   step : Steps, token : 0 .. MaxRuns, retry : BOOLEAN, sent : 0 .. 2,
   seen : 0 .. MaxLevels, of : 0 .. MaxRuns]

-----------------------------------------------------------------------------
(* The inductive invariant.                                                *)

\* The steps of the call that recovers, which holds the lock.
Recovers == {"relogin", "relist", "retake", "release"}

\* How often r was sent, at its step: a call is sent once, and once more after
\* a 401 unless it is a charge.
Attempts(r) ==
  /\ r.step = "none" => r = Idle
  /\ r.step = "slot" => r.retry /\ r.sent = 0
  /\ r.step = "login" => r.sent = (IF r.retry THEN 0 ELSE 1)
  /\ r.step \in {"sent", "take"} => r.sent = (IF r.retry THEN 1 ELSE 2)
  /\ r.step \in Recovers \cup {"locked"} => r.retry /\ r.sent = 1
  /\ r.kind = "charge" => r.retry

\* The token r was sent with, and the run its lists are from, in run n.
Dated(r, n) ==
  /\ r.token <= n /\ r.of <= n
  /\ r.step \in {"sent", "locked"} => r.token # NoToken
  /\ r.step = "locked" => r.token < n

\* Whatever was got from the simulator that runs was got with its token, and
\* the dispatcher has not gone back to an older one.
Current ==
  /\ token <= run /\ synced <= run
  /\ synced = run => token \in {NoToken, run}
  /\ \A c \in Callers : run \in {call[c].token, call[c].of} => token \in {NoToken, run}

\* One call is made for a level at a time, while attempts are left.
OneLevel ==
  /\ \A c, d \in Callers : call[c].why = "level" /\ call[d].why = "level" => c = d
  /\ \A c \in Callers : call[c].why = "level" => tries > 0

\* The lock of the recovery is held by the call that recovers, and by no other.
Exclusion ==
  /\ \A c \in Callers : call[c].step \in Recovers <=> lock = c
  /\ lock = 0 => ~recovering

Calls == \A c \in Callers : Attempts(call[c]) /\ Dated(call[c], run)
Order == Calls /\ Current /\ OneLevel /\ Exclusion /\ Len(lines) <= level
IInv == TypeOK /\ Order

-----------------------------------------------------------------------------
(* What the helpers on calls return.                                       *)

LEMMA IdleCall ==
  /\ Idle \in Call /\ Attempts(Idle) /\ \A n \in Nat : Dated(Idle, n)
  /\ Idle.step = "none" /\ Idle.why = "none" /\ Idle.token = 0 /\ Idle.of = 0
<1>1. /\ Idle.kind = "none" /\ Idle.why = "none" /\ Idle.step = "none" /\ Idle.token = 0
      /\ Idle.retry = TRUE /\ Idle.sent = 0 /\ Idle.seen = 0 /\ Idle.of = 0
  BY DEF Idle, NoToken
<1>2. Idle \in Call
  BY DEF Idle, Call, Steps, NoToken
<1>3. QED
  BY <1>1, <1>2 DEF Attempts, Dated, Recovers

LEMMA StepCall ==
  ASSUME NEW r \in Call, NEW s \in Steps
  PROVE  LET x == [r EXCEPT !.step = s] IN
         /\ x \in Call /\ x.step = s
         /\ x.kind = r.kind /\ x.why = r.why /\ x.token = r.token /\ x.retry = r.retry
         /\ x.sent = r.sent /\ x.of = r.of
BY DEF Call

LEMMA SendsCall ==
  ASSUME NEW r \in Call, NEW tok \in 0 .. MaxRuns, r.sent <= 1
  PROVE  LET x == Sends(r, tok) IN
         /\ x \in Call
         /\ x.kind = r.kind /\ x.why = r.why /\ x.retry = r.retry /\ x.of = r.of
         /\ tok = NoToken => x.step = "login" /\ x.token = r.token /\ x.sent = r.sent
         /\ tok # NoToken => x.step = "sent" /\ x.token = tok /\ x.sent = r.sent + 1
<1> DEFINE x == [r EXCEPT !.step = "sent", !.token = tok, !.sent = r.sent + 1]
<1>1. CASE tok = NoToken
  <2> DEFINE y == [r EXCEPT !.step = "login"]
  <2>1. Sends(r, tok) = y
    BY <1>1 DEF Sends
  <2>2. y \in Call
    BY DEF Call, Steps
  <2>3. /\ y.kind = r.kind /\ y.why = r.why /\ y.retry = r.retry /\ y.of = r.of
        /\ y.step = "login" /\ y.token = r.token /\ y.sent = r.sent
    BY DEF Call
  <2> HIDE DEF y
  <2>4. QED
    BY <1>1, <2>1, <2>2, <2>3
<1>2. CASE tok # NoToken
  <2>1. Sends(r, tok) = x
    BY <1>2 DEF Sends
  <2>2. r.sent + 1 \in 0 .. 2
    BY DEF Call
  <2>3. x \in Call
    BY <2>2 DEF Call, Steps
  <2>4. /\ x.kind = r.kind /\ x.why = r.why /\ x.retry = r.retry /\ x.of = r.of
        /\ x.step = "sent" /\ x.token = tok /\ x.sent = r.sent + 1
    BY DEF Call
  <2> HIDE DEF x
  <2>5. QED
    BY <1>2, <2>1, <2>3, <2>4
<1>3. QED
  BY <1>1, <1>2

LEMMA RetryCall ==
  ASSUME NEW r \in Call
  PROVE  LET x == [r EXCEPT !.retry = FALSE] IN
         /\ x \in Call /\ ~x.retry
         /\ x.kind = r.kind /\ x.why = r.why /\ x.token = r.token /\ x.step = r.step
         /\ x.sent = r.sent /\ x.of = r.of
BY DEF Call

-----------------------------------------------------------------------------
(* A step of one call.                                                     *)

\* The call of c becomes x, and what else such a step may change.
Moves(c, x) ==
  /\ call' = [call EXCEPT ![c] = x]
  /\ UNCHANGED <<run, level, phase, lines, log>>
  /\ x \in Call /\ Attempts(x) /\ Dated(x, run)
  /\ token' \in {token, NoToken, run}
  /\ run \in {x.token, x.of} => token' \in {NoToken, run}
  /\ synced' \in {synced, call[c].of}
  /\ bays' \in 0 .. MaxLevels /\ live' \in BOOLEAN /\ used' \subseteq Rare \cup {"stale"}
  /\ \/ (x.why = "level" => call[c].why = "level") /\ tries' = tries
     \/ tries > 0 /\ tries' = tries /\ \A d \in Callers : call[d].why # "level"
     \/ x.why = "none" /\ tries' = IF call[c].why # "level" THEN tries ELSE IF live' THEN 0 ELSE tries - 1

\* The lock: taken while it is free, kept, or given back, with c's step; and taken for
\* a token of a run before.
Guards(c, x) ==
  /\ x.step = "relogin" => token \notin {NoToken, run}
  /\ recovering' \in BOOLEAN
  /\ lock' = 0 => ~recovering'
  /\ x.step \in Recovers <=> lock' = c
  /\ lock' = lock \/ {lock, lock'} = {0, c}

LEMMA CallType ==
  ASSUME TypeOK
  PROVE  \A c \in Callers : call[c] \in Call /\ c # 0
BY DEF TypeOK, Call

LEMMA MovesType ==
  ASSUME IInv, NEW c \in Callers, NEW x, Moves(c, x), Guards(c, x)
  PROVE  TypeOK'
<1>1. TypeOK /\ call[c] \in Call
  BY CallType DEF IInv
<1>2. call' \in [Callers -> Call]
  BY <1>1 DEF Moves, TypeOK, Call
<1>3. token' \in 0 .. MaxRuns /\ synced' \in 0 .. MaxRuns
  <2>1. call[c].of \in 0 .. MaxRuns
    BY <1>1 DEF Call
  <2>2. token \in 0 .. MaxRuns /\ run \in 0 .. MaxRuns /\ synced \in 0 .. MaxRuns /\ 0 \in 0 .. MaxRuns
    BY <1>1 DEF TypeOK
  <2>3. QED
    BY <2>1, <2>2 DEF Moves, NoToken
<1>4. lock' \in Callers \cup {0} /\ recovering' \in BOOLEAN
  BY <1>1 DEF Guards, TypeOK
<1>5. tries' \in 0 .. MaxSyncs
  <2>1. call[c].why = "level" => tries > 0
    BY DEF IInv, Order, OneLevel
  <2>2. tries \in 0 .. MaxSyncs
    BY <1>1 DEF TypeOK
  <2>3. QED
    BY <2>1, <2>2 DEF Moves
<1>6. QED
  BY <1>1, <1>2, <1>3, <1>4, <1>5 DEF Moves, TypeOK, Call

LEMMA MovesOrder ==
  ASSUME IInv, NEW c \in Callers, NEW x, Moves(c, x), Guards(c, x)
  PROVE  Order'
<1>1. /\ call \in [Callers -> Call] /\ run \in Nat /\ token \in Nat /\ synced \in Nat
      /\ \A d \in Callers : d # 0
  BY CallType DEF IInv, TypeOK, Call
<1>2. \A d \in Callers : call'[d] = IF d = c THEN x ELSE call[d]
  BY <1>1 DEF Moves
<1>3. Calls'
  BY <1>2 DEF IInv, Order, Calls, Moves
<1>4. Current'
  <2>1. token' <= run /\ synced' <= run
    BY <1>1 DEF IInv, Order, Calls, Current, Dated, Moves, NoToken
  <2>2. synced' = run => token' \in {NoToken, run}
    BY <1>1 DEF IInv, Order, Current, Moves
  <2>3. \A d \in Callers : run \in {call'[d].token, call'[d].of} => token' \in {NoToken, run}
    BY <1>2 DEF IInv, Order, Current, Moves
  <2>4. QED
    BY <2>1, <2>2, <2>3 DEF Current, Moves
<1>5. OneLevel'
  <2>1. CASE tries > 0 /\ tries' = tries /\ \A d \in Callers : call[d].why # "level"
    BY <1>2, <2>1 DEF OneLevel
  <2>2. CASE (x.why = "level" => call[c].why = "level") /\ tries' = tries
    BY <1>2, <2>2 DEF IInv, Order, OneLevel
  <2>3. CASE x.why = "none" /\ call[c].why = "level"
    BY <1>2, <2>3 DEF IInv, Order, OneLevel
  <2>4. CASE x.why = "none" /\ call[c].why # "level" /\ tries' = tries
    BY <1>2, <2>4 DEF IInv, Order, OneLevel
  <2>5. QED
    BY <2>1, <2>2, <2>3, <2>4 DEF Moves
<1>6. Exclusion'
  BY <1>1, <1>2 DEF IInv, Order, Exclusion, Guards
<1>7. QED
  BY <1>3, <1>4, <1>5, <1>6 DEF IInv, Order, Moves

-----------------------------------------------------------------------------
(* The parts of a call's steps.                                            *)

\* The call is over, or goes on to another step.
LEMMA OverMoves ==
  ASSUME IInv, NEW c \in Callers, Over(c),
         UNCHANGED <<run, level, phase, lines, log>>,
         token' = token, synced' \in {synced, call[c].of},
         bays' \in 0 .. MaxLevels, live' \in BOOLEAN, used' \subseteq Rare \cup {"stale"}
  PROVE  Moves(c, Idle)
<1>1. run \in Nat /\ run # 0
  BY DEF IInv, TypeOK
<1>2. QED
  BY <1>1, IdleCall DEF Over, Moves

LEMMA StepMoves ==
  ASSUME IInv, NEW c \in Callers, NEW x,
         call' = [call EXCEPT ![c] = x],
         x \in Call, Attempts(x), Dated(x, run), x.why = call[c].why,
         x.token = call[c].token, x.of \in {call[c].of, run},
         x.of = run => token' \in {NoToken, run},
         UNCHANGED <<run, level, phase, lines, log, tries>>,
         token' \in {token, NoToken, run}, synced' \in {synced, call[c].of},
         bays' \in 0 .. MaxLevels, live' \in BOOLEAN, used' \subseteq Rare \cup {"stale"}
  PROVE  Moves(c, x)
BY DEF IInv, Order, Current, Moves

\* The request goes out once more, or the call is over.
LEMMA ResendsMoves ==
  ASSUME IInv, NEW c \in Callers, Resends(c),
         call[c].retry, call[c].sent = 1,
         UNCHANGED <<run, level, phase, lines, log>>,
         token' = token, synced' \in {synced, call[c].of},
         bays' \in 0 .. MaxLevels, live' \in BOOLEAN, used' \subseteq Rare \cup {"stale"}
  PROVE  \E x : Moves(c, x) /\ x.step \notin Recovers
<1>1. CASE call[c].kind = "charge"
  <2>1. Moves(c, Idle)
    BY <1>1, OverMoves DEF Resends
  <2>2. Idle.step \notin Recovers
    BY IdleCall DEF Recovers
  <2>3. QED
    BY <2>1, <2>2
<1>2. CASE call[c].kind # "charge"
  <2> DEFINE r == [call[c] EXCEPT !.retry = FALSE]
             x == Sends(r, token')
  <2>1. call' = [call EXCEPT ![c] = x] /\ UNCHANGED tries
    BY <1>2 DEF Resends
  <2>2. /\ r \in Call /\ ~r.retry
        /\ r.kind = call[c].kind /\ r.why = call[c].why /\ r.token = call[c].token
        /\ r.sent = 1 /\ r.of = call[c].of
    BY CallType, RetryCall DEF IInv
  <2>3. token' \in 0 .. MaxRuns /\ token' <= run /\ run \in Nat
    BY DEF IInv, TypeOK, Order, Current
  <2> HIDE DEF r
  <2>4. /\ x \in Call
        /\ x.kind = r.kind /\ x.why = r.why /\ x.retry = r.retry /\ x.of = r.of
        /\ token' = NoToken => x.step = "login" /\ x.token = r.token /\ x.sent = r.sent
        /\ token' # NoToken => x.step = "sent" /\ x.token = token' /\ x.sent = r.sent + 1
    BY <2>2, <2>3, SendsCall
  <2> HIDE DEF x
  <2>5. Attempts(x) /\ x.step \notin Recovers
    BY <1>2, <2>2, <2>4 DEF Attempts, Recovers
  <2>6. Dated(x, run) /\ (run \in {x.token, x.of} => token' \in {NoToken, run})
    BY <2>2, <2>3, <2>4 DEF Dated, IInv, Order, Calls, Current
  <2>7. Moves(c, x)
    BY <2>1, <2>2, <2>4, <2>5, <2>6 DEF Moves
  <2>8. QED
    BY <2>5, <2>7
<1>3. QED
  BY <1>1, <1>2

\* The lock is free, and the token that was refused is dropped, or a newer one
\* is there.
LEMMA LocksMoves ==
  ASSUME IInv, NEW c \in Callers, Locks(c), lock = 0,
         call[c].step \notin Recovers, call[c].retry, call[c].sent = 1,
         call[c].token \notin {NoToken, run},
         UNCHANGED <<run, level, phase, lines, log, recovering, bays, live, synced, used>>
  PROVE  \E x : Moves(c, x) /\ Guards(c, x)
<1>1. /\ call[c] \in Call /\ c # 0 /\ ~recovering /\ recovering \in BOOLEAN
      /\ bays \in 0 .. MaxLevels /\ live \in BOOLEAN /\ used \subseteq Rare \cup {"stale"}
  BY CallType DEF IInv, TypeOK, Order, Exclusion
<1>2. CASE call[c].token = token
  <2> DEFINE x == [call[c] EXCEPT !.step = "relogin"]
  <2>1. token' = NoToken /\ lock' = c /\ call' = [call EXCEPT ![c] = x] /\ UNCHANGED tries
    BY <1>2 DEF Locks, Step
  <2>2. /\ x \in Call /\ x.step = "relogin"
        /\ x.kind = call[c].kind /\ x.why = call[c].why /\ x.token = call[c].token
        /\ x.retry = call[c].retry /\ x.sent = call[c].sent /\ x.of = call[c].of
    BY <1>1, StepCall DEF Steps
  <2> HIDE DEF x
  <2>3. Attempts(x)
    BY <1>1, <2>2 DEF Attempts, Recovers, IInv, Order, Calls
  <2>4. Dated(x, run)
    BY <2>2 DEF Dated, IInv, Order, Calls
  <2>5. Moves(c, x)
    BY <1>1, <2>1, <2>2, <2>3, <2>4, StepMoves
  <2>6. Guards(c, x)
    BY <1>1, <1>2, <2>1, <2>2 DEF Guards, Recovers
  <2>7. QED
    BY <2>5, <2>6
<1>3. CASE call[c].token # token
  <2>1. UNCHANGED <<token, lock>> /\ Resends(c)
    BY <1>3 DEF Locks
  <2>2. PICK x : Moves(c, x) /\ x.step \notin Recovers
    BY <1>1, <2>1, ResendsMoves
  <2>3. Guards(c, x)
    BY <1>1, <2>1, <2>2 DEF Guards, Recovers
  <2>4. QED
    BY <2>2, <2>3
<1>4. QED
  BY <1>2, <1>3

\* The lists are read.
LEMMA ListedMoves ==
  ASSUME IInv, NEW c \in Callers, NEW s \in {"take", "retake"}, Listed(c, s),
         call[c].step \notin {"none", "slot", "login", "locked"},
         s = "take" => call[c].step = "sent", s = "retake" => call[c].step \in Recovers,
         token \in {NoToken, run},
         UNCHANGED <<run, level, phase, lines, log, token, bays, live, synced, tries, used>>
  PROVE  \E x : Moves(c, x) /\ x.step = s
<1> DEFINE x == [call[c] EXCEPT !.step = s, !.of = run, !.seen = Running]
<1>1. /\ call[c] \in Call /\ run \in 0 .. MaxRuns /\ Running \in 0 .. MaxLevels
      /\ bays \in 0 .. MaxLevels /\ live \in BOOLEAN /\ used \subseteq Rare \cup {"stale"}
  BY CallType DEF IInv, TypeOK, Running
<1>2. call' = [call EXCEPT ![c] = x]
  BY DEF Listed
<1>3. /\ x \in Call /\ x.step = s
      /\ x.kind = call[c].kind /\ x.why = call[c].why /\ x.token = call[c].token
      /\ x.retry = call[c].retry /\ x.sent = call[c].sent /\ x.of = run
  BY <1>1 DEF Call, Steps
<1> HIDE DEF x
<1>4. Attempts(x)
  BY <1>3 DEF Attempts, Recovers, IInv, Order, Calls
<1>5. Dated(x, run)
  <2>1. Dated(call[c], run) /\ run <= run
    BY DEF IInv, Order, Calls, TypeOK
  <2>2. QED
    BY <1>3, <2>1 DEF Dated
<1>6. Moves(c, x)
  BY <1>1, <1>2, <1>3, <1>4, <1>5, StepMoves
<1>7. QED
  BY <1>3, <1>6

-----------------------------------------------------------------------------
(* Every step of a call.                                                   *)

LEMMA CostsType ==
  ASSUME TypeOK, NEW ks \in SUBSET Rare, Costs(ks)
  PROVE  used' \subseteq Rare \cup {"stale"}
BY DEF Costs, TypeOK

LEMMA TakesType ==
  ASSUME TypeOK, NEW c \in Callers, TakesOver(c)
  PROVE  /\ synced' = call[c].of /\ bays' \in 0 .. MaxLevels /\ live' \in BOOLEAN
         /\ used' \subseteq Rare \cup {"stale"}
BY DEF TakesOver, TypeOK

\* What the invariant says of a call at its step.
LEMMA CallFacts ==
  ASSUME IInv, NEW c \in Callers
  PROVE  /\ TypeOK /\ call[c] \in Call /\ c # 0 /\ run \in Nat /\ token \in 0 .. MaxRuns
         /\ run \in 0 .. MaxRuns /\ run # NoToken
         /\ bays \in 0 .. MaxLevels /\ live \in BOOLEAN /\ used \subseteq Rare \cup {"stale"}
         /\ recovering \in BOOLEAN /\ (lock = 0 => ~recovering)
         /\ call[c].step \in Recovers <=> lock = c
         /\ Attempts(call[c]) /\ Dated(call[c], run)
<1>1. TypeOK /\ call[c] \in Call /\ c # 0
  BY CallType DEF IInv
<1>2. /\ run \in Nat /\ token \in 0 .. MaxRuns /\ run \in 0 .. MaxRuns /\ run # NoToken
      /\ bays \in 0 .. MaxLevels /\ live \in BOOLEAN /\ used \subseteq Rare \cup {"stale"}
      /\ recovering \in BOOLEAN
  <2>1. run \in Nat /\ token \in 0 .. MaxRuns /\ run \in 0 .. MaxRuns /\ run # 0
    BY <1>1 DEF TypeOK
  <2>2. /\ bays \in 0 .. MaxLevels /\ live \in BOOLEAN /\ used \subseteq Rare \cup {"stale"}
        /\ recovering \in BOOLEAN
    BY <1>1 DEF TypeOK
  <2>3. QED
    BY <2>1, <2>2 DEF NoToken
<1>3. /\ lock = 0 => ~recovering
      /\ call[c].step \in Recovers <=> lock = c
      /\ Attempts(call[c]) /\ Dated(call[c], run)
  BY DEF IInv, Order, Exclusion, Calls
<1>4. QED
  BY <1>1, <1>2, <1>3

LEMMA RequestMoves ==
  ASSUME IInv, NEW c \in Callers, Request(c)
  PROVE  \E x : Moves(c, x) /\ Guards(c, x)
<1>1. /\ TypeOK /\ call[c] \in Call /\ c # 0 /\ run \in Nat /\ token \in 0 .. MaxRuns
      /\ run \in 0 .. MaxRuns /\ run # NoToken
      /\ bays \in 0 .. MaxLevels /\ live \in BOOLEAN /\ used \subseteq Rare \cup {"stale"}
      /\ recovering \in BOOLEAN /\ (lock = 0 => ~recovering)
      /\ call[c].step \in Recovers <=> lock = c
      /\ Attempts(call[c]) /\ Dated(call[c], run)
  BY CallFacts
<1>2. Idle.step \notin Recovers
  BY IdleCall DEF Recovers
<1>3. CASE TakeSlot(c)
  <2>1. call[c].step = "slot" /\ call[c].sent = 0 /\ call[c].retry
    BY <1>1, <1>3 DEF TakeSlot, Attempts
  <2>2. PICK x : /\ call' = [call EXCEPT ![c] = x]
                 /\ x \in Call
                 /\ x.kind = call[c].kind /\ x.why = call[c].why /\ x.retry = call[c].retry
                 /\ x.of = call[c].of
                 /\ token = NoToken => x.step = "login" /\ x.token = call[c].token /\ x.sent = 0
                 /\ token # NoToken => x.step = "sent" /\ x.token = token /\ x.sent = 1
    <3> DEFINE x == Sends(call[c], token)
    <3>1. call' = [call EXCEPT ![c] = x]
      BY <1>3 DEF TakeSlot
    <3>2. /\ x \in Call
          /\ x.kind = call[c].kind /\ x.why = call[c].why /\ x.retry = call[c].retry
          /\ x.of = call[c].of
          /\ token = NoToken => x.step = "login" /\ x.token = call[c].token /\ x.sent = 0
          /\ token # NoToken => x.step = "sent" /\ x.token = token /\ x.sent = 1
      <4>1. call[c].sent <= 1 /\ call[c].sent + 1 = 1
        BY <2>1
      <4>2. /\ x \in Call
            /\ x.kind = call[c].kind /\ x.why = call[c].why /\ x.retry = call[c].retry
            /\ x.of = call[c].of
            /\ token = NoToken => x.step = "login" /\ x.token = call[c].token /\ x.sent = call[c].sent
            /\ token # NoToken => x.step = "sent" /\ x.token = token /\ x.sent = call[c].sent + 1
        BY <1>1, <4>1, SendsCall
      <4> HIDE DEF x
      <4>3. QED
        BY <2>1, <4>1, <4>2
    <3> HIDE DEF x
    <3>3. QED
      BY <3>1, <3>2
  <2>3. UNCHANGED <<run, level, phase, lines, log, token, lock, recovering, bays, live, synced, tries, used>>
    BY <1>3 DEF TakeSlot, CallUnchanged, simulator, client, model
  <2>4. Attempts(x)
    BY <2>1, <2>2 DEF Attempts, Recovers
  <2>5. Dated(x, run) /\ (run \in {x.token, x.of} => token \in {NoToken, run})
    BY <1>1, <2>2 DEF Dated, IInv, Order, Current
  <2>6. Moves(c, x)
    BY <1>1, <2>2, <2>3, <2>4, <2>5 DEF Moves
  <2>7. Guards(c, x)
    BY <1>1, <2>1, <2>2, <2>3 DEF Guards, Recovers
  <2>8. QED
    BY <2>6, <2>7
<1>4. CASE LoggedIn(c)
  <2>1. call[c].step = "login" /\ lock # c
    BY <1>1, <1>4 DEF LoggedIn, Recovers
  <2>2. UNCHANGED <<run, level, phase, lines, log, lock, recovering, bays, live, synced>>
    BY <1>4 DEF LoggedIn, CallUnchanged, simulator, model
  <2>3. CASE token' = run /\ call' = [call EXCEPT ![c] = Sends(@, run)] /\ UNCHANGED <<tries, used>>
    <3>1. call[c].sent <= 1
      BY <1>1, <2>1 DEF Attempts
    <3>2. PICK x : /\ call' = [call EXCEPT ![c] = x]
                   /\ x \in Call
                   /\ x.kind = call[c].kind /\ x.why = call[c].why /\ x.retry = call[c].retry
                   /\ x.of = call[c].of
                   /\ x.step = "sent" /\ x.token = run /\ x.sent = call[c].sent + 1
      <4> DEFINE y == Sends(call[c], run)
      <4>1. call' = [call EXCEPT ![c] = y]
        BY <2>3
      <4>2. call[c] \in Call /\ run \in 0 .. MaxRuns /\ run # NoToken
        BY <1>1
      <4>3. /\ y \in Call
            /\ y.kind = call[c].kind /\ y.why = call[c].why /\ y.retry = call[c].retry
            /\ y.of = call[c].of
            /\ y.step = "sent" /\ y.token = run /\ y.sent = call[c].sent + 1
        BY <3>1, <4>2, SendsCall
      <4> HIDE DEF y
      <4>4. QED
        BY <4>1, <4>3
    <3>3. Attempts(x) /\ Dated(x, run)
      BY <1>1, <2>1, <3>2 DEF Attempts, Dated, Recovers
    <3>4. Moves(c, x)
      BY <1>1, <2>2, <2>3, <3>2, <3>3 DEF Moves
    <3>5. Guards(c, x)
      BY <1>1, <2>1, <2>2, <3>2 DEF Guards, Recovers
    <3>6. QED
      BY <3>4, <3>5
  <2>4. CASE UNCHANGED token /\ Over(c) /\ Costs({"lost"})
    <3>1. Moves(c, Idle)
      BY <1>1, <2>2, <2>4, OverMoves, CostsType DEF Rare
    <3>2. QED
      BY <1>1, <1>2, <2>1, <2>2, <3>1 DEF Guards, Recovers
  <2>5. QED
    BY <1>4, <2>3, <2>4 DEF LoggedIn
<1>5. CASE Answer(c)
  <2>1. call[c].step = "sent" /\ lock # c
    BY <1>1, <1>5 DEF Answer, Recovers
  <2>2. UNCHANGED <<run, level, phase, lines, log, recovering, bays, live, synced>>
    BY <1>5 DEF Answer, CallUnchanged, simulator, model
  <2>3. CASE Over(c) /\ UNCHANGED <<token, lock>> /\ used' \subseteq Rare \cup {"stale"}
    <3>1. Moves(c, Idle)
      BY <1>1, <2>2, <2>3, OverMoves
    <3>2. QED
      BY <1>1, <1>2, <2>1, <2>2, <2>3, <3>1 DEF Guards, Recovers
  <2>4. CASE call[c].token = run /\ Listed(c, "take") /\ UNCHANGED <<token, lock, tries, used>>
    <3>1. token \in {NoToken, run}
      BY <2>4 DEF IInv, Order, Current
    <3>2. PICK x : Moves(c, x) /\ x.step = "take"
      BY <2>1, <2>2, <2>4, <3>1, ListedMoves
    <3>3. Guards(c, x)
      BY <1>1, <2>1, <2>2, <2>4, <3>2 DEF Guards, Recovers
    <3>4. QED
      BY <3>2, <3>3
  <2>5. CASE call[c].token # run /\ Refused(c) /\ UNCHANGED used
    <3>1. CASE call[c].retry /\ ~recovering /\ lock = 0
      <4>1. call[c].sent = 1 /\ call[c].token # NoToken
        BY <1>1, <2>1, <3>1 DEF Attempts, Dated
      <4>2. Locks(c)
        BY <2>5, <3>1 DEF Refused
      <4>3. call[c].step \notin Recovers
        BY <2>1 DEF Recovers
      <4>4. QED
        BY <2>2, <2>5, <3>1, <4>1, <4>2, <4>3, LocksMoves
    <3>2. CASE call[c].retry /\ ~recovering /\ lock # 0
      <4> DEFINE x == [call[c] EXCEPT !.step = "locked"]
      <4>1. call' = [call EXCEPT ![c] = x] /\ UNCHANGED <<token, lock, tries>>
        BY <2>5, <3>2 DEF Refused, Step
      <4>2. /\ x \in Call /\ x.step = "locked"
            /\ x.kind = call[c].kind /\ x.why = call[c].why /\ x.token = call[c].token
            /\ x.retry = call[c].retry /\ x.sent = call[c].sent /\ x.of = call[c].of
        BY <1>1, StepCall DEF Steps
      <4> HIDE DEF x
      <4>3. Attempts(x)
        BY <1>1, <2>1, <3>2, <4>2 DEF Attempts, Recovers
      <4>4. Dated(x, run)
        BY <1>1, <2>1, <2>5, <4>2 DEF Dated, Call
      <4>5. x.of = run => token \in {NoToken, run}
        BY <4>2 DEF IInv, Order, Current
      <4>6. Moves(c, x)
        BY <1>1, <2>2, <2>5, <4>1, <4>2, <4>3, <4>4, <4>5, StepMoves
      <4>7. Guards(c, x)
        BY <1>1, <2>1, <2>2, <3>2, <4>1, <4>2 DEF Guards, Recovers
      <4>8. QED
        BY <4>6, <4>7
    <3>3. CASE ~(call[c].retry /\ ~recovering)
      BY <1>1, <2>3, <2>5, <3>3 DEF Refused
    <3>4. QED
      BY <3>1, <3>2, <3>3
  <2>6. QED
    BY <1>1, <1>5, <2>3, <2>4, <2>5, CostsType DEF Answer, Rare
<1>6. CASE Take(c)
  <2>1. call[c].step = "take" /\ lock # c /\ TakesOver(c) /\ Over(c)
    BY <1>1, <1>6 DEF Take, Recovers
  <2>2. UNCHANGED <<run, level, phase, lines, log, token, lock, recovering>>
    BY <1>6 DEF Take, CallUnchanged, simulator, client
  <2>3. Moves(c, Idle)
    BY <1>1, <2>1, <2>2, TakesType, OverMoves
  <2>4. QED
    BY <1>1, <1>2, <2>1, <2>2, <2>3 DEF Guards, Recovers
<1>7. CASE Locked(c)
  <2>1. call[c].step = "locked" /\ lock = 0 /\ Locks(c)
    BY <1>7 DEF Locked
  <2>2. UNCHANGED <<run, level, phase, lines, log, recovering, bays, live, synced, used>>
    BY <1>7 DEF Locked, CallUnchanged, simulator, model
  <2>3. call[c].retry /\ call[c].sent = 1 /\ call[c].step \notin Recovers
    BY <1>1, <2>1 DEF Attempts, Recovers
  <2>4. call[c].token \in Nat /\ call[c].token # NoToken /\ call[c].token < run
    BY <1>1, <2>1 DEF Dated, Call
  <2>5. QED
    BY <1>1, <2>1, <2>2, <2>3, <2>4, LocksMoves
<1>8. CASE Relogin(c)
  <2>1. call[c].step = "relogin" /\ lock = c
    BY <1>1, <1>8 DEF Relogin, Recovers
  <2>2. UNCHANGED <<run, level, phase, lines, log, bays, live, synced>>
    BY <1>8 DEF Relogin, CallUnchanged, simulator, model
  <2>3. CASE token' = run /\ recovering' = TRUE /\ Step(c, "relist") /\ UNCHANGED <<lock, tries, used>>
    <3> DEFINE x == [call[c] EXCEPT !.step = "relist"]
    <3>1. /\ x \in Call /\ x.step = "relist"
          /\ x.kind = call[c].kind /\ x.why = call[c].why /\ x.token = call[c].token
          /\ x.retry = call[c].retry /\ x.sent = call[c].sent /\ x.of = call[c].of
      BY <1>1, StepCall DEF Steps
    <3>2. call' = [call EXCEPT ![c] = x]
      BY <2>3 DEF Step
    <3> HIDE DEF x
    <3>3. Attempts(x) /\ Dated(x, run)
      BY <1>1, <2>1, <3>1 DEF Attempts, Dated, Recovers
    <3>4. Moves(c, x)
      BY <1>1, <2>2, <2>3, <3>1, <3>2, <3>3, StepMoves
    <3>5. Guards(c, x)
      BY <1>1, <2>1, <2>3, <3>1 DEF Guards, Recovers
    <3>6. QED
      BY <3>4, <3>5
  <2>4. CASE UNCHANGED token /\ Unlocks /\ Over(c) /\ Costs({"lost"})
    <3>1. Moves(c, Idle)
      BY <1>1, <2>2, <2>4, OverMoves, CostsType DEF Rare
    <3>2. QED
      BY <1>1, <1>2, <2>1, <2>4, <3>1 DEF Guards, Unlocks
  <2>5. QED
    BY <1>8, <2>3, <2>4 DEF Relogin
<1>9. CASE Relist(c)
  <2>1. call[c].step = "relist" /\ lock = c
    BY <1>1, <1>9 DEF Relist, Recovers
  <2>2. UNCHANGED <<run, level, phase, lines, log, token, bays, live, synced>>
    BY <1>9 DEF Relist, CallUnchanged, simulator, model
  <2>3. CASE token = run /\ Listed(c, "retake") /\ UNCHANGED <<lock, recovering, tries, used>>
    <3>1. call[c].step \in Recovers
      BY <2>1 DEF Recovers
    <3>2. PICK x : Moves(c, x) /\ x.step = "retake"
      BY <2>1, <2>2, <2>3, <3>1, ListedMoves
    <3>3. Guards(c, x)
      BY <1>1, <2>1, <2>3, <3>2 DEF Guards, Recovers
    <3>4. QED
      BY <3>2, <3>3
  <2>4. CASE Unlocks /\ Over(c) /\ used' \subseteq Rare \cup {"stale"}
    <3>1. Moves(c, Idle)
      BY <1>1, <2>2, <2>4, OverMoves
    <3>2. QED
      BY <1>1, <1>2, <2>1, <2>4, <3>1 DEF Guards, Unlocks, Recovers
  <2>5. QED
    BY <1>1, <1>9, <2>3, <2>4, CostsType DEF Relist, Rare
<1>10. ASSUME NEW paid \in BOOLEAN, Retake(c, paid)
       PROVE  \E x : Moves(c, x) /\ Guards(c, x)
  <2>1. call[c].step = "retake" /\ lock = c /\ call[c].retry /\ call[c].sent = 1
    BY <1>1, <1>10 DEF Retake, Recovers, Attempts
  <2>2. UNCHANGED <<run, level, phase, lines, log, token>>
    BY <1>10 DEF Retake, CallUnchanged, simulator
  <2>3. /\ synced' = call[c].of /\ bays' \in 0 .. MaxLevels /\ live' \in BOOLEAN
        /\ used' \subseteq Rare \cup {"stale"}
    BY <1>1, <1>10, TakesType DEF Retake
  <2>4. CASE Step(c, "release") /\ UNCHANGED <<lock, recovering, tries>>
    <3> DEFINE x == [call[c] EXCEPT !.step = "release"]
    <3>1. /\ x \in Call /\ x.step = "release"
          /\ x.kind = call[c].kind /\ x.why = call[c].why /\ x.token = call[c].token
          /\ x.retry = call[c].retry /\ x.sent = call[c].sent /\ x.of = call[c].of
      BY <1>1, StepCall DEF Steps
    <3>2. call' = [call EXCEPT ![c] = x]
      BY <2>4 DEF Step
    <3> HIDE DEF x
    <3>3. Attempts(x) /\ Dated(x, run)
      BY <1>1, <2>1, <3>1 DEF Attempts, Dated, Recovers
    <3>4. x.of = run => token \in {NoToken, run}
      BY <3>1 DEF IInv, Order, Current
    <3>5. Moves(c, x)
      BY <1>1, <2>2, <2>3, <2>4, <3>1, <3>2, <3>3, <3>4, StepMoves
    <3>6. Guards(c, x)
      BY <1>1, <2>1, <2>4, <3>1 DEF Guards, Recovers
    <3>7. QED
      BY <3>5, <3>6
  <2>5. CASE Unlocks /\ Resends(c)
    <3>1. PICK x : Moves(c, x) /\ x.step \notin Recovers
      BY <2>1, <2>2, <2>3, <2>5, ResendsMoves
    <3>2. Guards(c, x)
      BY <1>1, <2>1, <2>5, <3>1 DEF Guards, Unlocks, Recovers
    <3>3. QED
      BY <3>1, <3>2
  <2>6. QED
    BY <1>10, <2>4, <2>5 DEF Retake
<1>11. CASE Release(c)
  <2>1. call[c].step = "release" /\ lock = c /\ call[c].retry /\ call[c].sent = 1
    BY <1>1, <1>11 DEF Release, Recovers, Attempts
  <2>2. /\ UNCHANGED <<run, level, phase, lines, log, token, bays, live, synced, used>>
        /\ Unlocks /\ Resends(c)
    BY <1>11 DEF Release, CallUnchanged, simulator, model
  <2>3. PICK x : Moves(c, x) /\ x.step \notin Recovers
    BY <1>1, <2>1, <2>2, ResendsMoves
  <2>4. Guards(c, x)
    BY <1>1, <2>1, <2>2, <2>3 DEF Guards, Unlocks, Recovers
  <2>5. QED
    BY <2>3, <2>4
<1>12. QED
  BY <1>3, <1>4, <1>5, <1>6, <1>7, <1>8, <1>9, <1>10, <1>11 DEF Request

LEMMA CancelMoves ==
  ASSUME IInv, NEW c \in Callers, Cancel(c)
  PROVE  Moves(c, Idle) /\ Guards(c, Idle)
<1>1. UNCHANGED <<run, level, phase, lines, log, token, bays, live, synced>> /\ Over(c)
  BY DEF Cancel, CallUnchanged, simulator, model
<1>2. used' \subseteq Rare \cup {"stale"}
  BY CallFacts, CostsType DEF Cancel, Rare
<1>3. Moves(c, Idle)
  BY <1>1, <1>2, CallFacts, OverMoves
<1>4. Idle.step \notin Recovers
  BY IdleCall DEF Recovers
<1>5. QED
  BY <1>3, <1>4, CallFacts DEF Cancel, Unlocks, Guards, Recovers

\* A call begins: with a slot to get first, or at once.
LEMMA StartsMoves ==
  ASSUME IInv, NEW c \in Callers, NEW kind \in {"list", "command", "charge"},
         NEW why \in {"none", "car", "staff", "level"}, Starts(c, kind, why),
         why = "level" => tries > 0 /\ \A d \in Callers : call[d].why # "level",
         UNCHANGED <<simulator, client, model, follower>>,
         used' \subseteq Rare \cup {"stale"}
  PROVE  \E x : Moves(c, x) /\ Guards(c, x)
<1> DEFINE r == [Idle EXCEPT !.kind = kind, !.why = why]
<1>1. /\ TypeOK /\ call[c] \in Call /\ c # 0 /\ run \in Nat /\ token \in 0 .. MaxRuns
      /\ run \in 0 .. MaxRuns /\ run # NoToken
      /\ bays \in 0 .. MaxLevels /\ live \in BOOLEAN /\ recovering \in BOOLEAN
      /\ (lock = 0 => ~recovering) /\ (call[c].step \in Recovers <=> lock = c)
  BY CallFacts
<1>2. call[c] = Idle /\ call[c].step = "none" /\ lock # c
  BY <1>1, IdleCall DEF Starts, Recovers
<1>3. UNCHANGED <<run, level, phase, lines, log, token, lock, recovering, bays, live, synced, tries>>
  BY DEF simulator, client, model, follower
<1>4. /\ r \in Call /\ r.kind = kind /\ r.why = why /\ r.step = "none"
      /\ r.retry /\ r.sent = 0 /\ r.token = 0 /\ r.of = 0
  <2>1. /\ Idle \in Call /\ Idle.step = "none" /\ Idle.token = 0 /\ Idle.of = 0
        /\ Idle.retry = TRUE /\ Idle.sent = 0
    BY IdleCall DEF Idle
  <2>2. QED
    BY <2>1 DEF Call
<1>5. call' = [call EXCEPT ![c] = IF kind = "list" THEN Sends(r, token) ELSE [r EXCEPT !.step = "slot"]]
  BY DEF Starts
<1> HIDE DEF r
<1>6. ASSUME NEW x \in Call, call' = [call EXCEPT ![c] = x],
             x.kind = kind, x.why = why, x.retry, x.of = 0,
             \/ x.step = "slot" /\ x.sent = 0 /\ x.token = 0
             \/ x.step = "login" /\ x.sent = 0 /\ x.token = 0
             \/ x.step = "sent" /\ x.sent = 1 /\ x.token = token /\ token # NoToken
      PROVE  Moves(c, x) /\ Guards(c, x)
  <2>1. Attempts(x)
    BY <1>6 DEF Attempts, Recovers
  <2>2. Dated(x, run) /\ (run \in {x.token, x.of} => token \in {NoToken, run})
    BY <1>1, <1>6 DEF Dated, IInv, Order, Current, NoToken
  <2>3. Moves(c, x)
    BY <1>1, <1>3, <1>6, <2>1, <2>2 DEF Moves
  <2>4. Guards(c, x)
    BY <1>1, <1>2, <1>3, <1>6 DEF Guards, Recovers
  <2>5. QED
    BY <2>3, <2>4
<1>7. CASE kind = "list"
  <2> DEFINE x == Sends(r, token)
  <2>1. call' = [call EXCEPT ![c] = x]
    BY <1>5, <1>7
  <2>2. /\ x \in Call
        /\ x.kind = r.kind /\ x.why = r.why /\ x.retry = r.retry /\ x.of = r.of
        /\ token = NoToken => x.step = "login" /\ x.token = r.token /\ x.sent = r.sent
        /\ token # NoToken => x.step = "sent" /\ x.token = token /\ x.sent = r.sent + 1
    <3>1. r.sent <= 1
      BY <1>4
    <3>2. QED
      BY <1>1, <1>4, <3>1, SendsCall
  <2> HIDE DEF x
  <2>3. \/ x.step = "login" /\ x.sent = 0 /\ x.token = 0
        \/ x.step = "sent" /\ x.sent = 1 /\ x.token = token /\ token # NoToken
    BY <1>4, <2>2
  <2>4. QED
    BY <1>4, <1>6, <2>1, <2>2, <2>3
<1>8. CASE kind # "list"
  <2> DEFINE x == [r EXCEPT !.step = "slot"]
  <2>1. call' = [call EXCEPT ![c] = x]
    BY <1>5, <1>8
  <2>2. /\ x \in Call /\ x.step = "slot"
        /\ x.kind = r.kind /\ x.why = r.why /\ x.token = r.token /\ x.retry = r.retry
        /\ x.sent = r.sent /\ x.of = r.of
    BY <1>4, StepCall DEF Steps
  <2> HIDE DEF x
  <2>3. QED
    BY <1>4, <1>6, <2>1, <2>2
<1>9. QED
  BY <1>7, <1>8

\* What a call, or one that begins, does.
CallStep(c) ==
  \/ Request(c) \/ Cancel(c) \/ CarSyncs(c) \/ StaffSyncs(c) \/ LevelSyncs(c)
  \/ \E kind \in {"command", "charge"} : CarNeeds(c, kind)

LEMMA CallStepMoves ==
  ASSUME IInv, NEW c \in Callers, CallStep(c)
  PROVE  \E x : Moves(c, x) /\ Guards(c, x)
<1>1. TypeOK /\ used \subseteq Rare \cup {"stale"}
  BY DEF IInv, TypeOK
<1>2. CASE CarSyncs(c)
  BY <1>1, <1>2, StartsMoves DEF CarSyncs, WhoUnchanged
<1>3. CASE StaffSyncs(c)
  BY <1>1, <1>3, CostsType, StartsMoves DEF StaffSyncs, WhoUnchanged, Rare
<1>4. CASE LevelSyncs(c)
  BY <1>1, <1>4, StartsMoves DEF LevelSyncs, WhoUnchanged
<1>5. ASSUME NEW kind \in {"command", "charge"}, CarNeeds(c, kind)
      PROVE  \E x : Moves(c, x) /\ Guards(c, x)
  BY <1>1, <1>5, StartsMoves DEF CarNeeds, WhoUnchanged
<1>6. QED
  BY <1>2, <1>3, <1>4, <1>5, RequestMoves, CancelMoves DEF CallStep

-----------------------------------------------------------------------------
(* The steps of the simulator and of the log's follower.                   *)

Elsewhere == Restart \/ Load \/ Loaded \/ Poll

LEMMA ElsewhereType ==
  ASSUME IInv, Elsewhere
  PROVE  TypeOK'
<1>1. TypeOK /\ Len(lines) <= level
  BY DEF IInv, Order
<1>2. CASE Restart
  <2>1. used' \subseteq Rare \cup {"stale"}
    <3>1. used \subseteq Rare \cup {"stale"} /\ {"again"} \in SUBSET Rare
      BY <1>1 DEF TypeOK, Rare
    <3>2. QED
      BY <1>1, <1>2, <3>1, CostsType DEF Restart
  <2>2. <<>> \in Seq(1 .. MaxLevels)
    OBVIOUS
  <2>3. QED
    BY <1>1, <1>2, <2>1, <2>2 DEF Restart, Outside, client, model, follower, TypeOK
<1>3. CASE Load
  <2>1. used' \subseteq Rare \cup {"stale"}
    BY <1>1, <1>3, CostsType DEF Load, Rare
  <2>2. level' \in 1 .. MaxLevels /\ level' \in 0 .. MaxLevels
    BY <1>1, <1>3 DEF Load, TypeOK
  <2>3. lines' \in Seq(1 .. MaxLevels)
    BY <1>1, <1>3, <2>2 DEF Load, TypeOK
  <2>4. QED
    BY <1>1, <1>3, <2>1, <2>2, <2>3 DEF Load, Outside, client, model, follower, TypeOK
<1>4. CASE Loaded
  BY <1>1, <1>4 DEF Loaded, Outside, client, model, follower, TypeOK
<1>5. CASE Poll
  <2>1. log' \in [pos : 0 .. MaxLevels, todo : 0 .. MaxLevels]
    <3> lines \in Seq(1 .. MaxLevels) /\ level \in 0 .. MaxLevels
      BY <1>1 DEF TypeOK
    <3>1. Len(lines) \in 0 .. MaxLevels
      BY <1>1
    <3>2. lines # <<>> => lines[Len(lines)] \in 1 .. MaxLevels
      OBVIOUS
    <3>3. log \in [pos : 0 .. MaxLevels, todo : 0 .. MaxLevels]
      BY <1>1 DEF TypeOK
    <3>4. (IF lines = <<>> THEN 0 ELSE lines[Len(lines)]) \in 0 .. MaxLevels
      BY <3>2
    <3>5. QED
      BY <1>5, <3>1, <3>3, <3>4 DEF Poll
  <2>2. QED
    BY <1>1, <1>5, <2>1 DEF Poll, simulator, client, model, TypeOK
<1>6. QED
  BY <1>2, <1>3, <1>4, <1>5 DEF Elsewhere

LEMMA ElsewhereOrder ==
  ASSUME IInv, Elsewhere
  PROVE  Order'
<1>1. /\ UNCHANGED <<token, lock, recovering, call, synced>>
      /\ tries' = tries \/ (tries = 0 /\ tries' \in Nat)
  BY DEF Elsewhere, Restart, Load, Loaded, Poll, Outside, client, model, follower
<1>2. run' = run \/ (Restart /\ run' = run + 1)
  BY DEF Elsewhere, Restart, Load, Loaded, Poll, simulator
<1>3. TypeOK /\ run \in Nat /\ level \in Nat
  BY DEF IInv, TypeOK
<1>4. Calls'
  <2>1. ASSUME NEW c \in Callers
        PROVE  Dated(call[c], run + 1)
    <3>1. call[c].token \in Nat /\ call[c].of \in Nat
      BY <1>3, CallType DEF Call
    <3>2. Dated(call[c], run)
      BY DEF IInv, Order, Calls
    <3>3. QED
      BY <1>3, <3>1, <3>2 DEF Dated
  <2>2. QED
    BY <1>1, <1>2, <2>1 DEF IInv, Order, Calls
<1>5. Current'
  <2>1. CASE run' = run
    BY <1>1, <2>1 DEF IInv, Order, Current
  <2>2. CASE run' = run + 1
    <3>1. token \in Nat /\ synced \in Nat
      BY <1>3 DEF TypeOK
    <3>2. ASSUME NEW c \in Callers
          PROVE  run + 1 \notin {call[c].token, call[c].of}
      <4>1. call[c].token \in Nat /\ call[c].of \in Nat
        BY <1>3, CallType DEF Call
      <4>2. Dated(call[c], run)
        BY DEF IInv, Order, Calls
      <4>3. QED
        BY <1>3, <4>1, <4>2 DEF Dated
    <3>3. QED
      BY <1>1, <1>3, <2>2, <3>1, <3>2 DEF IInv, Order, Current
  <2>3. QED
    BY <1>2, <2>1, <2>2
<1>6. OneLevel'
  <2>1. OneLevel /\ call' = call
    BY <1>1 DEF IInv, Order
  <2>2. tries > 0 => tries' > 0
    BY <1>1
  <2>3. QED
    BY <2>1, <2>2 DEF OneLevel
<1>7. Exclusion'
  BY <1>1 DEF IInv, Order, Exclusion
<1>8. Len(lines') <= level'
  <2>1. CASE Restart
    BY <1>3, <2>1 DEF Restart, Outside
  <2>2. CASE Load
    BY <1>3, <2>2 DEF Load, TypeOK, IInv, Order
  <2>3. CASE Loaded \/ Poll
    BY <2>3 DEF Loaded, Poll, simulator, IInv, Order
  <2>4. QED
    BY <2>1, <2>2, <2>3 DEF Elsewhere
<1>9. QED
  BY <1>4, <1>5, <1>6, <1>7, <1>8 DEF Order

\* A level is loaded: some calls are cancelled, and the others stay as they are.
LEMMA LevelLoadedInv ==
  ASSUME IInv, LevelLoaded
  PROVE  IInv'
<1>1. TypeOK /\ Order /\ call \in [Callers -> Call] /\ run \in Nat /\ run # 0 /\ 0 \notin Callers
  BY DEF IInv, TypeOK, Call
<1>2. PICK gone \in SUBSET {c \in Callers : call[c].kind \in {"command", "charge"}} :
        /\ call' = [c \in Callers |-> IF c \in gone THEN Idle ELSE call[c]]
        /\ IF lock \in gone THEN Unlocks ELSE UNCHANGED <<lock, recovering>>
  BY DEF LevelLoaded, CancelsTasks
<1>3. /\ tries = 0 /\ tries' = MaxSyncs /\ bays' = 0 /\ live' = FALSE
      /\ UNCHANGED <<run, level, phase, lines, token, synced, used>>
  BY DEF LevelLoaded, simulator
<1>4. \A c \in Callers : call'[c] = (IF c \in gone THEN Idle ELSE call[c])
  BY <1>2
<1>5. call' \in [Callers -> Call]
  <2>1. \A c \in Callers : (IF c \in gone THEN Idle ELSE call[c]) \in Call
    BY <1>1, IdleCall
  <2>2. QED
    BY <1>2, <2>1
<1>6. TypeOK'
  <2>1. log' \in [pos : 0 .. MaxLevels, todo : 0 .. MaxLevels]
    <3>1. log \in [pos : 0 .. MaxLevels, todo : 0 .. MaxLevels] /\ log' = [log EXCEPT !.todo = 0]
      BY <1>1 DEF TypeOK, LevelLoaded
    <3>2. QED
      BY <3>1
  <2>2. lock' \in Callers \cup {0} /\ recovering' \in BOOLEAN
    BY <1>1, <1>2 DEF TypeOK, Unlocks
  <2>3. MaxSyncs \in 0 .. MaxSyncs /\ 0 \in 0 .. MaxLevels
    OBVIOUS
  <2>4. run \in 1 .. MaxRuns /\ level \in 0 .. MaxLevels
        /\ phase \in {"none", "loading", "running"} /\ lines \in Seq(1 .. MaxLevels)
        /\ token \in 0 .. MaxRuns /\ synced \in 0 .. MaxRuns /\ used \subseteq Rare \cup {"stale"}
    BY <1>1 DEF TypeOK
  <2>5. QED
    BY <1>3, <1>5, <2>1, <2>2, <2>3, <2>4 DEF TypeOK, Call
<1>7. Calls'
  BY <1>1, <1>3, <1>4, IdleCall DEF Order, Calls
<1>8. Current'
  <2>1. ASSUME NEW c \in Callers, run \in {call'[c].token, call'[c].of}
        PROVE  token \in {NoToken, run}
    <3>1. CASE call'[c] = Idle
      BY <1>1, <2>1, <3>1, IdleCall DEF Order, Current, NoToken
    <3>2. CASE call'[c] = call[c]
      BY <1>1, <2>1, <3>2 DEF Order, Current
    <3>3. QED
      BY <1>4, <3>1, <3>2
  <2>2. QED
    BY <1>1, <1>3, <2>1 DEF Order, Current
<1>9. OneLevel'
  <2>1. \A c \in Callers : call[c].why # "level"
    BY <1>1, <1>3 DEF Order, OneLevel
  <2>2. \A c \in Callers : call'[c].why # "level"
    BY <1>4, <2>1, IdleCall
  <2>3. QED
    BY <2>2 DEF OneLevel
<1>10. Exclusion'
  <2>1. Exclusion /\ \A c \in gone : c # 0
    BY <1>1, <1>2 DEF Order
  <2>2. ASSUME NEW c \in Callers
        PROVE  call'[c].step \in Recovers <=> lock' = c
    <3>1. CASE c \in gone
      BY <1>1, <1>2, <1>4, <2>1, <3>1, IdleCall DEF Exclusion, Recovers, Unlocks
    <3>2. CASE c \notin gone
      BY <1>1, <1>2, <1>4, <2>1, <3>2 DEF Exclusion, Unlocks
    <3>3. QED
      BY <3>1, <3>2
  <2>3. QED
    BY <1>2, <2>1, <2>2 DEF Exclusion, Unlocks
<1>11. QED
  BY <1>1, <1>3, <1>6, <1>7, <1>8, <1>9, <1>10 DEF IInv, Order

-----------------------------------------------------------------------------
(* The theorems.                                                           *)

LEMMA InitInv == Init => IInv
<1>1. SUFFICES ASSUME Init PROVE IInv
  OBVIOUS
<1>2. \A c \in Callers : call[c] = Idle /\ c # 0
  BY <1>1 DEF Init
<1>3. TypeOK
  <2>1. call \in [Callers -> Call] /\ <<>> \in Seq(1 .. MaxLevels)
    BY <1>1, IdleCall DEF Init
  <2>2. 1 \in 1 .. MaxRuns /\ 0 \in 0 .. MaxLevels /\ 1 \in 0 .. MaxRuns /\ 0 \in 0 .. MaxSyncs
    OBVIOUS
  <2>3. QED
    BY <1>1, <2>1, <2>2 DEF Init, TypeOK, Call
<1>4. Calls
  BY <1>1, <1>2, IdleCall DEF Init, Calls
<1>5. Current
  BY <1>1, <1>2, IdleCall DEF Init, Current, NoToken
<1>6. OneLevel
  BY <1>2, IdleCall DEF OneLevel
<1>7. Exclusion
  BY <1>1, <1>2, IdleCall DEF Init, Exclusion, Recovers
<1>8. Len(lines) <= level
  BY <1>1 DEF Init
<1>9. QED
  BY <1>3, <1>4, <1>5, <1>6, <1>7, <1>8 DEF IInv, Order

LEMMA NextInv == IInv /\ [Next]_vars => IInv'
<1>1. SUFFICES ASSUME IInv, [Next]_vars PROVE IInv'
  OBVIOUS
<1>2. CASE UNCHANGED vars
  BY <1>1, <1>2 DEF vars, IInv, TypeOK, Order, Calls, Current, OneLevel, Exclusion
<1>3. CASE Elsewhere
  BY <1>1, <1>3, ElsewhereType, ElsewhereOrder DEF IInv
<1>4. ASSUME NEW c \in Callers, CallStep(c)
      PROVE  IInv'
  <2>1. PICK x : Moves(c, x) /\ Guards(c, x)
    BY <1>1, <1>4, CallStepMoves
  <2>2. QED
    BY <1>1, <2>1, MovesType, MovesOrder DEF IInv
<1>5. CASE LevelLoaded
  BY <1>1, <1>5, LevelLoadedInv
<1>6. QED
  BY <1>1, <1>2, <1>3, <1>4, <1>5 DEF Next, Elsewhere, CallStep

\* In every reachable state the invariant holds: the calls under way, the token's lock,
\* the recovery and the level of the simulator's log stay in step with each other.
THEOREM Invariant == Spec => []IInv
BY InitInv, NextInv, PTL DEF Spec

\* Every variable keeps its type.
THEOREM TypeCorrect == Spec => []TypeOK
BY Invariant, PTL DEF IInv

\* A charge is sent at most once.
THEOREM ChargesGoOutOnce == Spec => []ChargeSentOnce
<1>1. IInv => ChargeSentOnce
  <2>1. SUFFICES ASSUME IInv, NEW c \in Callers, call[c].kind = "charge"
                 PROVE  call[c].sent <= 1
    BY DEF ChargeSentOnce
  <2>2. call[c] \in Call /\ Attempts(call[c])
    BY <2>1, CallFacts
  <2>3. call[c].step \in Steps /\ call[c].retry
    BY <2>1, <2>2 DEF Call, Attempts
  <2>4. QED
    BY <2>2, <2>3, IdleCall DEF Attempts, Steps, Recovers, Idle
<1>2. QED
  BY <1>1, Invariant, PTL

\* A recovery begins only while the bays are those of a run before: of all the
\* calls refused together, one finds the token it was refused with still there.
THEOREM RecoversOnce == Spec => OneRecovery
<1> DEFINE Begins(d) == call[d].step # "relogin" /\ call'[d].step = "relogin"
<1>1. ASSUME IInv, [Next]_vars, NEW d \in Callers, Begins(d)
      PROVE  synced < run
  <2>1. call'[d] # call[d]
    BY <1>1
  <2>2. ~(UNCHANGED vars \/ Elsewhere \/ LevelLoaded)
    <3>1. ~(UNCHANGED vars \/ Elsewhere)
      BY <2>1 DEF vars, Elsewhere, Restart, Load, Loaded, Poll, Outside
    <3>2. ~LevelLoaded
      BY <1>1, <2>1, IdleCall DEF LevelLoaded, CancelsTasks
    <3>3. QED
      BY <3>1, <3>2
  <2>3. PICK c \in Callers : CallStep(c)
    BY <1>1, <2>2 DEF Next, Elsewhere, CallStep
  <2>4. PICK x : Moves(c, x) /\ Guards(c, x)
    BY <1>1, <2>3, CallStepMoves
  <2>5. c = d /\ x.step = "relogin"
    <3>1. call' = [call EXCEPT ![c] = x] /\ call \in [Callers -> Call]
      BY <1>1, <2>4 DEF Moves, IInv, TypeOK, Call
    <3>2. QED
      BY <1>1, <2>1, <3>1
  <2>6. token \notin {NoToken, run}
    BY <2>4, <2>5 DEF Guards
  <2>7. synced # run /\ synced <= run /\ synced \in Nat /\ run \in Nat
    BY <1>1, <2>6 DEF IInv, TypeOK, Order, Current
  <2>8. QED
    BY <2>7
<1>2. IInv /\ [Next]_vars =>
        [\A c \in Callers :
          call[c].step # "relogin" /\ call'[c].step = "relogin" => synced < run]_vars
  BY <1>1
<1>3. QED
  BY <1>2, Invariant, PTL DEF Spec, OneRecovery

=============================================================================

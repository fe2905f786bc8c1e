-------------------------------- MODULE Link --------------------------------
(***************************************************************************)
(* The dispatcher's link to the simulator: its REST client with the token, *)
(* the recovery after a 401 and the slots for commands; and the three ways *)
(* to notice that the park is another one: a 401, the console's log, a car *)
(* that comes when no bays are known.                                      *)
(*                                                                         *)
(* Calls run side by side and wait for answers, for locks and for slots;   *)
(* the simulator may be restarted, or load another level, at any time.     *)
(*                                                                         *)
(* Abstracted: what is called, but for syncs, commands and charges; of a   *)
(* sync's lists the one of the bays, taken over later than it was read;    *)
(* the attempts of one request, of which all fail or the last one decides; *)
(* all tokens of one run of the simulator, which are as good; log lines    *)
(* about anything but levels, and parts of lines.                          *)
(***************************************************************************)
EXTENDS Naturals, Sequences, FiniteSets

CONSTANTS
  Callers,     \* bound: calls at a time
  Slots,       \* _mutation_slots
  MaxSyncs,    \* LEVEL_SYNC_ATTEMPTS
  Logged,      \* the console's log is followed: SIMULATOR_LOG
  MaxRuns,     \* bound: runs of the simulator
  MaxLevels,   \* bound: levels loaded
  Troubles     \* bound: the sets of Rare events that happen in one behaviour, once each

Rare == {"lost", "cancel", "again", "staff", "grown"}

ASSUME LinkAssumption ==
  /\ Callers \subseteq Nat \ {0} /\ {Slots, MaxSyncs, MaxRuns, MaxLevels} \subseteq Nat \ {0}
  /\ Logged \in BOOLEAN /\ Troubles \subseteq SUBSET Rare

VARIABLES
  \* The simulator:
  run,         \* its runs so far: the token it takes
  level,       \* levels loaded so far
  phase,       \* of the last one: "none" (there is no level), "loading" or "running"
  lines,       \* its console's log, from its start: the levels it names
  \* The dispatcher:
  token,       \* _token, or NoToken
  lock,        \* who holds _recovery_lock, or 0
  recovering,  \* _recovering
  call,        \* call[c]: a call under way
  bays,        \* the level whose bays state.spots holds, or 0
  live,        \* _live_bays_synced
  synced,      \* the run of the simulator that bays is from
  log,         \* LogFollower's place in it, and the level it has still to hand on
  tries,       \* _on_level_loaded: attempts left to sync
  used         \* the Rare events that have happened, and "stale": a sync came late

simulator == <<run, level, phase, lines>>
client == <<token, lock, recovering>>
model == <<bays, live, synced>>
follower == <<log, tries>>
vars == <<run, level, phase, lines, token, lock, recovering, call, bays, live, synced,
          log, tries, used>>

NoToken == 0
Idle == [kind |-> "none", why |-> "none", step |-> "none", token |-> NoToken,
         retry |-> TRUE, sent |-> 0, seen |-> 0, of |-> 0]
Steps == {"none", "slot", "login", "sent", "take", "locked", "relogin", "relist", "retake",
          "release"}

TypeOK ==
  /\ run \in 1 .. MaxRuns /\ level \in 0 .. MaxLevels
  /\ phase \in {"none", "loading", "running"} /\ lines \in Seq(1 .. MaxLevels)
  /\ token \in 0 .. MaxRuns /\ lock \in Callers \cup {0} /\ recovering \in BOOLEAN
  /\ call \in [Callers ->
       [kind : {"none", "list", "command", "charge"}, why : {"none", "level", "car", "staff"},
        step : Steps, token : 0 .. MaxRuns, retry : BOOLEAN, sent : 0 .. 2,
        seen : 0 .. MaxLevels, of : 0 .. MaxRuns]]
  /\ bays \in 0 .. MaxLevels /\ live \in BOOLEAN /\ synced \in 0 .. MaxRuns
  /\ log \in [pos : 0 .. MaxLevels, todo : 0 .. MaxLevels]
  /\ tries \in 0 .. MaxSyncs /\ used \subseteq Rare \cup {"stale"}

\* Started as the simulator was up and no level was loaded (START.bat).
Init ==
  /\ run = 1 /\ level = 0 /\ phase = "none" /\ lines = <<>>
  /\ token = 1 /\ lock = 0 /\ recovering = FALSE /\ call = [c \in Callers |-> Idle]
  /\ bays = 0 /\ live = FALSE /\ synced = 1
  /\ log = [pos |-> 0, todo |-> 0] /\ tries = 0 /\ used = {}

Costs(ks) ==
  /\ used' = used \cup ks /\ ks \cap used = {}
  /\ \E t \in Troubles : used' \subseteq t \cup {"stale"}

-----------------------------------------------------------------------------
(* The simulator (external).                                               *)

Outside == UNCHANGED <<client, call, model, follower>>

\* Restarted: cars, levels and tokens are gone, and its log is written anew.  A second
\* time, before the dispatcher has recovered from the first, is a Rare event.
Restart ==
  /\ run < MaxRuns /\ run' = run + 1
  /\ phase' = "none" /\ lines' = <<>>
  /\ IF run = 1 THEN UNCHANGED used ELSE synced < run /\ Costs({"again"})
  /\ Outside /\ UNCHANGED level

\* So is a log that is rewritten and outgrows its old size before it is read again.
Load ==
  /\ level < MaxLevels /\ level' = level + 1
  /\ phase' = "loading" /\ lines' = Append(lines, level')
  /\ Costs(IF Logged /\ Len(lines) < log.pos /\ Len(lines') >= log.pos THEN {"grown"} ELSE {})
  /\ Outside /\ UNCHANGED run

Loaded ==
  /\ phase = "loading" /\ phase' = "running"
  /\ Outside /\ UNCHANGED <<run, level, lines, used>>

-----------------------------------------------------------------------------
(* Calls: SimulatorClient._request.                                        *)

Step(c, step) == call' = [call EXCEPT ![c].step = step]
\* The call of c is over; _on_level_loaded then looks whether bays are there.
\* Deliberately wrong: it counts every call.
OverCounting(c) ==
  /\ call' = [call EXCEPT ![c] = Idle]
  /\ tries' = IF live' THEN 0 ELSE tries - 1
Over(c) ==
  /\ call' = [call EXCEPT ![c] = Idle]
  /\ tries' = IF call[c].why # "level" THEN tries ELSE IF live' THEN 0 ELSE tries - 1
Running == IF phase = "running" THEN level ELSE 0
Listed(c, step) ==
  call' = [call EXCEPT ![c].step = step, ![c].of = run, ![c].seen = Running]
\* sync_from_simulator, once the lists are there, though by now they may be stale.
TakesOver(c) ==
  /\ bays' = call[c].seen /\ synced' = call[c].of
  /\ live' = (live \/ call[c].seen # 0)
  /\ used' = used \cup (IF call[c].of = run /\ call[c].seen = Running THEN {} ELSE {"stale"})

Holding == {c \in Callers : call[c].kind \in {"command", "charge"} /\ call[c].step # "slot"}
FreeSlot == Cardinality(Holding) < Slots
\* The request r goes out, after a login when there is no token.
Sends(r, tok) ==
  IF tok = NoToken THEN [r EXCEPT !.step = "login"]
  ELSE [r EXCEPT !.step = "sent", !.token = tok, !.sent = @ + 1]
\* Of Callers, which are alike, the least that is idle; a command has to get a slot first.
Starts(c, kind, why) ==
  LET r == [Idle EXCEPT !.kind = kind, !.why = why] IN
  /\ call[c] = Idle /\ \A d \in Callers : d < c => call[d] # Idle
  /\ call' = [call EXCEPT ![c] = IF kind = "list" THEN Sends(r, token)
                                 ELSE [r EXCEPT !.step = "slot"]]

CallUnchanged == UNCHANGED <<simulator, log>>
TakeSlot(c) ==
  /\ call[c].step = "slot" /\ FreeSlot
  /\ call' = [call EXCEPT ![c] = Sends(@, token)]
  /\ CallUnchanged /\ UNCHANGED <<client, model, tries, used>>

LoggedIn(c) ==
  /\ call[c].step = "login" /\ CallUnchanged /\ UNCHANGED <<lock, recovering, model>>
  /\ \/ /\ token' = run /\ call' = [call EXCEPT ![c] = Sends(@, run)]
        /\ UNCHANGED <<tries, used>>
     \/ UNCHANGED token /\ Over(c) /\ Costs({"lost"})

\* The one time more, but for a charge.
\* Deliberately wrong: for a charge as well.
ResendsCharge(c) ==
  call' = [call EXCEPT ![c] = Sends([@ EXCEPT !.retry = FALSE], token')] /\ UNCHANGED tries
Resends(c) ==
  IF call[c].kind = "charge" THEN Over(c)
  ELSE call' = [call EXCEPT ![c] = Sends([@ EXCEPT !.retry = FALSE], token')] /\ UNCHANGED tries

\* Who comes first with the token that was refused recovers from it.
\* Deliberately wrong: whoever comes does.
LocksAnyway(c) ==
  token' = NoToken /\ lock' = c /\ Step(c, "relogin") /\ UNCHANGED tries
Locks(c) ==
  IF call[c].token = token
  THEN token' = NoToken /\ lock' = c /\ Step(c, "relogin") /\ UNCHANGED tries
  ELSE UNCHANGED <<token, lock>> /\ Resends(c)
Locked(c) ==
  /\ call[c].step = "locked" /\ lock = 0
  /\ CallUnchanged /\ UNCHANGED <<recovering, model, used>> /\ Locks(c)

\* After a 401; while another recovers, and the second time, it is final.
Refused(c) ==
  IF call[c].retry /\ ~recovering
  THEN IF lock = 0 THEN Locks(c) ELSE Step(c, "locked") /\ UNCHANGED <<token, lock, tries>>
  ELSE Over(c) /\ UNCHANGED <<token, lock>>
Answer(c) ==
  /\ call[c].step = "sent" /\ CallUnchanged /\ UNCHANGED <<recovering, model>>
  /\ \/ /\ call[c].token = run /\ UNCHANGED <<token, lock, used>>
        /\ IF call[c].kind = "list" THEN Listed(c, "take") /\ UNCHANGED tries ELSE Over(c)
     \/ call[c].token # run /\ Refused(c) /\ UNCHANGED used
     \/ Over(c) /\ UNCHANGED <<token, lock>> /\ Costs({"lost"})

Take(c) ==
  /\ call[c].step = "take" /\ CallUnchanged /\ UNCHANGED client
  /\ TakesOver(c) /\ Over(c)

Unlocks == lock' = 0 /\ recovering' = FALSE
\* Deliberately wrong: a token is enough.
ReloginOnly(c) ==
  /\ call[c].step = "relogin" /\ CallUnchanged /\ UNCHANGED <<model, used>>
  /\ token' = run /\ Unlocks /\ Resends(c)
Relogin(c) ==
  /\ call[c].step = "relogin" /\ CallUnchanged /\ UNCHANGED model
  /\ \/ /\ token' = run /\ recovering' = TRUE /\ Step(c, "relist")
        /\ UNCHANGED <<lock, tries, used>>
     \/ UNCHANGED token /\ Unlocks /\ Over(c) /\ Costs({"lost"})

\* on_reconnect, by the call that recovers; its own calls give up on a 401.
Relist(c) ==
  /\ call[c].step = "relist" /\ CallUnchanged /\ UNCHANGED <<token, model>>
  /\ \/ token = run /\ Listed(c, "retake") /\ UNCHANGED <<lock, recovering, tries, used>>
     \/ token # run /\ Unlocks /\ Over(c) /\ UNCHANGED used
     \/ Unlocks /\ Over(c) /\ Costs({"lost"})

\* Paid cars are released, with commands that need a slot each.
Retake(c, paid) ==
  /\ call[c].step = "retake" /\ CallUnchanged /\ UNCHANGED token
  /\ TakesOver(c)
  /\ IF paid THEN Step(c, "release") /\ UNCHANGED <<lock, recovering, tries>>
     ELSE Unlocks /\ Resends(c)
\* Deliberately wrong: a release waits for that of a call that waits for this one.
ReleaseWaits(c) ==
  /\ call[c].step = "release" /\ FreeSlot /\ \A d \in Callers : call[d].step # "locked"
  /\ CallUnchanged /\ UNCHANGED <<token, model, used>>
  /\ Unlocks /\ Resends(c)
Release(c) ==
  /\ call[c].step = "release" /\ FreeSlot
  /\ CallUnchanged /\ UNCHANGED <<token, model, used>>
  /\ Unlocks /\ Resends(c)

\* A leg's task is cancelled, for the car went on or will not park.
Cancel(c) ==
  /\ call[c].kind = "command" /\ Costs({"cancel"})
  /\ CallUnchanged /\ UNCHANGED <<token, model>> /\ Over(c)
  /\ IF lock = c THEN Unlocks ELSE UNCHANGED <<lock, recovering>>

-----------------------------------------------------------------------------
(* Who calls: _sync_if_no_live_bays, the handlers of cars, staff.          *)

WhoUnchanged == UNCHANGED <<simulator, client, model, follower>>
\* A car comes when no bays are known; one at a time has a sync made.
CarSyncs(c) ==
  /\ phase = "running" /\ ~live /\ \A d \in Callers : call[d].why # "car"
  /\ Starts(c, "list", "car") /\ WhoUnchanged /\ UNCHANGED used
CarNeeds(c, kind) ==
  /\ bays # 0 /\ Starts(c, kind, "none")
  /\ WhoUnchanged /\ UNCHANGED used
StaffSyncs(c) ==
  /\ Starts(c, "list", "staff") /\ Costs({"staff"}) /\ WhoUnchanged

-----------------------------------------------------------------------------
(* The console's log: LogFollower.read_new_lines, follow,                  *)
(* _on_level_loaded.                                                       *)

\* A file that has shrunk is read from its start.
Poll ==
  /\ Logged /\ log.todo = 0 /\ tries = 0 /\ Len(lines) # log.pos
  /\ log' = [log EXCEPT !.todo = IF lines = <<>> THEN 0 ELSE lines[Len(lines)],
                        !.pos = Len(lines)]
  /\ UNCHANGED <<simulator, client, call, model, tries, used>>

\* The tasks that legs, charges and closing gates run in, _entry_watchers, are cancelled;
\* any command or charge may be one of theirs, also the call that recovers.
CancelsTasks ==
  \E gone \in SUBSET {c \in Callers : call[c].kind \in {"command", "charge"}} :
    /\ call' = [c \in Callers |-> IF c \in gone THEN Idle ELSE call[c]]
    /\ IF lock \in gone THEN Unlocks ELSE UNCHANGED <<lock, recovering>>
\* All that was live is dropped, and syncs begin until one sees bays.
\* Deliberately wrong: the bays of the level before count as seen.
LevelLoadedAgain ==
  /\ log.todo # 0 /\ tries = 0 /\ CancelsTasks
  /\ log' = [log EXCEPT !.todo = 0] /\ tries' = MaxSyncs
  /\ bays' = 0 /\ UNCHANGED <<live, synced>>
  /\ UNCHANGED <<simulator, token, used>>
LevelLoaded ==
  /\ log.todo # 0 /\ tries = 0 /\ CancelsTasks
  /\ log' = [log EXCEPT !.todo = 0] /\ tries' = MaxSyncs
  /\ bays' = 0 /\ live' = FALSE /\ UNCHANGED synced
  /\ UNCHANGED <<simulator, token, used>>
LevelSyncs(c) ==
  /\ tries > 0 /\ \A d \in Callers : call[d].why # "level"
  /\ Starts(c, "list", "level")
  /\ WhoUnchanged /\ UNCHANGED used

-----------------------------------------------------------------------------
Request(c) ==
  \/ TakeSlot(c) \/ LoggedIn(c) \/ Answer(c) \/ Take(c) \/ Locked(c)
  \/ Relogin(c) \/ Relist(c) \/ (\E paid \in BOOLEAN : Retake(c, paid)) \/ Release(c)
Next ==
  \/ Restart \/ Load \/ Loaded \/ Poll \/ LevelLoaded
  \/ \E c \in Callers :
       \/ Request(c) \/ Cancel(c) \/ CarSyncs(c) \/ StaffSyncs(c) \/ LevelSyncs(c)
       \/ \E kind \in {"command", "charge"} : CarNeeds(c, kind)
Spec == Init /\ [][Next]_vars

\* Requests time out; the follower polls; cars keep coming while a level runs.  Strong
\* where a free caller is needed, which the program always has.
Fairness ==
  /\ WF_vars(Loaded) /\ WF_vars(Poll) /\ WF_vars(LevelLoaded)
  /\ \A c \in Callers : WF_vars(Request(c))
  /\ SF_vars(\E c \in Callers : CarSyncs(c)) /\ SF_vars(\E c \in Callers : LevelSyncs(c))
FairSpec == Spec /\ Fairness

-----------------------------------------------------------------------------
(* Properties.                                                             *)

\* A charge is sent at most once, whatever fails or is refused ("Never resend a charge,
\* even on an authentication failure", client.py:85).
ChargeSentOnce == \A c \in Callers : call[c].kind = "charge" => call[c].sent <= 1

\* However many calls are refused together, one recovers: none begins when the bays are
\* already those of the simulator that runs (client.py:76).
OneRecovery ==
  [][\A c \in Callers :
       call[c].step # "relogin" /\ call'[c].step = "relogin" => synced < run]_vars

\* A token of another run comes with its bays, unless the recovery was cut short or an
\* older sync was late (on_reconnect, client.py:81).
RecoveryIsSynced ==
  []<>(synced = token \/ used \cap {"lost", "cancel", "again", "stale"} # {})

\* Every call ends: none waits for a lock or a slot for ever, not the recovery's own
\* either (client.py:73, main.py:2806).
CallsEnd == \A c \in Callers : []<>(call[c] = Idle)

\* A level that runs is taken over, though its load comes early or late in any call, after
\* a restart or twice in a row (_on_level_loaded, main.py:500), but for late lists of
\* another and a log that was rewritten unseen.
LevelIsTakenOver ==
  []<>(phase # "running" \/ bays = level \/ used \cap {"grown", "stale"} # {})

=============================================================================

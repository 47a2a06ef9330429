----------------------------- MODULE TradingLoop ----------------------------
(***************************************************************************)
(* `headless run-trading-loop`: the startup recovery that lets it run, the *)
(* polls of run_trading_loop_iteration, the memory of RuleSmaCrossV1 and   *)
(* the position as the strategy, the ledger and the paper broker see it.   *)
(*                                                                         *)
(* One process owns the program at a time (the single-instance lock): the  *)
(* loop, or the desktop, whose tray raises the kill switch.  Time is       *)
(* counted in candles.  A candle is reduced to where the fast average      *)
(* stands against the slow one when it closes; the venue chooses freely.   *)
(* A fetch that fails and a transaction that rolls back change nothing and *)
(* the poll comes again, so they need no action; a failed submit does.     *)
(***************************************************************************)
EXTENDS Integers, Sequences, FiniteSetsExt

CONSTANTS
  MaxCandles,     \* bound on candles the venue closes
  Warm,           \* candles a snapshot needs (n_slow; the ATR needs fewer)
  Cooldown,       \* params.cooldown
  FetchLimit,     \* fetch_limit, in candles
  StaleMultiple,  \* STALE_TIMEFRAME_MULTIPLE
  Failures,       \* whether the database may fail during a submit
  Breaks,         \* whether a soak may leave an open reconciliation break
  MaxBack,        \* bound on how often the wall clock is set back
  MaxCorrections, \* bound on candles the venue corrects
  MaxStops        \* bound on desktop sessions and on deaths of the loop

ASSUME LoopAssumption ==
  /\ MaxCandles \in Nat /\ Warm \in Nat \ {0} /\ Cooldown \in Nat
  /\ FetchLimit \in Nat \ {0} /\ StaleMultiple \in Nat
  /\ Failures \in BOOLEAN /\ Breaks \in BOOLEAN
  /\ MaxBack \in Nat /\ MaxCorrections \in Nat /\ MaxStops \in Nat

VARIABLES
  market,      \* fast against slow average at each closed candle
  wall,        \* the wall clock
  proc,        \* who holds the single-instance lock and runs
  start,       \* the launch under way, which holds it too
  ks,          \* kill_switch_state.level of scope "global"
  openBreak,   \* an open row of recon_breaks, of any account
  checkpoint,  \* app_settings "clock.last_wall_checkpoint"; 0 when not set
  stored,      \* market_candles
  posLocal,    \* positions_local.qty
  paperPos,    \* what the PaperAdapter of this process holds
  rule,        \* the RuleSmaCrossV1 of this process
  job,         \* the decision being submitted, with what was read for it
  drift,       \* history: an order, or the paper broker's book, was lost
  corrected,   \* history: a candle changed after it was stored
  exitAt,      \* history: newest candle when this process last decided to exit
  backs, corrections, stops  \* history: bounds

venueVars  == <<market, wall>>
dbVars     == <<ks, openBreak, checkpoint, stored, posLocal>>
memoryVars == <<paperPos, rule, job>>
boundVars  == <<backs, corrections, stops>>
vars == <<venueVars, proc, start, dbVars, memoryVars, drift, corrected, exitAt, boundVars>>

-----------------------------------------------------------------------------
(* Types and initial state *)

Rel   == {"below", "equal", "above"}
Sides == {"ABSTAIN", "ENTER_LONG", "EXIT_LONG"}
EntryQty == 1

\* Candle i closes at Epoch + i; late enough for the clock to be set back.
Epoch == MaxBack + 1

Rules == [prev : Rel \union {"none"}, inPosition : BOOLEAN, cooldown : 0..Cooldown]
NoRule == [prev |-> "none", inPosition |-> FALSE, cooldown |-> 0]

Jobs == [side : Sides, ks : 0..4, qty : Int]
NoJob == [side |-> "ABSTAIN", ks |-> 0, qty |-> 0]

Starts == [who : {"none", "desktop", "loop"}, at : {"none", "read", "tested"},
           ready : BOOLEAN, now : Int]
NoStart == [who |-> "none", at |-> "none", ready |-> FALSE, now |-> 0]

TypeOK ==
  /\ market \in Seq(Rel) /\ Len(market) <= MaxCandles
  /\ wall \in Int
  /\ proc \in {"off", "desktop", "loop"} /\ start \in Starts
  /\ ks \in 0..4 /\ openBreak \in BOOLEAN
  /\ checkpoint \in Int
  /\ stored \in [1..MaxCandles -> Rel \union {"absent"}]
  /\ posLocal \in Int /\ paperPos \in Int
  /\ rule \in Rules /\ job \in Jobs
  /\ drift \in BOOLEAN /\ corrected \in BOOLEAN
  /\ exitAt \in 0..MaxCandles
  /\ backs \in Nat /\ corrections \in Nat /\ stops \in Nat

Init ==
  /\ market = <<>> /\ wall = Epoch
  /\ proc = "off" /\ start = NoStart
  /\ ks = 0 /\ openBreak = FALSE /\ checkpoint = 0
  /\ stored = [i \in 1..MaxCandles |-> "absent"]
  /\ posLocal = 0 /\ paperPos = 0
  /\ rule = NoRule /\ job = NoJob
  /\ drift = FALSE /\ corrected = FALSE /\ exitAt = 0
  /\ backs = 0 /\ corrections = 0 /\ stops = 0

-----------------------------------------------------------------------------
(* Candles and features *)

Known(st) == {i \in DOMAIN st : st[i] # "absent"}

Newest(st) == IF Known(st) = {} THEN 0 ELSE Max(Known(st))

\* FeatureEngine.snapshot over the whole stored history.
Snapshot(st) ==
  IF Cardinality(Known(st)) < Warm THEN "none" ELSE st[Newest(st)]

\* The rolling window fetch_ohlcv_closed returns.
Window == {i \in 1..Len(market) : i > Len(market) - FetchLimit}

\* _upsert_candles: fetched candles are inserted, or updated in place.
Upserted == [i \in 1..MaxCandles |-> IF i \in Window THEN market[i] ELSE stored[i]]

\* Variant of Inserted that counts every fetched candle as new.
Inserted_All == Window

Inserted == Window \ Known(stored)

-----------------------------------------------------------------------------
(* The strategy rule *)

\* Variant of Bullish that does not ask whether a position is open.
Bullish_AnyPosition(r, snap) ==
  r.prev \in {"below", "equal"} /\ snap = "above"

Bullish(r, snap) ==
  r.prev \in {"below", "equal"} /\ snap = "above" /\ ~r.inPosition

\* Variant of Bearish that misses a cross from equality.
Bearish_Strict(r, snap) ==
  r.prev = "above" /\ snap = "below" /\ r.inPosition

Bearish(r, snap) ==
  r.prev \in {"above", "equal"} /\ snap = "below" /\ r.inPosition

\* Variant of WhileCooling that keeps the averages of before the cooldown.
WhileCooling_Forgets(r, snap) == [r EXCEPT !.cooldown = @ - 1]

WhileCooling(r, snap) ==
  [prev |-> snap, inPosition |-> r.inPosition, cooldown |-> r.cooldown - 1]

\* Variants of AfterExit with the cooldown a candle short, and a candle long.
AfterExit_Short(snap) ==
  [prev |-> snap, inPosition |-> FALSE, cooldown |-> Max({Cooldown - 1, 0})]
AfterExit_Long(snap) ==
  [prev |-> snap, inPosition |-> FALSE, cooldown |-> Cooldown + 1]

AfterExit(snap) == [prev |-> snap, inPosition |-> FALSE, cooldown |-> Cooldown]

\* RuleSmaCrossV1.evaluate: the rule it leaves behind and what it decides.
Evaluate(r, snap) ==
  CASE snap = "none"    -> [rule |-> r, side |-> "ABSTAIN"]
    [] snap # "none" /\ r.cooldown > 0 ->
         [rule |-> WhileCooling(r, snap), side |-> "ABSTAIN"]
    [] snap # "none" /\ r.cooldown = 0 /\ Bullish(r, snap) ->
         [rule |-> [prev |-> snap, inPosition |-> TRUE, cooldown |-> r.cooldown],
          side |-> "ENTER_LONG"]
    [] snap # "none" /\ r.cooldown = 0 /\ Bearish(r, snap) ->
         [rule |-> AfterExit(snap), side |-> "EXIT_LONG"]
    [] OTHER -> [rule |-> [r EXCEPT !.prev = snap], side |-> "ABSTAIN"]

\* seed_strategy_state on a fresh rule.
Seeded ==
  [prev |-> Snapshot(stored), inPosition |-> posLocal # 0, cooldown |-> 0]

-----------------------------------------------------------------------------
(* The venue and the clock *)

\* A candle closes.
Tick ==
  /\ Len(market) < MaxCandles
  /\ \E r \in Rel : market' = Append(market, r)
  /\ wall' = wall + 1
  /\ UNCHANGED <<proc, start, dbVars, memoryVars, drift, corrected, exitAt, boundVars>>

\* The venue corrects a candle it has already shown.  Of the stored ones only
\* the newest feeds a snapshot; one not yet stored is still free anyway.
VenueCorrects ==
  /\ corrections < MaxCorrections
  /\ corrections' = corrections + 1
  /\ Newest(stored) \in DOMAIN market
  /\ \E r \in Rel \ {market[Newest(stored)]} :
        market' = [market EXCEPT ![Newest(stored)] = r]
  /\ UNCHANGED <<wall, proc, start, dbVars, memoryVars, drift, corrected, exitAt,
                 backs, stops>>

\* The wall clock is set back.
ClockSetBack ==
  /\ backs < MaxBack
  /\ backs' = backs + 1
  /\ wall' = wall - 1
  /\ UNCHANGED <<market, proc, start, dbVars, memoryVars, drift, corrected, exitAt,
                 corrections, stops>>

-----------------------------------------------------------------------------
(* Startup recovery (PAPER account) *)

\* _is_data_fresh: no candle at all counts as fresh.
DataFresh ==
  \/ Known(stored) = {}
  \/ wall - (Epoch + Newest(stored)) <= StaleMultiple

\* detect_clock_jump with no monotonic baseline.
ClockJumped == checkpoint # 0 /\ wall < checkpoint

\* Variant of Passes that overrides nothing when the clock jumped.
Passes_IgnoresClock(ready) == ready

\* A detected jump overrides a recovery that was ready.
Passes(ready) == ready /\ ~ClockJumped

\* One launch at a time: what it has read so far is in `start`.
Starting(who, at, ready, now) ==
  start' = [who |-> who, at |-> at, ready |-> ready, now |-> now]

\* run_desktop_startup_recovery reads breaks, checkpoint and freshness in one
\* transaction.  The paper broker always connects, and persisting the loaded
\* kill switch leaves its level alone.
BeginStart(who) ==
  /\ proc = "off" /\ start = NoStart
  /\ who = "desktop" => stops < MaxStops
  /\ Starting(who, "read", DataFresh /\ ~openBreak, 0)
  /\ UNCHANGED <<venueVars, proc, dbVars, memoryVars, drift, corrected, exitAt,
                 boundVars>>

\* detect_clock_jump reads the clock again.
TestClock ==
  /\ start.at = "read"
  /\ Starting(start.who, "tested", Passes(start.ready), wall)
  /\ UNCHANGED <<venueVars, proc, dbVars, memoryVars, drift, corrected, exitAt,
                 boundVars>>

\* The launch ends ready: the clock is read once more, for the checkpoint.
StartsReady(who) ==
  /\ start.at = "tested" /\ start.who = who /\ start.ready
  /\ checkpoint' = wall

\* _run_trading_loop: refused unless recovered; then the rule is seeded once
\* and a PaperAdapter is built, which knows nothing of an earlier position.
StartLoop ==
  /\ StartsReady("loop")
  /\ proc' = "loop" /\ start' = NoStart
  /\ rule' = Seeded
  /\ paperPos' = 0
  /\ job' = NoJob
  /\ drift' = (posLocal # 0)
  /\ exitAt' = 0
  /\ UNCHANGED <<venueVars, ks, openBreak, stored, posLocal, corrected, boundVars>>

StartRefused ==
  /\ start.at = "tested" /\ start.who = "loop" /\ ~start.ready
  /\ start' = NoStart
  /\ UNCHANGED <<venueVars, proc, dbVars, memoryVars, drift, corrected, exitAt,
                 boundVars>>

\* The launch dies, or a loop's transaction for the checkpoint rolls back.
StartDies ==
  /\ start # NoStart
  /\ start' = NoStart
  /\ UNCHANGED <<venueVars, proc, dbVars, memoryVars, drift, corrected, exitAt,
                 boundVars>>

\* The desktop opens its window whatever the recovery says, also when that
\* transaction rolls back.
StartDesktop ==
  /\ \/ StartsReady("desktop")
     \/ start.at = "tested" /\ start.who = "desktop" /\ UNCHANGED checkpoint
  /\ proc' = "desktop" /\ start' = NoStart
  /\ stops < MaxStops /\ stops' = stops + 1
  /\ UNCHANGED <<venueVars, ks, openBreak, stored, posLocal, memoryVars, drift,
                 corrected, exitAt, backs, corrections>>

\* TrayController.pause: load, raise_to(1), persist.
TrayPause ==
  /\ proc = "desktop"
  /\ ks' = Max({ks, 1})
  /\ UNCHANGED <<venueVars, proc, start, openBreak, checkpoint, stored, posLocal,
                 memoryVars, drift, corrected, exitAt, boundVars>>

CloseDesktop ==
  /\ proc = "desktop"
  /\ proc' = "off"
  /\ UNCHANGED <<venueVars, start, dbVars, memoryVars, drift, corrected, exitAt, boundVars>>

\* run-soak, another headless command, leaves a break that nothing closes.
SoakLeavesBreak ==
  /\ Breaks
  /\ proc = "off" /\ start = NoStart
  /\ openBreak' = TRUE
  /\ UNCHANGED <<venueVars, proc, start, ks, checkpoint, stored, posLocal, memoryVars,
                 drift, corrected, exitAt, boundVars>>

-----------------------------------------------------------------------------
(* run_trading_loop_iteration *)

\* Whether the upsert changes a candle that was already stored.
Rewrites == \E i \in Window \intersect Known(stored) : stored[i] # market[i]

\* Fetch and upsert with nothing new: the iteration ends before the rule.
PollNothingNew ==
  /\ proc = "loop" /\ job = NoJob
  /\ Inserted = {}
  /\ stored' = Upserted
  /\ corrected' = (corrected \/ Rewrites)
  /\ UNCHANGED <<venueVars, proc, start, ks, openBreak, checkpoint, posLocal,
                 memoryVars, drift, exitAt, boundVars>>

\* What the iteration carries from its transaction to the submit.
Submission(side) ==
  IF side = "ABSTAIN" THEN NoJob ELSE [side |-> side, ks |-> ks, qty |-> posLocal]

\* New candles: one transaction stores them and reads the kill switch and the
\* position; then the rule is evaluated, once, on the newest.
PollNew ==
  LET verdict == Evaluate(rule, Snapshot(Upserted))
  IN /\ proc = "loop" /\ job = NoJob
     /\ Inserted # {}
     /\ stored' = Upserted
     /\ rule' = verdict.rule
     /\ job' = Submission(verdict.side)
     /\ exitAt' = IF verdict.side = "EXIT_LONG" THEN Newest(Upserted) ELSE exitAt
     /\ corrected' = (corrected \/ Rewrites)
     /\ UNCHANGED <<venueVars, proc, start, ks, openBreak, checkpoint, posLocal,
                    paperPos, drift, boundVars>>

-----------------------------------------------------------------------------
(* What becomes of the decision (DurableOms has the steps of a submit) *)

Done == job' = NoJob
LoopFrame == UNCHANGED <<venueVars, proc, start, ks, openBreak, checkpoint, stored, rule,
                         corrected, exitAt, boundVars>>

Delta == IF job.side = "ENTER_LONG" THEN EntryQty
         ELSE IF job.qty >= 0 THEN -job.qty ELSE job.qty

\* Variant of Sendable that lets entries through under a raised kill switch.
Sendable_Ungated ==
  \/ job.side = "ENTER_LONG"
  \/ job.side = "EXIT_LONG" /\ job.qty # 0

\* The gate built from the kill switch refuses an entry; an exit is
\* reduce-only and passes, but is not sent for a flat ledger.
Sendable ==
  \/ job.side = "ENTER_LONG" /\ job.ks < 1
  \/ job.side = "EXIT_LONG" /\ job.qty # 0

\* account_not_ready, or reconciliation_mismatch: no order.
NotSubmitted ==
  /\ proc = "loop" /\ job # NoJob
  /\ ~Sendable
  /\ Done
  /\ drift' = TRUE
  /\ LoopFrame /\ UNCHANGED <<posLocal, paperPos>>

\* The paper broker fills at once, and the ledger takes the broker's position.
SubmitBooked ==
  /\ proc = "loop" /\ Sendable
  /\ paperPos' = paperPos + Delta
  /\ posLocal' = paperPos'
  /\ Done
  /\ LoopFrame /\ UNCHANGED drift

\* The transaction before the send fails, or the one after it.
SubmitFails ==
  /\ Failures
  /\ proc = "loop" /\ Sendable
  /\ \E sent \in BOOLEAN : paperPos' = paperPos + (IF sent THEN Delta ELSE 0)
  /\ Done
  /\ drift' = TRUE
  /\ LoopFrame /\ UNCHANGED posLocal

\* Ctrl+C, or a crash, at any point.
LoopDies ==
  /\ proc = "loop"
  /\ stops < MaxStops /\ stops' = stops + 1
  /\ proc' = "off"
  /\ rule' = NoRule /\ paperPos' = 0 /\ job' = NoJob
  /\ drift' = FALSE /\ exitAt' = 0
  /\ UNCHANGED <<venueVars, start, dbVars, corrected, backs, corrections>>

Environment == Tick \/ VenueCorrects \/ ClockSetBack \/ SoakLeavesBreak
Launch == \/ \E who \in {"desktop", "loop"} : BeginStart(who)
          \/ TestClock \/ StartRefused \/ StartDies
Desktop == StartDesktop \/ TrayPause \/ CloseDesktop
Loop == \/ StartLoop \/ PollNothingNew \/ PollNew
        \/ NotSubmitted \/ SubmitBooked \/ SubmitFails \/ LoopDies

Next == Environment \/ Launch \/ Desktop \/ Loop

Spec == Init /\ [][Next]_vars

\* The owner keeps starting the loop, and closes the desktop to do so.
FairSpec ==
  /\ Spec
  /\ WF_vars(BeginStart("loop")) /\ WF_vars(TestClock)
  /\ WF_vars(StartLoop \/ StartRefused \/ StartDesktop) /\ WF_vars(CloseDesktop)
  /\ WF_vars(Tick) /\ WF_vars(PollNew)

-----------------------------------------------------------------------------
(* Safety *)

\* What the strategy believes, what positions_local says and what the paper
\* broker holds agree between two iterations, unless an order was refused or
\* lost, or the process began with a position its broker does not know.
InStep ==
  (proc = "loop" /\ job = NoJob /\ ~drift) =>
     /\ posLocal = paperPos
     /\ posLocal \in {0, EntryQty}
     /\ rule.inPosition <=> posLocal # 0

\* The averages the rule remembers are those of the newest stored candle,
\* across restarts, cooldowns and polls with nothing new, so that no cross
\* between two stored candles is missed or seen twice.  A late correction of
\* a stored candle is not evaluated.
CrossMemory ==
  (proc = "loop" /\ ~corrected) => rule.prev = Snapshot(stored)

\* A long is not held below the cross: it was entered above, and the first
\* evaluation below sells it.
HeldAboveSlow ==
  (proc = "loop" /\ job = NoJob /\ ~drift /\ ~corrected /\ posLocal # 0) =>
     Snapshot(stored) # "below"

\* The rule moves only on a candle newer than any stored before: re-reading
\* the same candle every minute must not use up the cooldown.
JudgedOnce ==
  [][(proc = "loop" /\ proc' = "loop" /\ rule' # rule) =>
        Newest(stored') > Newest(stored)]_vars

\* No entry is decided within `cooldown` candles of an exit of this process.
CooldownKept ==
  [][(job'.side = "ENTER_LONG" /\ job.side # "ENTER_LONG" /\ exitAt # 0) =>
        Newest(stored') - exitAt > Cooldown]_vars

\* While the stored kill switch is raised nothing is bought.
PausedNeverBuys ==
  [][(proc = "loop" /\ proc' = "loop" /\ paperPos' > paperPos) => ks = 0]_vars

\* The checkpoint goes back only if the clock does between the jump test and
\* the write of one launch.  A clock set back before the test, during an earlier
\* launch that died or was refused, or while a desktop or a loop ran, never
\* makes an earlier time the known-good one.
CheckpointKept ==
  [][checkpoint' < checkpoint => start.at = "tested" /\ wall < start.now]_vars

-----------------------------------------------------------------------------
(* What the documents say and the code does not do *)

\* "this app must never silently trade through a suspicious clock state"
\* (startup.py): a launch never puts the checkpoint back.
CheckpointAdvances == [][checkpoint' >= checkpoint]_vars

\* "spot long-only": the account never goes short.
LongOnly == posLocal >= 0

\* "khong co vi the cung huong" (no position in the same direction): an entry
\* is made only from flat.
EntersFromFlat ==
  [][(proc = "loop" /\ posLocal' > posLocal) => posLocal = 0]_vars

\* "resolve the underlying issue and retry": an owner who keeps trying gets
\* the loop running again.
LoopComesBack == (proc = "off") ~> (proc = "loop")
=============================================================================

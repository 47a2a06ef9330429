# AutoTrade: verification of the trading desktop

TLA+ modules for the trading desktop in this repository: what the program does
with an order from the moment a strategy or the owner asks for it until the
ledger agrees with the broker, under process death, failing transactions, lost
answers and late fills; how the trading loop gets to run, judges candles and
keeps its belief, the ledger and the paper broker together over restarts; what
stands between an installed program and DEMO trading; and the parts around them
that must not lose anything: kill switch, notification outbox, command runtime,
PIN, backup and restore, single instance.  TLC checks the modules on small
instances; TLAPS proves the main safety properties for every instance.

Paths below are relative to `src/autotrade/` unless they start with `specs/`,
`tests/` or `Kien-truc` (the architecture document).

## 1. Inventory

The program is one Python process per entry point (desktop, `run-trading-loop`,
`run-soak`, `run-lifecycles`, `cancel-intent`, ...), one SQLite database and one
broker account.  A single-instance lock keeps two entry points from running
together.  There are no worker threads; asyncio is used by `core/runtime.py` only.
So calls are sequential, and what interleaves is: the process with the *broker*
(which fills orders when it likes), with *its own death* between any two
transactions or broker calls, and with *the next process*, which finds the
database but none of the memory.

| Component | State | Operations | What makes it correct |
|---|---|---|---|
| Order state machine (`core/oms/fsm.py`) | state and delivery axis of an intent | `can_transition`, `transition` | states only climb; terminal ones stay |
| Durable submit (`core/oms/submit.py`) | rows of `order_intents`, `orders`, `risk_reservations`, `fills`, `positions_local`, `execution_cursors` | `submit`, with `_persist_pre_submit`, `_mark_unknown`, `_finalize_fill` | commit before send; one send per order; an unknown outcome keeps its reservation |
| Unknown resolution (`core/oms/unknown.py`) | the same rows | `resolve_unknown` | never re-places; not found is not rejected; converges |
| Cancel (`core/oms/cancel.py`) | the same rows | `cancel_intent` | one cancel per order; CANCELED only if confirmed |
| Reconciliation and ledger (`core/ledger/`) | `fills`, cursor, `positions_local`, `recon_breaks` | `reconcile`, `ingest_fill`, `upsert_position_local` | one row per execution; broker's position wins; orphans lock the account |
| Broker adapters (`core/adapters/`) | connection; paper: book, executions, positions, stops; exchange: stops only | connect, place, cancel, query, list, protect | one order per client id; answers mean what they say |
| Gate, protection, flatten (`core/oms/`) | `AccountGate.status`, in memory | lock, recover, mark ready; `sync_protection`; `flatten_position` | only a recovered, protected account may add exposure |
| Startup recovery (`core/oms/recovery.py`, `app_ui/services/startup.py`) | gate, restored kill switch, clock checkpoint | `run_startup_recovery`, freshness and clock checks | READY only if connected, complete, fresh and without breaks |
| Risk engine (`core/risk/engine.py`) | `_held`, in memory | `check_increase`, `release` | entries need READY; limits hold |
| Kill switch, Telegram (`core/risk/kill_switch.py`, `core/notify/commands.py`) | level per scope; seen update ids | `raise_to`, `persist`, `load`, `/pause` | stored level never falls; an update is handled once |
| Trading loop, strategy (`core/oms/trading_loop.py`, `core/strategy/`, `core/features/`) | candles; crossover, position flag and cooldown in memory | one iteration per poll; seeding after restart | a closed candle is judged once; belief and position agree |
| Certification, soak (`core/certify/`) | certificate row, lifecycle evidence, soak rows, soak runner and script of a dead one | mark, record, promote, invalidate; soak start, pause, complete | valid only on evidence in the tables, and while a soak has passed |
| Accounts, broker hub (`core/accounts/`, `app_ui/controllers/broker_hub.py`) | account rows, active flag, stored credentials | switch, enable, disable, store | one active account; switched only when quiet; marked only after all gates |
| Outbox (`core/notify/`) | outbox rows | enqueue, drain, back off, dead-letter | delivered, retried or dead; nothing forgotten |
| Runtime (`core/runtime.py`) | queue, worker, futures | submit, start, stop | commands in order; every caller answered |
| Backup (`persistence/backup.py`) | snapshot files, the database file | snapshot, rotate, restore | a restore can be undone and leaves what was chosen |
| Single instance, PIN, settings (`app_ui/services/single_instance.py`, `persistence/pin.py`, `app_ui/controllers/settings.py`) | mutex or lock file; PIN row | acquire, release; verify, set | one owner; guesses are bounded; lockout ends |
| Views, read models, entry points, money, redaction | none of their own | read and display | presentation, not modelled |

Interaction: the trading loop, the flatten button and the lifecycle runner each
build an adapter, a risk engine, a gate and a `DurableSubmitter`, and call
`submit`; `submit` calls the adapter, `resolve_unknown` (only in its
simulated-timeout branch) and `sync_protection`; the soak runner calls
`run_startup_recovery` and `reconcile`; the desktop calls
`run_startup_recovery`.  All of them meet in the database; the kill switch is the
only lock that survives a process.  The soak runner and the script for a dead
soak (`finalize_orphan_soak.py`) write the certificate that `enable-demo` asks
for; the settings page overwrites the database under everybody else, which is
safe because of the single-instance guard alone.

`PROJECT.json` lists every hazard with its line.  The hard ones of the order path are
the windows between a commit and a broker call, a finalize that rolls back after
the broker acted, "not found" that means "not yet", listings that lag or overlap,
a cancel racing a fill, and in-memory locks that the next pipeline does not see;
outside it, the several copies of one kill switch, a pause racing the end of a soak
and the script that completes it, a clock set back in the middle of a launch, sends
that a rollback forgets, a handler that fells the command worker, and a restore that
dies or meets a clock set back between two file operations.

## 2. Modules

| Module | Models |
|---|---|
| `OrderFsm` | `core/oms/fsm.py`: states, delivery axis, legal moves, and a rank (`Progress`) that every legal move raises |
| `OrderDelivery` | abstract promise: an order becomes durable, may then be placed once, and is settled only after it was placed |
| `DurableOms` | the order path over database, broker and process lifetime |
| `MCDurableOms` | request sets for TLC |
| `DurableOms_proofs` | theorems about `DurableOms` and their proofs |
| `DurableLedger_proofs` | those about the ledger: executions booked once, and the sums on the paper broker |
| `TradingLoop` | startup recovery, the loop's polls, `RuleSmaCrossV1` and the position, over restarts |
| `TradingLoop_proofs` | theorems about `TradingLoop` and their proofs |
| `Certification` | certificate and its gates, soak runner and script, drift check, accounts and their switches |
| `MCCertification` | symmetry of versions for TLC |
| `KillSwitchLatch` | abstract promise: a level per scope that only rises and covers every level reported as set |
| `KillSwitch` | row and copies of the kill switch, their users, Telegram updates, the Flatten button |
| `SingleInstance` | the guard with its two backends |
| `Backup` | snapshot, rotation and restore as file operations |
| `Settings` | PIN, and the composition of `SingleInstance` and `Backup` with the other writers of the database |
| `Outbox` | notification rows and the drain that sends them |
| `SerialCommands` | abstract promise: commands are served one at a time, in order, each once |
| `CommandRuntime` | `Runtime`: queue, worker, callers |
| `Certification_proofs`, `KillSwitch_proofs`, `Settings_proofs`, `Outbox_proofs`, `CommandRuntime_proofs` | theorems about these and their proofs |

### DurableOms and the code

One account, one symbol.  `row[o]` stands for the intent, order and reservation
rows of client order `o`; `fills`, `localFills`, `posLocal`, `cursor`,
`openBreak` and `ks` for the other tables; `gate`, `held`, `conn` and `prot` for
memory; `border`, `trades`, `posBroker` for the broker.  `call` says where the
running call stands between two of its transactions and broker calls, so a step
is one transaction (`with uow.session()`) or one broker call, the grain at which
the process can die or the broker can move.  The `...Fails` actions are the
transactions that roll back.

* `BeginSubmit`, `CommitIntent`, `CommitFails`, `NotSent`, `MarkBeforeSend`,
  `PlaceAnswered`, `PlaceRaises`, `Finalize`, `MarkUnknown` and their failures are
  the branches of `submit`, in the order of its source.
* `BeginResolve` to `ResolveFails` are `resolve_unknown`; `BeginCancel` to
  `CancelPersistFails` are `cancel_intent`; `BeginReconcile` to `ReconcileFails`
  are `reconcile`.
* `Startup` and `SoakResume` are the two callers of `run_startup_recovery`;
  `OpenPipeline` is what the trading loop, the flatten button and the lifecycle
  runner build before they submit.
* `Crash` clears the memory.  On paper the broker's book is memory too: `base`
  counts the executions it has forgotten.
* `BrokerExecute` and `ExternalTrade` are the exchange, which is not part of this
  repository.

`Paper` chooses between the two adapters.  `Hooks` turns on what only the tests
and the simulated timeout use: the `on_before_adapter` hook, the timeout branch
and free calls of `resolve_unknown`.  `ReconScope` is the kill-switch scope that
`reconcile` is given: its callers disagree (the soak runner passes the account
id).  Client order ids are fresh (`uuid4`), so an order is submitted once.
Quantities are lots: two per order, enough for none, part and all of it filled.

### TradingLoop and the code

One PAPER account; `proc` is who holds the single-instance lock.  `stored`,
`posLocal`, `ks`, `openBreak` and `checkpoint` are tables; `rule` and `paperPos`
die with the process.  A candle is reduced to where the fast average stands when it
closes (`Rel`): the rule compares the two averages and nothing else, and the
venue chooses freely, which includes every price series.  Time is counted in
candles, the minute between two polls is not.

* A launch is `run_desktop_startup_recovery` in the three steps at which it reads the
  clock: `BeginStart` (breaks, checkpoint and freshness, read in one transaction),
  `TestClock` (`detect_clock_jump`), and the write of the checkpoint in `StartLoop` or
  `StartDesktop`.  The loop is refused unless ready (`StartRefused`), the desktop opens
  regardless; `StartDies` is a death in between or a transaction rolled back.  `start`
  is what the launch has read so far.  The clock may be set back between any two steps.
* `PollNothingNew` and `PollNew` are `run_trading_loop_iteration` up to the decision:
  one transaction, then the rule in memory.  A fetch that raises or a transaction
  that rolls back leaves both as they were.
* `NotSubmitted`, `SubmitBooked`, `SubmitFails` are the three things that can
  become of a submit against the paper broker, as `DurableOms` has them in full: no
  order, an order booked, or an order lost before or after the broker filled it.
  `job` is what the iteration read before and uses after.
* `LoopDies` may come between any two of these; `TrayPause` needs the desktop,
  which cannot run beside the loop.
* `drift`, `corrected`, `exitAt` are history: an order was lost, a stored candle
  was corrected, when this process last decided to exit.

### Certification and the code

A command (`enable-demo`, `switch-account`, `cert-mark-*`, `cert-check-drift`, a
button of the Broker Hub) is one transaction of a process that holds the guard, so
it is one action.  `run-soak` holds the guard for days and commits several
times: `SoakStart`, `SoakCheck` (its pause check), `SoakBeat` (recovery and
reconciliation), `SoakCount`, `SoakRead` and `SoakFinish`, and `SoakDies` at any point.
`finalize_orphan_soak.py` takes no guard and is `ScriptStart`, `ScriptRecon`,
`ScriptRead` and `ScriptComplete`, which interleave with everything, a living runner
included.  The `...Read` steps and what follows them are the two halves of the
transaction around `SoakController.complete`: SELECTs, then an UPDATE of the columns
that changed against what was read (`Updated`), with no version of the row to check;
SQLite takes its write lock at the UPDATE only.  `soak-abort` writes two columns
whatever it read, so it stays one step.

`cert`, `evidence`, `soaks`, `accounts`, `openBreak` are tables;
`creds` is the keyring, as far as there is an entry.  `unclear` are the accounts with
an intent the account switch looks for, `exposed` those with a position or an order it
does not look for.  `LockHolds = FALSE` is the guard with one process fallen back to the
lock file, and lets `soak-abort` and every other command run beside the soak.  Time
counts heartbeats and may pass between any two steps (`Tick`): a machine may sleep.

### KillSwitch and the code

A copy of `KillSwitch` is a record like its row.  `bot` is the one the command
handler keeps, `startKs` lives from the load of a desktop start to the persist of
its recovery, `runKs` are those of the soak and its script; tray and Flatten load
one and drop it in the same transaction.  `Persisted` is `persist`: it returns what
both row and copy hold afterwards.  Every action that stores may be rolled back
(`Rollback`); a copy keeps what it had raised.  `inbox` is Telegram, which
delivers an update as often as it likes; `seen` is `telegram_updates`.  The
command handler has no shipped caller; that it runs beside a starting desktop
(`BotBeside`) is the worst case.  `Flatten*` reduce `flatten_position` to what it reads
and the gate and risk checks it meets; its order is that of `DurableOms`.

### Settings, SingleInstance, Backup and the code

`SingleInstance` and `Backup` have variables of their own and are instantiated by
`Settings`, whose actions join them: the settings page works under the desktop's
guard, `OtherWrite` is everything else that writes, from either process.  A
restore is `RestoreCapture`, `RestoreSafety`, `Rotate`, `RestoreOverwrite`; between
two of them the desktop may die (`Stop`), the clock may move and so may nothing
else that the guard excludes.  A file is named by its second; `Damaged` is any
content that `integrity_check` or the comparison of alembic versions refuses.  The
database is its PIN row and a number that stands for all other tables.

### Outbox, CommandRuntime and the code

A drain is one transaction around its sends: `drain` holds the marks until
`DrainCommits` writes them or `DrainFails` forgets them.  `reached` and `refusals`
are history that no rollback takes back.  In `CommandRuntime` an action runs from one
await to the next, which is where asyncio may change tasks.  `Dies` is a
handler that raises `CancelledError` of its own, which `except Exception` does not
catch: the worker ends, its caller has no answer, and `_worker` still names it
(`Fallen`).  `stopping` is the task a call of `stop` awaits; the instance has one
stopper (section 6).  `Serial` maps it to `SerialCommands`: what is being served is
what any task holds, and a command ends there when it is answered and when its task
ends.

A definition named `X_Something` directly before `X` (`PlaceRaises_Retries`,
`CancelOutcome_Optimistic`, ...) is `X` with one plausible slip in the code.  `Next`
never uses it; substituting it for `X` must break a property.

## 3. Properties and runs

| Run | Instance | Shows |
|---|---|---|
| `paper` | two orders (entry with stop, reduce-only exit), paper broker, one crash; 600,000 states | types; the ledger books no more than was ordered and no more than was traded; a sent order stays covered; rows agree; SUBMITTING means not sent; `OrderDelivery` is implemented |
| `demo` | one order (entry or exit), exchange, one outside trade, two crashes; 320,000 states | commit before send; one place, one cancel; CONFIRMED and CANCELED are true of the exchange; one ledger row per execution; the inductive invariant; states never fall back and leave the table of `fsm.py` in two ways only, once the order was sent or is held by the simulated timeout |
| `trading_loop` | five candles, fetches of three, one correction, one clock setback, one death or desktop session, failing submits; 2,400,000 states | belief, ledger and broker in step unless an order was lost; the rule remembers the newest stored candle; a long is not held below the cross; a candle is judged once; the cooldown holds; nothing is bought under a raised kill switch; the clock checkpoint goes back only if the clock does within one launch |
| `certification` | two accounts, one soak, two versions, gates of two, a lock that does not exclude; 1,300,000 states, 100 s | a valid certificate rests on both suites, rows of round trips and a soak that began long enough ago; nobody marked certified before all gates were passed |
| `accounts` | two accounts, one of them in doubt or exposed at a time, gates of one; 400,000 states | one active account, whatever mixture of commands came before |
| `kill_switch` | one update, soak and script, a bot beside the starting desktop; 210,000 states | the stored switch is a latch (refinement of `KillSwitchLatch`); an update pauses at most once |
| `settings` | two processes, two backups kept, three seconds, one table row, lockout after two; 2,900,000 states, 90 s | a restore loses nothing, and leaves what was chosen; wrong PINs are bounded |
| `outbox` | two events, five attempts; 46,000 states | no event is lost; sent and dead rows are final; each drain that commits settles what it took or counts an attempt |
| `runtime` | three callers, two starts, one stopper, a handler that may fell the worker, under fairness; 6,400 states | one worker at a time; `SerialCommands` is implemented; a queued command is answered while the worker lives |
| `double_booking`, `unknown_stays`, `pin_lockout` | smallest instance that shows the point | what documents and comments say and the code does not do (section 5) |

Bounds.  Two orders are what it takes for one order's finalize to step over
another's execution; one is enough for the properties of a single order, which no
action relates to another's row.  Two crashes let a process die, recover, and
die again in the recovery of the first; one crash suffices for paper, where it
empties the broker.  Lots per order: two.  Outside trades: at most one
(`ExternalTrade`).  Five candles are what an entry, its exit, a cooldown of one, a
fetch of several candles and a restart into stale data need; a window of three lets a
gap open that a fetch cannot close.  The bounds of `TradingLoop` (`MaxCandles`,
`MaxBack`, `MaxCorrections`, `MaxStops`) bound the environment, never the loop.
Nothing else is bounded there.  `CHECK_DEADLOCK FALSE` is set because
an instance really may stop: every client order id used and the crash budget
spent, or every start of the runtime used.

`Certification`: one soak is enough for runner and script to meet on it, and a
second soak would only follow the first; two accounts let one be active and the
other be enabled, relabelled or counted; gates of two (`Gate`, `Required`) have a
state in which they are half reached.  `MaxSoaks`, `MaxCycles`, `MaxWall` and
`MaxDoubts` (accounts `unclear` or `exposed` at one time) bound the environment; the
proofs hold for all their values.  Doubts only make a switch refuse, and multiply the states
of everything else: the run `certification` has none (an open break refuses there), the
run `accounts` has them and makes the gates small instead.  `Settings`: `MaxClock` gives three
seconds, which is one more than the two backups kept, so a rotation deletes and a clock
set back finds later ones; `Limit` and `Keep` are small where the code has 5 and its
retention, and the proofs hold for all.  `KillSwitch`: one update, as
updates share nothing but the switch, which the soak, the tray and the desktop
raise beside it.  `Outbox` has the code's five attempts; `CommandRuntime` two starts, so
that a worker can meet its predecessor.

Fairness (`Fairness` of `DurableOms`, under which `unknown_stays` finds its
counterexample).  A started call goes on: the code has no wait in it, and every broker
call returns or raises.  A dead process is started again, pipelines are built, and
reconciliation keeps being called and keeps committing, which is more than the shipped
entry points promise.  Nobody is made to call `resolve_unknown`, since nobody does
(section 6), and nothing is assumed of the broker or of new requests.  `FairSpec` of
`TradingLoop` (which no run keeps, see section 5) lets time pass, polls happen, launches
go on, and the owner close the desktop and start the loop for as long as it is possible: all
the retrying the refusal asks for.

`CommandRuntime`: the event loop runs what can run (`Takes`, `Ends`, `StopEnds` weakly
fair), and a handler returns or raises in the end, be it `CancelledError` (`Answers` or
`Dies`).  Nothing is assumed of callers, starts and stops: `QueuedServed` therefore speaks
of a command while the worker lives.  The other modules assume no fairness.  The drain
of the outbox has no shipped caller, so `EachDrainCounts` says what a drain does when it
is called and commits, not that it is called, nor that it commits: a message that
always raises what nobody expects rolls every drain back.

## 4. Proofs

`DurableOms_proofs` proves, for all `Orders`, `Requests`, adapters, scopes, crash
bounds and any number of lots, from the named assumptions in `DurableOms`
(`OrdersAssumption`, `RequestsAssumption`, `FlagsAssumption`, `ScopeAssumption`,
`BoundsAssumption`):

* `TypeCorrect`: `Spec => []TypeOK`.
* `InvariantHolds`: `Spec => [](TypeOK /\ IInv)`.
* From it `CommitBeforeSend`, `NoBlindRetry`, `SentIsCovered`,
  `SubmittingMeansNotSent`, `ConfirmedOrdersExist`, `RowsNeverContradict`.
* `NeverFallsBack`, the action property on intent states.
* `StatesLeaveTableOnceSent`: `submit` and `resolve_unknown` do not ask the table of
  `fsm.py`; still every change of a stored state is one of its moves, but for RESERVED to
  FILLED of an order that was sent, and RESERVED to UNKNOWN of one that was sent or is held
  by the simulated timeout.  It rests on how often an order was sent, which `CallInv`
  ties to the position of the call.  `TableClimbs` says what the table gives: every move
  raises the rank and leaves no terminal state.
* `KeepsDeliveryPromise`: `DurableOms` implements `OrderDelivery` under the
  mapping `phaseBar` (read off the durable reservation) and `places <- sends`.

None of the others is inductive.  "Placed at most once" holds because a
place happens only at `call.at \in {"send", "hook_place"}`, and there the row is
RESERVED or UNKNOWN *and the order was not sent yet*; so the invariant must tie
the position of the call to the row (`CallInv`) and the row to the broker calls
made, the reservation and the broker id (`RowInv`).  `IInv` is their conjunction
with `RowsAgree`.  The proof has one case per action; most actions touch no row
(`NoOrderTouched`) or one (`OneOrder`), and a call that ends is `Idle`
(`IdleInv`).  For the refinement, `StepMoves` shows that a step leaves rows and
sends alone or moves one order along one of five moves (`Commits`, `Defers`,
`Places`, `Settles`, `Advances`), from which the abstract step, and the
monotonicity of states, follow.

`DurableLedger_proofs` extends that module by the ledger:

* `ExecutionsBookedOnce`, one row per execution id, from an invariant of its own
  (`LedgerStep`): every step ingests at most one page, and a page has no id twice.
* `PaperNeverDoubleBooks` and `PaperBooksWhatTraded`: `NoDoubleBooking` and
  `BookedWasTraded` for the paper broker (`ASSUME Paper`); with the exchange the first
  fails (section 5).  Both sum by a fold over a set, whose induction no prover here
  does.  On paper none is needed: `PaperInv` (theorem `PaperLedger`) says that an order
  trades at most once, in the step that places it (`ExecInv`), that a row of the
  ledger is an execution with its quantity and no row has a made-up id, since the
  listing read after an answer has it (`BookInv`, `AnswerInv`).  So the set summed has at
  most one member (with `ExecutionsBookedOnce`), also after a crash has emptied the
  book, and `BookedInFew`, `TradedInFew` evaluate the fold there by exhibiting the
  recursive function that defines it.

`TradingLoop_proofs` proves every property of the run `trading_loop` from
`LoopAssumption`, for any number of candles, warm-up, cooldown, window, staleness
limit and failures.  `IInv` ties the decision being submitted to the rule and the
ledger (`RuleInv`, `StepInv`): "in step" between iterations needs to know that an
entry under way found the ledger flat, and an exit one lot.  `CandlesIn` says that
stored candles exist at the venue and have a newest; the existence of a maximum
would need induction, so it is carried as an invariant.  `HInv` adds that the newest
stored candles have no gap as far back as a fetch reaches (`WindowInv`): without it
a fetch could insert a candle older than the newest and the rule would judge the
newest again; that what is left of a cooldown and the candles since the exit add up
(`CoolInv`); and that nobody raises the kill switch beside the loop (`PauseInv`).
`CheckpointFallsInOneWay` needs of a launch that passed its test that the checkpoint
was not later than the time tested.
`EvaluateEffect` states what one evaluation may do, once, for all of them.

`Certification_proofs` proves every property of the runs `certification` and `accounts`
from `CertificationAssumption` and `NoneAssumption`, with the lock or without.  "Valid
rests on rows" is the one that needs thought: the certificate's flags are never reset, so
each flag must remember a row that nobody can spoil, although runner, script and
`soak-abort` write one row from stale reads.  For the soak that is one that is over and
began as long ago as one has to last (`SoakEvidence`): no write moves a start, reopens a
row or turns the clock back, and what a transaction read of the gates still holds when it
writes (`ReadKept`), as flags only rise.  That this soak has also *passed* is not true
of the code (section 5).  `Kept` and `AccountMoves` say what any step does to the
certificate and to the accounts; there is a lemma per action for each.

`KillSwitch_proofs`: `ImplementsLatch` (every row, copy, restart and rollback is a
step or a stutter of `KillSwitchLatch`), `OneEffectPerUpdate` and the types, from
`KillSwitchAssumption`.  The invariant says that what was reported as set is in the row,
and that a flatten built under a locked gate still sees a raised level.

`Settings_proofs`: from `SettingsAssumption` alone, the types and `PinAttemptsBounded`:
whoever else writes keeps the PIN row, so the bound does not need the guard.  From
`MutexFails = FALSE` as well, that two processes never run together (`GuardExcludes`),
and with it `RestoresTheChosen` and `RestoreLosesNothing`: from the safety copy to the overwriting nobody writes the
database, so the copy still equals it; the newest `Keep` survive a
rotation, and the copy is one of them unless `Keep` later ones exist.
The invariant is in two parts, `IInv` and `Guarded`; each step is shown to keep the
first, and the second if it held (`Holds`).

`Outbox_proofs`: `NoEventLost`, from `OutboxAssumption`, by an invariant that gives
every row, stored or marked in an open drain, a reason for its status; and
`SettledStaysSettled`, by one that says that what an open drain would write back
continues what is stored now (`DrainCurrent`), whatever was enqueued or came due since;
and `DrainsMakeProgress`, by `Progress`: what an open drain has marked is settled there or
has one attempt more than is stored, what it has still to send is not marked.
`CommandRuntime_proofs`: `RuntimeOneOwner`, from `RuntimeAssumption` and one stopper
at a time: a task that neither is new nor has ended is the worker.  From the same
invariant `ServesInOrder`, the refinement of `SerialCommands`: whoever takes a command
finds nobody served, and a command ends once.

Where the types are proved without a condition on the environment, for every value of
the constants, the runs of `certification`, `kill_switch`, `settings`, `outbox` and
`runtime` do not check them again (`CertificationTypes`, `KillSwitchTypes`,
`SettingsTypes`, `OutboxTypes`, `RuntimeTypes`).

Every safety property a passing run checks is proved, `NoDoubleBooking` and
`BookedWasTraded` for the adapter of their run, the paper broker.  Only model-checked:
the liveness property `QueuedServed`, which this prover does not reach.

## 5. Where the documents and the code differ

Shown by a run:

* `NoDoubleBooking` (`double_booking`): when the exchange's trade listing lags, the
  fill is booked as `local-<client id>` (`core/oms/submit.py:409`), and reconcile
  books the execution again under the broker's id.
* `UnknownConverges` (`unknown_stays`, under `Fairness`): an intent whose `place_order`
  raised stays UNKNOWN and its reservation held, however often the program is restarted
  and reconciles: `reconcile` (`core/ledger/recon.py:26`) rewrites no intent, and nobody calls
  `resolve_unknown`.  `specs/001-d1a-paper-core/data-model.md:58` has it end "via recon".
* `SetPinNeverRaises` (`pin_lockout`): `lockout_until` comes back from SQLite
  without a time zone and is compared with a time that has one
  (`persistence/pin.py:39`): once locked, the PIN can never be changed again, not
  after 15 minutes either.  Nothing but the restore of an older backup clears the column.

The following properties are stated in the modules, each with the document it is
from; TLC refutes each in a few steps when it is added to a configuration of its
module.  No run keeps them.

* `ReconcileConverges` (`DurableOms`): `reconcile` (`core/ledger/recon.py:55`)
  visits only symbols the broker lists, and a flat one is not listed.
* `ReconcileFindsMissedFills` (`DurableOms`): the cursor written by `_finalize_fill`
  (`core/oms/submit.py:454`) passes over an UNKNOWN order's execution.
* `FilledIsDone` (`DurableOms`): a partial answer is stored as FILLED
  (`core/oms/submit.py:396`).
* `ProtectedOrLocked` (`DurableOms`): a lock raised because the stop failed lives in a
  gate that the next pipeline does not see.
* `SentFromSubmitting` (`DurableOms`): the order is sent out of RESERVED
  (`core/oms/submit.py:201`); the comment at line 160 and Kien-truc line 676 place
  SUBMITTING before the adapter call.
* `CheckpointAdvances` (`TradingLoop`): the clock is read for the jump test and again for
  the checkpoint (`app_ui/services/startup.py:208`, `:219`); set back in between, it makes a
  ready launch store an earlier time, and the next launch finds nothing wrong.  Its
  docstring (line 155) says that the app "must never silently trade through a suspicious
  clock state".  `CheckpointKept` says that this is the only way.
* `LongOnly` (`TradingLoop`): after a restart the strategy knows the position from
  the ledger, the new `PaperAdapter` (`entrypoints/headless.py:838`) does not; the
  exit sells it short, and the short is stored.
* `EntersFromFlat` (`TradingLoop`): the rule gives its position up before the exit is
  submitted (`core/strategy/rule_sma_cross_v1.py:58`); a failed exit leads to a
  second entry.
* `LoopComesBack` (`TradingLoop`, under `FairSpec`): stale candles refuse the loop
  (`app_ui/services/startup.py:96`), and only the loop stores fresh ones.

* `PausedNeverPasses` (`Certification`): the script reads a soak, `soak-abort` pauses it,
  the script writes `passed` (`core/certify/soak.py:70`): both columns are set and the
  certificate is valid.  The docstring of that file says "Owner pause fails gate".  With
  `LockHolds = FALSE` the runner does the same.
* `PassedSoakBehindValid` (`Certification`): `soak-abort` of a soak that has passed
  (`core/certify/soak.py:47`) takes its pass back and leaves the certificate valid;
  `specs/002-d1b-ccxt-demo/contracts/certification-evidence.md:13` asks for a soak behind
  it.  So does a runner that outlives the script and then finds a break.
* `ExposedStaysActive` (`Certification`): the switch looks for UNKNOWN and SUBMITTING
  intents only (`core/accounts/active.py:53`), and every caller passes a position of 0.0;
  `specs/002-d1b-ccxt-demo/contracts/account-switch.md:12` and `:14` ask that the account be
  flat, with no intent in a non-terminal state.
* `DemoActivatedCertified` (`Certification`): `switch-account demo` takes the first DEMO
  account without asking for its status or the certificate
  (`app_ui/controllers/broker_hub.py:321`); line 16 of the same contract asks for it.
* `FlattenNeverRefused` (`KillSwitch`): `reduce_only` lifts the level of the switch but not
  the limits of `check_increase` (`core/oms/submit.py:86`): at the fixed price of 50,000
  that the button assumes, more than two units are beyond the notional limit
  (`app_ui/controllers/kill_switch.py:61`); and a short is flattened by a buy, which the
  gate refuses while the switch is raised.  Kien-truc line 69 and
  `specs/001-d1a-paper-core/spec.md:124` say that exits are not blocked as entries.
* `RaisesSurface` (`CommandRuntime`, under its fairness): after a handler's own
  `CancelledError` (`core/runtime.py:56`) its caller has no answer, `start` does nothing
  and nobody in the queue is served until `stop` is called, although the comment there
  says "surface to caller future".  The handler shipped today, an echo, does not raise it.

One more follows from setting a flag of an instance the other way: `MutexFails = TRUE`
breaks `OneInstance`, `NothingLost` and `RestoredWasChosen`: the holder of the mutex and
the holder of the lock file do not exclude each other, although
`app_ui/services/single_instance.py:101` says "fail closed to the file backend
rather than silently allowing a second instance".

## 6. Observations without a run

Order path and loop:

* Several candles fetched together are judged once, on the last, and the averages
  run across a gap longer than the window; Kien-truc line 518 and
  `specs/001-d1a-paper-core/spec.md:37` ask to abstain on a gap.
* The loop holds the single-instance lock, so the owner can pause only by stopping
  it; on a PAPER account the flatten button builds a broker that is always flat.
* The cooldown does not survive a restart (documented in `core/oms/trading_loop.py`).
* `submit` moves rows from RESERVED to FILLED and UNKNOWN without asking
  `fsm.transition`; `_ALLOWED` knows only RESERVED -> SUBMITTING.  SUBMITTING is stored
  on the two paths that do not send, and there alone (`SubmittingNeverSent`).
* No shipped code calls `resolve_unknown` outside `submit`'s simulated timeout,
  and none closes a recon break, although Kien-truc (line 658) sends UNKNOWN and
  CANCEL_UNKNOWN to a query.
* A restart with a position in the ledger leaves belief and paper broker apart: `InStep`
  counts it as `drift`, as it does a lost order; `LongOnly` and `EntersFromFlat` (section 5)
  show where that leads.
* The reservation of a CANCEL_UNKNOWN order is already consumed when it was
  acknowledged; Kien-truc line 668 keeps it.
* The dashboard's `INFLIGHT_INTENT_STATES` (`app_ui/services/dashboard.py:38`) has
  neither CANCEL_REQUESTED nor RESERVED, in which a crash can leave an intent.

Kill switch:

* The soak's reconciliation raises level 2 under the account id; the loop, the
  Flatten button and the dashboard read "global".  Nobody who trades reads the
  account's scope.
* No shipped caller raises "global" above level 1; the `max` of `persist` and that of
  the recovery each suffice for the latch.
* `persist` stores the trigger of the copy, so an older copy overwrites a newer
  trigger; `/status` answers from the handler's copy, which may lag behind the row, or
  be ahead of it after a rollback.
* `flatten_position` reads the quantity before its order; `reduce_only` is not
  sent to the exchange.

Certification and accounts:

* A drift makes the certificate invalid, takes the new versions as baseline and
  keeps all gates (`CertCheckDrift`), so a soak alone makes it valid again;
  `specs/002-d1b-ccxt-demo/contracts/certification-evidence.md:46` and spec FR-009
  ask for the evidence anew.
* Broker Hub `enable_demo` commits READY and DEMO_CERTIFIED although the switch after
  it was refused (`app_ui/controllers/broker_hub.py:287`); `account-switch.md` says
  "Any precondition fail: No change".  Headless `enable-demo` rolls back.
* After `disable_demo` the switch does not look at the intents of the account that was
  left, since it is not active.
* `finalize_orphan_soak.py` completes a soak by the wall clock since its start, however early its
  runner died, and does not check that it died; on an error in between it uses the
  count it took before.
* `enable-demo --account-id` with the id of the PAPER account makes it a DEMO
  account; `switch-account paper` then fails on the taken id.
* `data-model.md:10` wants exactly one active account; after `disable_demo` there is none.
* A count of round trips of another account overwrites the count of the certificate, not
  the fact that the gate was reached; a soak whose runner died stays active.

PIN, backup, settings:

* The 15 minutes after which a lockout ends are not modelled: once locked, `verify_pin`
  raises before it could see that they are over (`pin_lockout`).
* A clock set back behind `Keep` later backups makes the rotation delete the backup
  just taken, the safety copy of a restore included; two in one second share a name.
* A damaged database cannot be restored from the settings page: the safety snapshot
  fails first.  Kien-truc line 972 names corruption as a case for restore.
* Restore does not lock the account, as Kien-truc lines 188 and 288 say it does.
* `set_autostart` writes the Run key, then the preference; when the second fails, the
  view falls back to the stored one, although a comment says "the checkbox must not
  lie" (`app_ui/controllers/settings.py:330`).  The two Telegram secrets are two
  keyring writes; two saves can mix.

Outbox and runtime:

* The drain's sends share one transaction: when one raises what is not expected,
  those before it are forgotten and sent again; with a message that always does so no
  drain commits and none is ever marked.  `drain_outbox` has no shipped caller.
* Two calls of `stop` that overlap: the second sets `_worker` to None when it returns,
  also when a new worker was started after the first (`core/runtime.py:31`);
  `OneOwner` fails with two stoppers.  A start during a stop does nothing.
* A command under way, or queued, when the runtime is stopped keeps its caller
  waiting; a command whose caller gave up still runs.

## 7. Not modelled, and why

* Views and read models: they read tables and show them; their conversions are
  wording.  What they enable or hide is a guard only where the controller has it too,
  and there it is modelled.
* Argument parsing, printing, smoke tests, migrations, pragmas: I/O without state that a
  property speaks of.
* Keyring and Run key beyond "there is an entry": outside the database; section 6
  notes what their second write can leave.
* Balances, fees, prices, pages of open orders, and the risk limits outside Flatten
  (the other orders have one small size): data that the control modelled here does not
  tell apart.
* Averages and the ATR: a candle is where fast stands against slow, which is all the
  rule reads.
* Money and redaction: pure helpers.
* Two drains, or two bots, at once: the guard excludes them as far as it excludes two
  processes, which `SingleInstance` has.
* A stale write-ahead log beside a replaced database file, and the swap of a file
  that another process has open on POSIX: behaviour of SQLite and the file system.

Worth adding later: a composition of `KillSwitch` with the loop, which now carries
the stored level only.

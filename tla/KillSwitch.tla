------------------------------ MODULE KillSwitch ------------------------------
(***************************************************************************)
(* The kill switch (core/risk/kill_switch.py) and those who use it: the    *)
(* tray's Pause, the Telegram commands with their table of updates, the    *)
(* recovery at a desktop start, the soak and its script, which raise it on *)
(* an orphan position, and the Flatten button, which must work while it is *)
(* raised.                                                                 *)
(*                                                                         *)
(* A switch in memory is a copy of the row of its scope, at first perhaps  *)
(* not even that.  Each transaction is one action; a copy lives through    *)
(* several, and what it remembers survives a transaction rolled back.      *)
(* Telegram delivers an update once or more often.                         *)
(***************************************************************************)
EXTENDS Integers, FiniteSets

CONSTANTS
  Updates,   \* update ids
  Runs,      \* processes that hold a copy of the account's scope (run-soak,
             \* finalize_orphan_soak.py)
  BotBeside, \* whether the bot may run while the desktop starts
  None

VARIABLES
  row,     \* kill_switch_state: the row of each scope, or None
  bot,     \* CommandHandler.ks, or None
  startKs, \* the copy of a desktop start, between its load and its persist
  runKs,   \* the copy of each of Runs, or None
  desktop, \* the desktop process
  flatten, \* KillSwitchController.flatten
  inbox,   \* what Telegram holds of each update
  seen,    \* telegram_updates: None, accepted or rejected
  effects, \* history: how often an update was taken for a pause
  told     \* history: the highest level of each scope reported as set

telegramVars == <<inbox, seen, effects>>
vars == <<row, bot, startKs, runKs, desktop, flatten, telegramVars, told>>

-----------------------------------------------------------------------------
(* Types and initial state *)

\* DEFAULT_KS_SCOPE, and the account id under which soaks raise the switch.
Scopes == {"global", "account"}

Reasons == {"pause", "telegram_pause", "recon_orphan"}

\* A copy, and a row of the table.
Switches == [level : 0..4, latched : BOOLEAN,
             trigger : [reason : Reasons, level : 1..4] \union {None}]

ASSUME KillSwitchAssumption ==
  BotBeside \in BOOLEAN /\ None # "accepted" /\ None \notin Switches

\* KillSwitch(scope=...)
Fresh == [level |-> 0, latched |-> FALSE, trigger |-> None]

\* An update by what the handler looks at: its text, whether chat and user
\* are the owner's, whether it is older than COMMAND_TTL_SECONDS.
Messages == [text : {"/pause", "/status", "/buy"}, owner : BOOLEAN, late : BOOLEAN]

\* A position by its sign and by whether it is Beyond the limits the button
\* gives its risk engine.
Positions == -2..2

\* locked: the gate was built SAFE_LOCK.  qty: the position it closes.
Flattens == [pc : {"idle", "built", "sent", "refused", "flat"},
             locked : BOOLEAN, qty : Positions]
NoFlatten == [pc |-> "idle", locked |-> FALSE, qty |-> 0]

TypeOK ==
  /\ row \in [Scopes -> Switches \union {None}]
  /\ bot \in Switches \union {None}
  /\ startKs \in Switches \union {None}
  /\ runKs \in [Runs -> Switches \union {None}]
  /\ desktop \in {"off", "starting", "up"}
  /\ (startKs # None <=> desktop = "starting")
  /\ flatten \in Flattens
  /\ (flatten.pc # "idle" => desktop = "up")
  /\ inbox \in [Updates -> Messages \union {None}]
  /\ seen \in [Updates -> {None, "accepted", "rejected"}]
  /\ effects \in [Updates -> Nat]
  /\ told \in [Scopes -> 0..4]

Init ==
  /\ row = [s \in Scopes |-> None]
  /\ bot = None /\ startKs = None
  /\ runKs = [r \in Runs |-> None]
  /\ desktop = "off" /\ flatten = NoFlatten
  /\ inbox = [u \in Updates |-> None]
  /\ seen = [u \in Updates |-> None]
  /\ effects = [u \in Updates |-> 0]
  /\ told = [s \in Scopes |-> 0]

-----------------------------------------------------------------------------
(* The switch *)

Higher(a, b) == IF a >= b THEN a ELSE b

\* KillSwitch.load
Load(r) == IF r = None THEN Fresh ELSE r

\* KillSwitch.raise_to: never lower; an equal level takes the new reason.
RaiseTo(k, l, why) ==
  IF l < k.level THEN k
  ELSE [level |-> l, latched |-> TRUE, trigger |-> [reason |-> why, level |-> l]]

\* KillSwitch.persist: the level of a row is never lowered, its trigger is
\* the copy's.  The copy takes over level and latch, so afterwards row and
\* copy are the same.
Persisted(r, k) ==
  IF r = None THEN k
  ELSE LET l == Higher(r.level, k.level)
       IN [level |-> l, latched |-> (IF l > 0 THEN TRUE ELSE k.latched),
           trigger |-> k.trigger]

\* Variant of Recovered that writes back what was loaded.
Recovered_Overwrites(r, k) == k

\* run_startup_recovery, its first transaction.
Recovered(r, k) ==
  LET l == Higher(k.level, Load(r).level)
  IN Persisted(r, [level |-> l, latched |-> (l > 0 \/ Load(r).latched),
                   trigger |-> k.trigger])

\* The transaction that stores k for scope s and reports level l as set.
Commit(s, k, l) ==
  /\ row' = [row EXCEPT ![s] = k]
  /\ told' = [told EXCEPT ![s] = Higher(@, l)]

Rollback == UNCHANGED <<row, told>>

-----------------------------------------------------------------------------
(* Telegram *)

\* An update reaches Telegram; it grows old, or the clock is set back.
Send(u) ==
  /\ inbox[u] = None
  /\ inbox' \in {[inbox EXCEPT ![u] = m] : m \in {x \in Messages : ~x.late}}
  /\ UNCHANGED <<row, bot, startKs, runKs, desktop, flatten, seen, effects, told>>

ClockMoves(u) ==
  /\ inbox[u] # None
  /\ inbox' = [inbox EXCEPT ![u] =
                 [text |-> @.text, owner |-> @.owner, late |-> ~@.late]]
  /\ UNCHANGED <<row, bot, startKs, runKs, desktop, flatten, seen, effects, told>>

\* Who builds the handler passes it a switch, new or loaded.
BotStarts ==
  /\ bot = None
  /\ BotBeside \/ desktop = "up"
  /\ bot' \in {Fresh, Load(row["global"])}
  /\ UNCHANGED <<row, startKs, runKs, desktop, flatten, telegramVars, told>>

BotStops ==
  /\ bot # None
  /\ bot' = None
  /\ UNCHANGED <<row, startKs, runKs, desktop, flatten, telegramVars, told>>

\* Variant of Handled that does not look the update up.
Handled_Never(u) == FALSE

\* A row of the update: it was handled before.
Handled(u) == seen[u] # None

\* The checks of handle, in the outcome they have together.
Accepted(msg) == msg.owner /\ ~msg.late /\ msg.text \in {"/pause", "/status"}

\* CommandHandler.handle of a delivery, and the commit or rollback of its
\* caller's transaction.  A duplicate changes nothing.
Handle(u) ==
  /\ bot # None /\ inbox[u] # None /\ ~Handled(u)
  /\ LET ok     == Accepted(inbox[u])
         pause  == ok /\ inbox[u].text = "/pause"
         after  == Persisted(row["global"], RaiseTo(bot, 1, "telegram_pause"))
     IN /\ bot' = IF pause THEN after ELSE bot
        /\ \/ /\ seen' = [seen EXCEPT ![u] = IF ok THEN "accepted" ELSE "rejected"]
              /\ IF pause
                 THEN /\ Commit("global", after, after.level)
                      /\ effects' = [effects EXCEPT ![u] = @ + 1]
                 ELSE UNCHANGED <<row, told, effects>>
           \/ Rollback /\ UNCHANGED <<seen, effects>>
  /\ UNCHANGED <<startKs, runKs, desktop, flatten, inbox>>

-----------------------------------------------------------------------------
(* The desktop *)

\* run_desktop_startup_recovery up to its second transaction; with no active
\* account, or no adapter, there is nothing to recover.
DesktopStarts ==
  /\ desktop = "off"
  /\ \/ desktop' = "up" /\ UNCHANGED startKs
     \/ desktop' = "starting" /\ startKs' = Load(row["global"])
  /\ UNCHANGED <<row, bot, runKs, flatten, telegramVars, told>>

\* run_startup_recovery; what it raises becomes a lock of the gate.
DesktopRecovers ==
  /\ desktop = "starting"
  /\ \/ Commit("global", Recovered(row["global"], startKs), 0)
     \/ Rollback
  /\ startKs' = None /\ desktop' = "up"
  /\ UNCHANGED <<bot, runKs, flatten, telegramVars>>

\* The process ends, or dies.
DesktopStops ==
  /\ desktop # "off"
  /\ desktop' = "off" /\ startKs' = None /\ flatten' = NoFlatten
  /\ bot' = IF BotBeside THEN bot ELSE None
  /\ UNCHANGED <<row, runKs, telegramVars, told>>

\* TrayController.pause: no PIN, and no state in which it is refused.
TrayPause ==
  /\ desktop = "up"
  /\ LET after == Persisted(row["global"], RaiseTo(Load(row["global"]), 1, "pause"))
     IN Commit("global", after, after.level)
  /\ UNCHANGED <<bot, startKs, runKs, desktop, flatten, telegramVars>>

\* KillSwitchController.flatten reads the level and builds its gate.
FlattenReads ==
  /\ desktop = "up" /\ flatten.pc = "idle"
  /\ flatten' = [pc |-> "built", locked |-> Load(row["global"]).level >= 1, qty |-> 0]
  /\ UNCHANGED <<row, bot, startKs, runKs, desktop, telegramVars, told>>

\* The quantity or the notional exceeds _FLATTEN_RISK_LIMITS.
Beyond(qty) == qty \in {-2, 2}

\* The gate refuses a buy when it is locked.  check_increase knows reduce_only
\* for the level of the switch only, not for its limits.
Refused(locked, qty) == (locked /\ qty < 0) \/ Beyond(qty)

\* flatten_position: the position the adapter reports, closed by one
\* reduce_only order of the other side.
FlattenSubmits ==
  /\ flatten.pc = "built"
  /\ \E qty \in Positions :
        flatten' = [pc |-> IF qty = 0 THEN "flat"
                           ELSE IF Refused(flatten.locked, qty) THEN "refused"
                           ELSE "sent",
                    locked |-> flatten.locked, qty |-> qty]
  /\ UNCHANGED <<row, bot, startKs, runKs, desktop, telegramVars, told>>

\* The answer is shown.
FlattenEnds ==
  /\ flatten.pc \in {"sent", "refused", "flat"}
  /\ flatten' = NoFlatten
  /\ UNCHANGED <<row, bot, startKs, runKs, desktop, telegramVars, told>>

-----------------------------------------------------------------------------
(* The soak and its script *)

RunFrame == UNCHANGED <<bot, startKs, desktop, flatten, telegramVars>>

\* Both begin with a new switch of the account's scope.
RunStarts(r) ==
  /\ runKs[r] = None
  /\ runKs' = [runKs EXCEPT ![r] = Fresh]
  /\ UNCHANGED <<row, told>> /\ RunFrame

RunStops(r) ==
  /\ runKs[r] # None
  /\ runKs' = [runKs EXCEPT ![r] = None]
  /\ UNCHANGED <<row, told>> /\ RunFrame

\* run_startup_recovery, after a sleep gap or in the script; both are done
\* with their switch when it fails.
RunRecovers(r) ==
  /\ runKs[r] # None
  /\ LET after == Recovered(row["account"], runKs[r])
     IN \/ /\ Commit("account", after, 0)
           /\ runKs' = [runKs EXCEPT ![r] = after]
        \/ Rollback /\ runKs' = [runKs EXCEPT ![r] = None]
  /\ RunFrame

\* reconcile finds an orphan position; the soak goes on after a rollback.
RunFindsOrphan(r) ==
  /\ runKs[r] # None
  /\ LET after == Persisted(row["account"], RaiseTo(runKs[r], 2, "recon_orphan"))
     IN /\ runKs' = [runKs EXCEPT ![r] = after]
        /\ Commit("account", after, after.level) \/ Rollback
  /\ RunFrame

-----------------------------------------------------------------------------
(* The specification *)

Next ==
  \/ \E u \in Updates : Send(u) \/ ClockMoves(u) \/ Handle(u)
  \/ BotStarts \/ BotStops
  \/ DesktopStarts \/ DesktopRecovers \/ DesktopStops \/ TrayPause
  \/ FlattenReads \/ FlattenSubmits \/ FlattenEnds
  \/ \E r \in Runs : RunStarts(r) \/ RunStops(r) \/ RunRecovers(r) \/ RunFindsOrphan(r)

Spec == Init /\ [][Next]_vars

-----------------------------------------------------------------------------
(* Safety *)

\* A level only rises and what a pause or a reconciliation reported as set is
\* never undone: not by an older copy that is persisted later, by a restart,
\* by the recovery of a start, or by a transaction rolled back.
Latch == INSTANCE KillSwitchLatch WITH
  level    <- [s \in Scopes |-> Load(row[s]).level],
  promised <- told

LatchSpec == Latch!Spec

\* However often Telegram delivers an update, and whatever the clock does in
\* between, it is taken for a pause at most once, and only when the table says
\* it was accepted.
OncePerUpdate ==
  \A u \in Updates : effects[u] <= (IF seen[u] = "accepted" THEN 1 ELSE 0)

\* "reduce-only/exit paths ... MUST NOT be blocked as new entries"
\* (specs/001-d1a-paper-core/spec.md, FR-006): the order of the Flatten button
\* is never refused.  The limits of an entry still refuse it, and the gate
\* takes the one that closes a short for an entry.
FlattenNeverRefused == flatten.pc # "refused"

=============================================================================

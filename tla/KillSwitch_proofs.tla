-------------------------- MODULE KillSwitch_proofs --------------------------
(* Theorems about KillSwitch, for every set of updates and of runs. *)
EXTENDS KillSwitch, TLAPS

(***************************************************************************)
(* The operations of a switch                                              *)
(***************************************************************************)

LEMMA FreshType == Fresh \in Switches
BY DEF Fresh, Switches

LEMMA LoadType ==
  ASSUME NEW r \in Switches \union {None}
  PROVE  Load(r) \in Switches
BY FreshType DEF Load

\* raise_to gives a switch of at least the level asked for, never a lower one.
LEMMA RaiseToType ==
  ASSUME NEW k \in Switches, NEW l \in 1..4, NEW why \in Reasons
  PROVE  /\ RaiseTo(k, l, why) \in Switches
         /\ RaiseTo(k, l, why).level >= k.level
         /\ RaiseTo(k, l, why).level >= l
<1>1. k.level \in 0..4
  BY DEF Switches
<1>2. CASE l < k.level
  BY <1>1, <1>2 DEF RaiseTo
<1>3. CASE ~(l < k.level)
  <2>1. RaiseTo(k, l, why) =
          [level |-> l, latched |-> TRUE, trigger |-> [reason |-> why, level |-> l]]
    BY <1>3 DEF RaiseTo
  <2>2. [reason |-> why, level |-> l] \in [reason : Reasons, level : 1..4]
    OBVIOUS
  <2>3. QED
    BY <1>1, <1>3, <2>1, <2>2 DEF Switches
<1>4. QED
  BY <1>2, <1>3

\* persist gives a switch that is below neither the row nor the copy.
LEMMA PersistedType ==
  ASSUME NEW r \in Switches \union {None}, NEW k \in Switches
  PROVE  /\ Persisted(r, k) \in Switches
         /\ Persisted(r, k).level >= Load(r).level
         /\ Persisted(r, k).level >= k.level
<1>1. k.level \in 0..4 /\ k.latched \in BOOLEAN
      /\ k.trigger \in [reason : Reasons, level : 1..4] \union {None}
  BY DEF Switches
<1>2. CASE r = None
  BY <1>1, <1>2 DEF Persisted, Load, Fresh
<1>3. CASE r # None
  <2>1. r \in Switches /\ r.level \in 0..4
    BY <1>3 DEF Switches
  <2> DEFINE l == Higher(r.level, k.level)
             b == IF l > 0 THEN TRUE ELSE k.latched
  <2>2. l \in 0..4 /\ l >= r.level /\ l >= k.level
    BY <1>1, <2>1 DEF Higher
  <2>3. b \in BOOLEAN
    BY <1>1
  <2>4. Persisted(r, k) = [level |-> l, latched |-> b, trigger |-> k.trigger]
    BY <1>3 DEF Persisted
  <2>5. Load(r) = r
    BY <1>3 DEF Load
  <2> HIDE DEF l, b
  <2>6. Persisted(r, k) \in Switches
    BY <1>1, <2>2, <2>3, <2>4 DEF Switches
  <2>7. QED
    BY <2>2, <2>4, <2>5, <2>6
<1>4. QED
  BY <1>2, <1>3

\* The recovery of a start gives a switch that is not below the row.
LEMMA RecoveredType ==
  ASSUME NEW r \in Switches \union {None}, NEW k \in Switches
  PROVE  /\ Recovered(r, k) \in Switches
         /\ Recovered(r, k).level >= Load(r).level
<1> DEFINE l == Higher(k.level, Load(r).level)
           b == l > 0 \/ Load(r).latched
           c == [level |-> l, latched |-> b, trigger |-> k.trigger]
<1>1. Load(r) \in Switches
  BY LoadType
<1>2. l \in 0..4
  BY <1>1 DEF Higher, Switches
<1>3. b \in BOOLEAN
  BY <1>1 DEF Switches
<1>4. k.trigger \in [reason : Reasons, level : 1..4] \union {None}
  BY DEF Switches
<1>5. c \in Switches
  <2> HIDE DEF l, b
  <2> QED
    BY <1>2, <1>3, <1>4 DEF Switches
<1>6. Recovered(r, k) = Persisted(r, c)
  BY DEF Recovered
<1> HIDE DEF c
<1>7. QED
  BY <1>5, <1>6, PersistedType

(***************************************************************************)
(* The inductive invariant                                                 *)
(***************************************************************************)

Level(s) == Load(row[s]).level

\* Levels are at least what was reported, and a gate was locked for a reason
\* that still holds.
IInv ==
  /\ TypeOK
  /\ OncePerUpdate
  /\ \A s \in Scopes : told[s] <= Level(s)
  /\ flatten.locked => Level("global") >= 1

LEMMA LevelType ==
  ASSUME TypeOK, NEW s \in Scopes
  PROVE  Level(s) \in 0..4 /\ Load(row[s]) \in Switches
BY LoadType DEF TypeOK, Level, Switches

\* No scope's level falls, and what was reported does not exceed it.
Kept ==
  /\ row' \in [Scopes -> Switches \union {None}]
  /\ told' \in [Scopes -> 0..4]
  /\ \A s \in Scopes : Level(s) <= Level(s)' /\ told'[s] <= Level(s)'

\* A transaction that stores a switch not below the row.
LEMMA CommitKeeps ==
  ASSUME IInv, NEW s \in Scopes, NEW k \in Switches, NEW l \in 0..4,
         k.level >= Level(s), l <= k.level, Commit(s, k, l)
  PROVE  Kept /\ Latch!Next
<1>1. /\ row' = [row EXCEPT ![s] = k]
      /\ told' = [told EXCEPT ![s] = Higher(told[s], l)]
  BY DEF Commit
<1>2. row \in [Scopes -> Switches \union {None}] /\ told \in [Scopes -> 0..4]
  BY DEF IInv, TypeOK
<1>3. k.level \in 0..4
  BY DEF Switches
<1>4. told[s] \in 0..4 /\ told[s] <= Level(s) /\ Level(s) \in 0..4
  BY <1>2, LevelType DEF IInv
<1>5. Load(k) = k
  BY KillSwitchAssumption DEF Load
<1>6. /\ row' \in [Scopes -> Switches \union {None}]
      /\ \A t \in Scopes : row'[t] = IF t = s THEN k ELSE row[t]
  BY <1>1, <1>2
<1>7. Higher(told[s], l) \in 0..4 /\ told[s] <= Higher(told[s], l)
      /\ Higher(told[s], l) <= k.level
  BY <1>3, <1>4 DEF Higher
<1>8. /\ told' \in [Scopes -> 0..4]
      /\ \A t \in Scopes : told'[t] = IF t = s THEN Higher(told[s], l) ELSE told[t]
  BY <1>1, <1>2, <1>7
<1>9. \A t \in Scopes : Level(t)' = IF t = s THEN k.level ELSE Level(t)
  BY <1>5, <1>6 DEF Level
<1>10. Kept
  <2>1. ASSUME NEW t \in Scopes
        PROVE  Level(t) <= Level(t)' /\ told'[t] <= Level(t)'
    <3>1. Level(t) \in 0..4 /\ told[t] <= Level(t)
      BY LevelType DEF IInv
    <3>2. QED
      BY <1>3, <1>4, <1>7, <1>8, <1>9, <3>1
  <2>2. QED
    BY <1>6, <1>8, <2>1 DEF Kept
<1>11. Latch!Next
  <2> DEFINE lev == [t \in Scopes |-> Load(row[t]).level]
             to  == Higher(told[s], l)
  <2>1. lev' = [lev EXCEPT ![s] = k.level]
    BY <1>9 DEF Level
  <2>2. lev[s] <= k.level
    BY DEF Level
  <2>3. told' = [told EXCEPT ![s] = to]
    BY <1>1
  <2>4. Latch!Raise(s, k.level, to)
    BY <1>7, <2>1, <2>2, <2>3 DEF Latch!Raise
  <2>5. QED
    BY <1>3, <1>7, <2>4 DEF Latch!Next
<1>12. QED
  BY <1>10, <1>11

\* A transaction rolled back, or none.
LEMMA NothingKeeps ==
  ASSUME IInv, row' = row, told' = told
  PROVE  Kept /\ UNCHANGED Latch!vars
<1>1. row \in [Scopes -> Switches \union {None}] /\ told \in [Scopes -> 0..4]
  BY DEF IInv, TypeOK
<1>2. \A t \in Scopes : Level(t)' = Level(t) /\ Level(t) \in 0..4 /\ told[t] <= Level(t)
  BY LevelType DEF IInv, Level
<1>3. Kept
  BY <1>1, <1>2 DEF Kept
<1>4. QED
  BY <1>3 DEF Latch!vars

(***************************************************************************)
(* Actions that store a switch                                             *)
(***************************************************************************)

\* What a pause or an orphan position stores: the copy, raised.
LEMMA RaisedType ==
  ASSUME IInv, NEW s \in Scopes, NEW k \in Switches, NEW l \in 1..4, NEW why \in Reasons,
         NEW after, after = Persisted(row[s], RaiseTo(k, l, why))
  PROVE  after \in Switches /\ after.level >= Level(s) /\ after.level \in 0..4
<1>1. row[s] \in Switches \union {None}
  BY DEF IInv, TypeOK
<1>2. RaiseTo(k, l, why) \in Switches
  BY RaiseToType
<1>3. after \in Switches /\ after.level >= Load(row[s]).level
  BY <1>1, <1>2, PersistedType
<1>4. QED
  BY <1>3 DEF Level, Switches

\* Everything but Next's effect on the other variables: an action either
\* commits a switch or leaves table and reports alone.
Stores == Kept /\ (Latch!Next \/ UNCHANGED Latch!vars)

LEMMA HandleStores ==
  ASSUME IInv, NEW u \in Updates, Handle(u)
  PROVE  /\ Stores
         /\ bot' \in Switches
         /\ seen' \in [Updates -> {None, "accepted", "rejected"}]
         /\ effects' \in [Updates -> Nat]
         /\ OncePerUpdate'
<1> DEFINE ok    == Accepted(inbox[u])
           pause == ok /\ inbox[u].text = "/pause"
           after == Persisted(row["global"], RaiseTo(bot, 1, "telegram_pause"))
           verdict == IF ok THEN "accepted" ELSE "rejected"
<1>1. bot \in Switches /\ seen[u] = None
  BY DEF Handle, Handled, IInv, TypeOK
<1>2. after \in Switches /\ after.level >= Level("global") /\ after.level \in 0..4
  BY <1>1, RaisedType DEF Scopes, Reasons
<1>3. seen \in [Updates -> {None, "accepted", "rejected"}]
      /\ effects \in [Updates -> Nat]
      /\ \A v \in Updates : effects[v] <= (IF seen[v] = "accepted" THEN 1 ELSE 0)
  BY DEF IInv, TypeOK, OncePerUpdate
<1>4. effects[u] = 0
  BY <1>1, <1>3, KillSwitchAssumption
<1>5. bot' = IF pause THEN after ELSE bot
  BY DEF Handle
<1>6. \/ /\ seen' = [seen EXCEPT ![u] = verdict]
         /\ IF pause
            THEN /\ Commit("global", after, after.level)
                 /\ effects' = [effects EXCEPT ![u] = effects[u] + 1]
            ELSE UNCHANGED <<row, told, effects>>
      \/ Rollback /\ UNCHANGED <<seen, effects>>
  BY DEF Handle
<1>7. pause => verdict = "accepted"
  OBVIOUS
<1>8. verdict \in {"accepted", "rejected"}
  OBVIOUS
<1> HIDE DEF ok, pause, after, verdict
<1>9. bot' \in Switches
  BY <1>1, <1>2, <1>5
<1>10. CASE Rollback /\ UNCHANGED <<seen, effects>>
  <2>1. Stores
    BY <1>10, NothingKeeps DEF Rollback, Stores
  <2>2. QED
    BY <1>3, <1>9, <1>10, <2>1 DEF OncePerUpdate
<1>11. CASE /\ seen' = [seen EXCEPT ![u] = verdict]
            /\ pause
            /\ Commit("global", after, after.level)
            /\ effects' = [effects EXCEPT ![u] = effects[u] + 1]
  <2>1. Stores
    BY <1>2, <1>11, CommitKeeps DEF Stores, Scopes
  <2>2. seen' \in [Updates -> {None, "accepted", "rejected"}]
        /\ effects' \in [Updates -> Nat]
    BY <1>3, <1>8, <1>11
  <2>3. OncePerUpdate'
    BY <1>3, <1>4, <1>7, <1>11 DEF OncePerUpdate
  <2>4. QED
    BY <1>9, <2>1, <2>2, <2>3
<1>12. CASE /\ seen' = [seen EXCEPT ![u] = verdict]
            /\ ~pause
            /\ UNCHANGED <<row, told, effects>>
  <2>1. Stores
    BY <1>12, NothingKeeps DEF Stores
  <2>2. seen' \in [Updates -> {None, "accepted", "rejected"}]
    BY <1>3, <1>8, <1>12
  <2>3. OncePerUpdate'
    BY <1>1, <1>3, <1>4, <1>12 DEF OncePerUpdate
  <2>4. QED
    BY <1>3, <1>9, <1>12, <2>1, <2>2, <2>3
<1>13. QED
  BY <1>6, <1>10, <1>11, <1>12

LEMMA DesktopRecoversStores ==
  ASSUME IInv, DesktopRecovers, startKs \in Switches
  PROVE  Stores
<1>1. row["global"] \in Switches \union {None}
  BY DEF IInv, TypeOK, Scopes
<1>2. Recovered(row["global"], startKs) \in Switches
      /\ Recovered(row["global"], startKs).level >= Level("global")
  BY <1>1, RecoveredType DEF Level
<1>3. 0 \in 0..4 /\ 0 <= Recovered(row["global"], startKs).level
  BY <1>2 DEF Switches
<1>4. CASE Commit("global", Recovered(row["global"], startKs), 0)
  BY <1>2, <1>3, <1>4, CommitKeeps DEF Stores, Scopes
<1>5. CASE Rollback
  BY <1>5, NothingKeeps DEF Rollback, Stores
<1>6. QED
  BY <1>4, <1>5 DEF DesktopRecovers

LEMMA TrayPauseStores ==
  ASSUME IInv, TrayPause
  PROVE  Stores
<1> DEFINE after == Persisted(row["global"], RaiseTo(Load(row["global"]), 1, "pause"))
<1>1. Load(row["global"]) \in Switches
  BY LevelType DEF IInv, Scopes
<1>2. after \in Switches /\ after.level >= Level("global") /\ after.level \in 0..4
  BY <1>1, RaisedType DEF Scopes, Reasons
<1>3. Commit("global", after, after.level)
  BY DEF TrayPause
<1> HIDE DEF after
<1>4. QED
  BY <1>2, <1>3, CommitKeeps DEF Stores, Scopes

LEMMA RunRecoversStores ==
  ASSUME IInv, NEW r \in Runs, RunRecovers(r)
  PROVE  Stores /\ runKs' \in [Runs -> Switches \union {None}]
<1> DEFINE after == Recovered(row["account"], runKs[r])
<1>1. runKs[r] \in Switches /\ runKs \in [Runs -> Switches \union {None}]
      /\ row["account"] \in Switches \union {None}
  BY DEF RunRecovers, IInv, TypeOK, Scopes
<1>2. after \in Switches /\ after.level >= Level("account")
  BY <1>1, RecoveredType DEF Level
<1>3. 0 \in 0..4 /\ 0 <= after.level
  BY <1>2 DEF Switches
<1>4. \/ Commit("account", after, 0) /\ runKs' = [runKs EXCEPT ![r] = after]
      \/ Rollback /\ runKs' = [runKs EXCEPT ![r] = None]
  BY DEF RunRecovers
<1> HIDE DEF after
<1>5. CASE Commit("account", after, 0) /\ runKs' = [runKs EXCEPT ![r] = after]
  BY <1>1, <1>2, <1>3, <1>5, CommitKeeps DEF Stores, Scopes
<1>6. CASE Rollback /\ runKs' = [runKs EXCEPT ![r] = None]
  BY <1>1, <1>6, NothingKeeps DEF Rollback, Stores
<1>7. QED
  BY <1>4, <1>5, <1>6

LEMMA RunFindsOrphanStores ==
  ASSUME IInv, NEW r \in Runs, RunFindsOrphan(r)
  PROVE  Stores /\ runKs' \in [Runs -> Switches \union {None}]
<1> DEFINE after == Persisted(row["account"], RaiseTo(runKs[r], 2, "recon_orphan"))
<1>1. runKs[r] \in Switches /\ runKs \in [Runs -> Switches \union {None}]
  BY DEF RunFindsOrphan, IInv, TypeOK
<1>2. after \in Switches /\ after.level >= Level("account") /\ after.level \in 0..4
  BY <1>1, RaisedType DEF Scopes, Reasons
<1>3. /\ runKs' = [runKs EXCEPT ![r] = after]
      /\ Commit("account", after, after.level) \/ Rollback
  BY DEF RunFindsOrphan
<1> HIDE DEF after
<1>4. runKs' \in [Runs -> Switches \union {None}]
  BY <1>1, <1>2, <1>3
<1>5. CASE Commit("account", after, after.level)
  BY <1>2, <1>5, <1>4, CommitKeeps DEF Stores, Scopes
<1>6. CASE Rollback
  BY <1>4, <1>6, NothingKeeps DEF Rollback, Stores
<1>7. QED
  BY <1>3, <1>5, <1>6

(***************************************************************************)
(* Every step                                                              *)
(***************************************************************************)

\* The levels being kept, what an action does elsewhere decides the rest.
LEMMA Rebuild ==
  ASSUME IInv, Kept, OncePerUpdate',
         bot' \in Switches \union {None}, startKs' \in Switches \union {None},
         runKs' \in [Runs -> Switches \union {None}],
         desktop' \in {"off", "starting", "up"},
         startKs' # None <=> desktop' = "starting",
         flatten' \in Flattens, flatten'.pc # "idle" => desktop' = "up",
         inbox' \in [Updates -> Messages \union {None}],
         seen' \in [Updates -> {None, "accepted", "rejected"}],
         effects' \in [Updates -> Nat],
         flatten'.locked => Level("global")' >= 1
  PROVE  IInv'
<1>1. TypeOK'
  BY DEF Kept, TypeOK
<1>2. \A s \in Scopes : told'[s] <= Level(s)'
  BY DEF Kept
<1>3. QED
  BY <1>1, <1>2 DEF IInv

\* The same for an action that leaves Telegram's tables and the button alone.
LEMMA RebuildQuiet ==
  ASSUME IInv, Kept, UNCHANGED <<flatten, telegramVars>>,
         bot' \in Switches \union {None}, startKs' \in Switches \union {None},
         runKs' \in [Runs -> Switches \union {None}],
         desktop' \in {"off", "starting", "up"},
         startKs' # None <=> desktop' = "starting",
         flatten.pc # "idle" => desktop' = "up"
  PROVE  IInv'
<1>1. /\ flatten \in Flattens
      /\ inbox \in [Updates -> Messages \union {None}]
      /\ seen \in [Updates -> {None, "accepted", "rejected"}]
      /\ effects \in [Updates -> Nat]
  BY DEF IInv, TypeOK
<1>2. OncePerUpdate'
  BY DEF IInv, OncePerUpdate, telegramVars
<1>3. flatten.locked => Level("global")' >= 1
  <2>1. Level("global") \in 0..4 /\ Level("global") <= Level("global")'
    BY LevelType DEF IInv, Kept, Scopes
  <2>2. Level("global")' \in 0..4
    BY LoadType DEF Kept, Level, Switches, Scopes
  <2>3. QED
    BY <2>1, <2>2 DEF IInv
<1>4. QED
  BY <1>1, <1>2, <1>3, Rebuild DEF telegramVars

LEMMA InitHolds == Init => IInv
<1> SUFFICES ASSUME Init PROVE IInv
  OBVIOUS
<1>1. NoFlatten \in Flattens /\ NoFlatten.pc = "idle" /\ NoFlatten.locked = FALSE
  BY DEF NoFlatten, Flattens, Positions
<1>2. TypeOK
  BY <1>1 DEF Init, TypeOK
<1>3. OncePerUpdate
  BY KillSwitchAssumption DEF Init, OncePerUpdate
<1>4. \A s \in Scopes : told[s] <= Level(s)
  BY DEF Init, Level, Load, Fresh
<1>5. QED
  BY <1>1, <1>2, <1>3, <1>4 DEF Init, IInv

\* Every step keeps the invariant, and stores a switch or leaves the table.
LEMMA StepHolds ==
  ASSUME IInv, [Next]_vars
  PROVE  IInv' /\ Stores
<1> DEFINE calm == UNCHANGED <<row, told>>
<1>t. TypeOK
  BY DEF IInv
<1>c. ASSUME calm PROVE Stores
  BY <1>c, NothingKeeps DEF Stores
<1>k. ASSUME Stores PROVE Kept
  BY <1>k DEF Stores
<1>1. CASE UNCHANGED vars
  <2>1. Stores
    BY <1>1, <1>c DEF vars
  <2>2. QED
    BY <1>1, <1>t, <1>k, <2>1, RebuildQuiet DEF vars, TypeOK
<1>2. ASSUME NEW u \in Updates, Send(u) PROVE IInv' /\ Stores
  <2>1. Stores
    BY <1>2, <1>c DEF Send
  <2>2. inbox' \in [Updates -> Messages \union {None}]
    BY <1>2, <1>t DEF Send, TypeOK
  <2>3. UNCHANGED <<row, bot, startKs, runKs, desktop, flatten, seen, effects, told>>
    BY <1>2 DEF Send
  <2>4. OncePerUpdate' /\ (flatten'.locked => Level("global")' >= 1)
    BY <2>3 DEF IInv, OncePerUpdate, Level
  <2>5. QED
    BY <1>t, <1>k, <2>1, <2>2, <2>3, <2>4, Rebuild DEF TypeOK, IInv
<1>3. ASSUME NEW u \in Updates, ClockMoves(u) PROVE IInv' /\ Stores
  <2>1. Stores
    BY <1>3, <1>c DEF ClockMoves
  <2>2. inbox' \in [Updates -> Messages \union {None}]
    <3>1. inbox[u] \in Messages
      BY <1>3, <1>t DEF ClockMoves, TypeOK
    <3>2. [text |-> inbox[u].text, owner |-> inbox[u].owner, late |-> ~inbox[u].late]
             \in Messages
      BY <3>1 DEF Messages
    <3>3. QED
      BY <1>3, <1>t, <3>2 DEF ClockMoves, TypeOK
  <2>3. UNCHANGED <<row, bot, startKs, runKs, desktop, flatten, seen, effects, told>>
    BY <1>3 DEF ClockMoves
  <2>4. OncePerUpdate' /\ (flatten'.locked => Level("global")' >= 1)
    BY <2>3 DEF IInv, OncePerUpdate, Level
  <2>5. QED
    BY <1>t, <1>k, <2>1, <2>2, <2>3, <2>4, Rebuild DEF TypeOK, IInv
<1>4. ASSUME NEW u \in Updates, Handle(u) PROVE IInv' /\ Stores
  <2>1. /\ Stores /\ bot' \in Switches /\ OncePerUpdate'
        /\ seen' \in [Updates -> {None, "accepted", "rejected"}]
        /\ effects' \in [Updates -> Nat]
    BY <1>4, HandleStores
  <2>2. UNCHANGED <<startKs, runKs, desktop, flatten, inbox>>
    BY <1>4 DEF Handle
  <2>3. flatten'.locked => Level("global")' >= 1
    <3>1. Level("global") \in 0..4 /\ Level("global") <= Level("global")'
      BY <1>t, <1>k, <2>1, LevelType DEF Kept, Scopes
    <3>2. Level("global")' \in 0..4
      BY <1>k, <2>1, LoadType DEF Kept, Level, Switches, Scopes
    <3>3. QED
      BY <2>2, <3>1, <3>2 DEF IInv
  <2>4. QED
    BY <1>t, <1>k, <2>1, <2>2, <2>3, Rebuild DEF TypeOK, IInv
<1>5. CASE BotStarts
  <2>1. Stores
    BY <1>5, <1>c DEF BotStarts
  <2>2. bot' \in Switches
    BY <1>5, <1>t, FreshType, LevelType DEF BotStarts, Scopes
  <2>3. QED
    BY <1>5, <1>t, <1>k, <2>1, <2>2, RebuildQuiet DEF BotStarts, TypeOK
<1>6. CASE BotStops
  <2>1. Stores
    BY <1>6, <1>c DEF BotStops
  <2>2. QED
    BY <1>6, <1>t, <1>k, <2>1, RebuildQuiet DEF BotStops, TypeOK
<1>7. CASE DesktopStarts
  <2>1. Stores
    BY <1>7, <1>c DEF DesktopStarts
  <2>2. Load(row["global"]) \in Switches
    BY <1>t, LevelType DEF Scopes
  <2>3. desktop = "off" /\ startKs = None
    BY <1>7, <1>t DEF DesktopStarts, TypeOK
  <2>4. /\ startKs' \in Switches \union {None}
        /\ desktop' \in {"off", "starting", "up"}
        /\ startKs' # None <=> desktop' = "starting"
    BY <1>7, <2>2, <2>3, KillSwitchAssumption DEF DesktopStarts
  <2>5. flatten.pc = "idle"
    BY <1>t, <2>3 DEF TypeOK
  <2>6. QED
    BY <1>7, <1>t, <1>k, <2>1, <2>4, <2>5, RebuildQuiet DEF DesktopStarts, TypeOK
<1>8. CASE DesktopRecovers
  <2>1. startKs \in Switches
    BY <1>8, <1>t DEF DesktopRecovers, TypeOK
  <2>2. Stores
    BY <1>8, <2>1, DesktopRecoversStores
  <2>3. QED
    BY <1>8, <1>t, <1>k, <2>2, RebuildQuiet DEF DesktopRecovers, TypeOK
<1>9. CASE DesktopStops
  <2>1. Stores
    BY <1>9, <1>c DEF DesktopStops
  <2>2. NoFlatten \in Flattens /\ NoFlatten.pc = "idle" /\ NoFlatten.locked = FALSE
    BY DEF NoFlatten, Flattens, Positions
  <2>3. bot' \in Switches \union {None} /\ flatten' = NoFlatten
        /\ desktop' = "off" /\ startKs' = None
    BY <1>9, <1>t DEF DesktopStops, TypeOK
  <2>4. UNCHANGED <<row, runKs, telegramVars, told>>
    BY <1>9 DEF DesktopStops
  <2>5. OncePerUpdate'
    BY <2>4 DEF IInv, OncePerUpdate, telegramVars
  <2>6. QED
    BY <1>t, <1>k, <2>1, <2>2, <2>3, <2>4, <2>5, Rebuild DEF TypeOK, telegramVars
<1>10. CASE TrayPause
  <2>1. Stores
    BY <1>10, TrayPauseStores
  <2>2. QED
    BY <1>10, <1>t, <1>k, <2>1, RebuildQuiet DEF TrayPause, TypeOK
<1>11. CASE FlattenReads
  <2>1. Stores
    BY <1>11, <1>c DEF FlattenReads
  <2>2. UNCHANGED <<row, bot, startKs, runKs, desktop, telegramVars, told>>
        /\ desktop = "up"
    BY <1>11 DEF FlattenReads
  <2>3. flatten' = [pc |-> "built", locked |-> Level("global") >= 1, qty |-> 0]
    BY <1>11 DEF FlattenReads, Level
  <2>4. Level("global")' = Level("global")
    BY <2>2 DEF Level
  <2>5. /\ flatten' \in Flattens /\ flatten'.pc = "built"
        /\ flatten'.locked => Level("global")' >= 1
    <3> DEFINE high == Level("global") >= 1
    <3>1. high \in BOOLEAN
      OBVIOUS
    <3>2. flatten' = [pc |-> "built", locked |-> high, qty |-> 0]
      BY <2>3
    <3>3. flatten'.locked => Level("global")' >= 1
      BY <2>4, <3>2
    <3> HIDE DEF high
    <3>4. flatten' \in Flattens /\ flatten'.pc = "built"
      BY <3>1, <3>2 DEF Flattens, Positions
    <3>5. QED
      BY <3>3, <3>4
  <2>6. OncePerUpdate'
    BY <2>2 DEF IInv, OncePerUpdate, telegramVars
  <2>7. QED
    BY <1>t, <1>k, <2>1, <2>2, <2>5, <2>6, Rebuild DEF TypeOK, telegramVars
<1>12. CASE FlattenSubmits
  <2>1. Stores
    BY <1>12, <1>c DEF FlattenSubmits
  <2>2. UNCHANGED <<row, bot, startKs, runKs, desktop, telegramVars, told>>
        /\ flatten.pc = "built" /\ flatten \in Flattens
    BY <1>12, <1>t DEF FlattenSubmits, TypeOK
  <2>3. PICK qty \in Positions :
          flatten' = [pc |-> IF qty = 0 THEN "flat"
                             ELSE IF Refused(flatten.locked, qty) THEN "refused"
                             ELSE "sent",
                      locked |-> flatten.locked, qty |-> qty]
    BY <1>12 DEF FlattenSubmits
  <2>4. flatten' \in Flattens /\ flatten'.locked = flatten.locked
    <3> DEFINE at == IF qty = 0 THEN "flat"
                     ELSE IF Refused(flatten.locked, qty) THEN "refused" ELSE "sent"
    <3>1. flatten.locked \in BOOLEAN /\ at \in {"flat", "refused", "sent"}
      BY <2>2 DEF Flattens
    <3>2. flatten' = [pc |-> at, locked |-> flatten.locked, qty |-> qty]
      BY <2>3
    <3> HIDE DEF at
    <3>3. QED
      BY <3>1, <3>2 DEF Flattens
  <2>5. OncePerUpdate' /\ (flatten'.locked => Level("global")' >= 1)
    BY <2>2, <2>4 DEF IInv, OncePerUpdate, telegramVars, Level
  <2>6. QED
    BY <1>t, <1>k, <2>1, <2>2, <2>4, <2>5, Rebuild DEF TypeOK, telegramVars
<1>13. CASE FlattenEnds
  <2>1. Stores
    BY <1>13, <1>c DEF FlattenEnds
  <2>2. NoFlatten \in Flattens /\ NoFlatten.pc = "idle" /\ NoFlatten.locked = FALSE
    BY DEF NoFlatten, Flattens, Positions
  <2>3. UNCHANGED <<row, bot, startKs, runKs, desktop, telegramVars, told>>
        /\ flatten' = NoFlatten
    BY <1>13 DEF FlattenEnds
  <2>4. OncePerUpdate'
    BY <2>3 DEF IInv, OncePerUpdate, telegramVars
  <2>5. QED
    BY <1>t, <1>k, <2>1, <2>2, <2>3, <2>4, Rebuild DEF TypeOK, telegramVars
<1>14. ASSUME NEW r \in Runs, RunStarts(r) PROVE IInv' /\ Stores
  <2>1. Stores
    BY <1>14, <1>c DEF RunStarts
  <2>2. runKs' \in [Runs -> Switches \union {None}]
    BY <1>14, <1>t, FreshType DEF RunStarts, TypeOK
  <2>3. QED
    BY <1>14, <1>t, <1>k, <2>1, <2>2, RebuildQuiet DEF RunStarts, RunFrame, TypeOK
<1>15. ASSUME NEW r \in Runs, RunStops(r) PROVE IInv' /\ Stores
  <2>1. Stores
    BY <1>15, <1>c DEF RunStops
  <2>2. runKs' \in [Runs -> Switches \union {None}]
    BY <1>15, <1>t DEF RunStops, TypeOK
  <2>3. QED
    BY <1>15, <1>t, <1>k, <2>1, <2>2, RebuildQuiet DEF RunStops, RunFrame, TypeOK
<1>16. ASSUME NEW r \in Runs, RunRecovers(r) PROVE IInv' /\ Stores
  <2>1. Stores /\ runKs' \in [Runs -> Switches \union {None}]
    BY <1>16, RunRecoversStores
  <2>2. QED
    BY <1>16, <1>t, <1>k, <2>1, RebuildQuiet DEF RunRecovers, RunFrame, TypeOK
<1>17. ASSUME NEW r \in Runs, RunFindsOrphan(r) PROVE IInv' /\ Stores
  <2>1. Stores /\ runKs' \in [Runs -> Switches \union {None}]
    BY <1>17, RunFindsOrphanStores
  <2>2. QED
    BY <1>17, <1>t, <1>k, <2>1, RebuildQuiet DEF RunFindsOrphan, RunFrame, TypeOK
<1>18. QED
  BY <1>1, <1>2, <1>3, <1>4, <1>5, <1>6, <1>7, <1>8, <1>9, <1>10, <1>11, <1>12,
     <1>13, <1>14, <1>15, <1>16, <1>17 DEF Next

(***************************************************************************)
(* Theorems                                                                *)
(***************************************************************************)

\* The inductive invariant.
THEOREM KillSwitchInvariant == Spec => []IInv
<1>1. Init => IInv
  BY InitHolds
<1>2. IInv /\ [Next]_vars => IInv'
  BY StepHolds
<1>3. QED
  BY <1>1, <1>2, PTL DEF Spec

\* Rows and copies of the kill switch, their users and the seen updates keep
\* their types, for any number of updates, runs and crashes
\* (core/risk/kill_switch.py, core/notify/commands.py).
THEOREM KillSwitchTypes == Spec => []TypeOK
<1>1. IInv => TypeOK
  BY DEF IInv
<1>2. QED
  BY <1>1, KillSwitchInvariant, PTL

\* Redelivery, duplicate handling, the clock and rollbacks together: an update
\* is taken for a pause at most once, and only an accepted one.
THEOREM OneEffectPerUpdate == Spec => []OncePerUpdate
<1>1. IInv => OncePerUpdate
  BY DEF IInv
<1>2. QED
  BY <1>1, KillSwitchInvariant, PTL

\* The switch with all its copies, restarts and rollbacks is a latch.
THEOREM ImplementsLatch == Spec => LatchSpec
<1>1. Init => Latch!Init
  BY DEF Init, Latch!Init, Load, Fresh
<1>2. IInv /\ [Next]_vars => [Latch!Next]_(Latch!vars)
  BY StepHolds DEF Stores
<1>3. QED
  BY <1>1, <1>2, KillSwitchInvariant, PTL DEF Spec, LatchSpec, Latch!Spec

=============================================================================

------------------------- MODULE TradingLoop_proofs -------------------------
(* Theorems about TradingLoop, for every value of its constants. *)
EXTENDS TradingLoop, SequenceTheorems, FiniteSetTheorems, TLAPS

(***************************************************************************)
(* Candles                                                                 *)
(***************************************************************************)

Stores == [1..MaxCandles -> Rel \union {"absent"}]

\* Stored candles are finitely many.
LEMMA KnownFinite ==
  ASSUME NEW st \in Stores
  PROVE  /\ Known(st) \in SUBSET (1..MaxCandles)
         /\ IsFiniteSet(Known(st))
         /\ Cardinality(Known(st)) \in Nat
<1>1. IsFiniteSet(1..MaxCandles)
  BY LoopAssumption, FS_Interval
<1>2. Known(st) \in SUBSET (1..MaxCandles)
  BY DEF Known, Stores
<1>3. QED
  BY <1>1, <1>2, FS_Subset, FS_CardinalityType

\* Stored candles have closed at the venue, and there is a newest one.
CandlesIn(st) ==
  /\ st \in Stores
  /\ Known(st) \subseteq 1..Len(market)
  /\ Known(st) # {} => \E n \in Known(st) : \A i \in Known(st) : i <= n

\* The newest stored candle is stored, or there is none.
LEMMA NewestType ==
  ASSUME TypeOK, NEW st, CandlesIn(st)
  PROVE  /\ Newest(st) \in 0..MaxCandles
         /\ Known(st) # {} => Newest(st) \in Known(st)
         /\ \A i \in Known(st) : i <= Newest(st)
<1>1. Known(st) \in SUBSET (1..MaxCandles)
  BY KnownFinite DEF CandlesIn
<1>2. CASE Known(st) = {}
  BY <1>2, LoopAssumption DEF Newest
<1>3. CASE Known(st) # {}
  <2>1. \E n \in Known(st) : \A i \in Known(st) : n >= i
    BY <1>1, <1>3 DEF CandlesIn
  <2>2. Max(Known(st)) \in Known(st) /\ \A i \in Known(st) : Max(Known(st)) >= i
    BY <2>1 DEF Max
  <2>3. QED
    BY <1>1, <1>3, <2>2, LoopAssumption DEF Newest
<1>4. QED
  BY <1>2, <1>3

\* A snapshot is missing, or the relation of a stored candle.
LEMMA SnapshotType ==
  ASSUME TypeOK, NEW st, CandlesIn(st)
  PROVE  /\ Snapshot(st) \in Rel \union {"none"}
         /\ Snapshot(st) = "none" <=> Cardinality(Known(st)) < Warm
<1>1. CASE Cardinality(Known(st)) < Warm
  BY <1>1 DEF Snapshot
<1>2. CASE ~(Cardinality(Known(st)) < Warm)
  <2>1. Known(st) # {}
    BY <1>2, FS_EmptySet, LoopAssumption
  <2>2. Newest(st) \in Known(st)
    BY <2>1, NewestType
  <2>3. st[Newest(st)] \in Rel
    BY <2>2 DEF Known, Stores, CandlesIn
  <2>4. QED
    BY <1>2, <2>3 DEF Snapshot, Rel
<1>3. QED
  BY <1>1, <1>2

\* An upsert forgets no candle, and its newest is the newest at the venue.
LEMMA UpsertedType ==
  ASSUME TypeOK, CandlesIn(stored)
  PROVE  /\ CandlesIn(Upserted)
         /\ Known(stored) \subseteq Known(Upserted)
<1>0. Len(market) \in Nat /\ FetchLimit \in Nat \ {0}
  BY LenProperties, LoopAssumption DEF TypeOK
<1>1. \A i \in Window : i \in 1..Len(market) /\ market[i] \in Rel
  BY <1>0, LenProperties DEF TypeOK, Window
<1>2. Upserted \in Stores
  BY <1>1 DEF Upserted, Stores, TypeOK
<1>3. Window \subseteq 1..MaxCandles
  BY <1>0, LoopAssumption DEF Window, TypeOK
<1>4. Known(Upserted) = Known(stored) \union Window
  BY <1>1, <1>3 DEF Known, Upserted, TypeOK, Rel
<1>5. CASE Len(market) = 0
  <2>1. Window = {}
    BY <1>5 DEF Window
  <2>2. QED
    BY <1>2, <1>4, <2>1 DEF CandlesIn
<1>6. CASE Len(market) # 0
  <2>1. Len(market) \in Window
    BY <1>0, <1>6 DEF Window
  <2>2. Known(Upserted) \subseteq 1..Len(market)
    BY <1>1, <1>4 DEF CandlesIn
  <2>3. QED
    BY <1>0, <1>2, <1>4, <2>1, <2>2 DEF CandlesIn
<1>7. QED
  BY <1>4, <1>5, <1>6

\* Once the history is long enough for a snapshot it stays so.
LEMMA WarmStays ==
  ASSUME TypeOK, CandlesIn(stored), Snapshot(Upserted) = "none"
  PROVE  Snapshot(stored) = "none"
<1>1. Cardinality(Known(Upserted)) < Warm
  BY UpsertedType, SnapshotType
<1>2. Cardinality(Known(stored)) <= Cardinality(Known(Upserted))
  BY KnownFinite, UpsertedType, FS_Subset DEF CandlesIn
<1>3. Cardinality(Known(stored)) < Warm
  BY <1>1, <1>2, KnownFinite, UpsertedType, LoopAssumption DEF CandlesIn
<1>4. QED
  BY <1>3 DEF Snapshot

(***************************************************************************)
(* The rule                                                                *)
(***************************************************************************)

\* What one evaluation does to the rule: it stays well typed, remembers the
\* snapshot it was given, enters only above, from flat and not while cooling,
\* exits only from a position and then cools down in full, uses up one candle
\* of a cooldown at most, and does not abstain below while in a position.
Effect(r, snap, after, side) ==
  /\ after \in Rules /\ side \in Sides
  /\ snap # "none" => after.prev = snap
  /\ snap = "none" => after = r
  /\ after.inPosition => after.cooldown = 0
  /\ side = "ENTER_LONG" =>
       /\ after.inPosition /\ ~r.inPosition /\ after.prev = "above"
       /\ r.cooldown = 0
  /\ side = "EXIT_LONG" =>
       ~after.inPosition /\ r.inPosition /\ after.cooldown = Cooldown
  /\ after.cooldown + 1 >= r.cooldown
  /\ side = "ABSTAIN" =>
       /\ after.inPosition = r.inPosition
       /\ (r.inPosition /\ r.prev \in {"equal", "above"}) =>
            after.prev \in {"equal", "above"}

LEMMA EvaluateEffect ==
  ASSUME NEW r \in Rules, NEW snap \in Rel \union {"none"},
         r.inPosition => r.cooldown = 0
  PROVE  Effect(r, snap, Evaluate(r, snap).rule, Evaluate(r, snap).side)
<1>0. /\ Cooldown \in Nat /\ r.cooldown \in 0..Cooldown
      /\ r.inPosition \in BOOLEAN
      /\ r = [prev |-> r.prev, inPosition |-> r.inPosition, cooldown |-> r.cooldown]
  BY LoopAssumption DEF Rules
<1>1. CASE snap = "none"
  <2>1. Evaluate(r, snap).rule = r /\ Evaluate(r, snap).side = "ABSTAIN"
    BY <1>1 DEF Evaluate
  <2>2. Effect(r, snap, r, "ABSTAIN")
    BY <1>0, <1>1 DEF Effect, Sides
  <2>3. QED
    BY <2>1, <2>2
<1>2. CASE snap # "none" /\ r.cooldown > 0
  <2> DEFINE after == [prev |-> snap, inPosition |-> r.inPosition,
                       cooldown |-> r.cooldown - 1]
  <2>1. WhileCooling(r, snap) = after
    BY DEF WhileCooling
  <2>2. Evaluate(r, snap).rule = after /\ Evaluate(r, snap).side = "ABSTAIN"
    BY <1>0, <1>2, <2>1 DEF Evaluate
  <2>3. ~r.inPosition /\ r.cooldown - 1 \in 0..Cooldown
    BY <1>0, <1>2
  <2>4. Effect(r, snap, after, "ABSTAIN")
    BY <1>0, <1>2, <2>3 DEF Effect, Rules, Sides
  <2>5. QED
    BY <2>2, <2>4
<1>3. CASE snap # "none" /\ r.cooldown = 0 /\ Bullish(r, snap)
  <2> DEFINE after == [prev |-> snap, inPosition |-> TRUE, cooldown |-> 0]
  <2>1. /\ ~Bearish(r, snap) /\ ~(r.cooldown > 0)
        /\ [prev |-> snap, inPosition |-> TRUE, cooldown |-> r.cooldown] = after
    BY <1>0, <1>3 DEF Bullish, Bearish
  <2>2. Evaluate(r, snap).rule = after /\ Evaluate(r, snap).side = "ENTER_LONG"
    BY <1>3, <2>1 DEF Evaluate
  <2>3. snap = "above" /\ ~r.inPosition
    BY <1>3 DEF Bullish
  <2>4. Effect(r, snap, after, "ENTER_LONG")
    BY <1>0, <1>3, <2>3 DEF Effect, Rules, Sides
  <2>5. QED
    BY <2>2, <2>4
<1>4. CASE snap # "none" /\ r.cooldown = 0 /\ Bearish(r, snap)
  <2> DEFINE after == [prev |-> snap, inPosition |-> FALSE, cooldown |-> Cooldown]
  <2>0. ~Bullish(r, snap) /\ ~(r.cooldown > 0) /\ AfterExit(snap) = after
    BY <1>0, <1>4 DEF Bullish, Bearish, AfterExit
  <2>1. Evaluate(r, snap).rule = after /\ Evaluate(r, snap).side = "EXIT_LONG"
    BY <1>4, <2>0 DEF Evaluate
  <2>2. snap = "below" /\ r.inPosition
    BY <1>4 DEF Bearish
  <2>3. Effect(r, snap, after, "EXIT_LONG")
    BY <1>0, <1>4, <2>2 DEF Effect, Rules, Sides
  <2>4. QED
    BY <2>1, <2>3
<1>5. CASE snap # "none" /\ r.cooldown = 0 /\ ~Bullish(r, snap) /\ ~Bearish(r, snap)
  <2> DEFINE after == [prev |-> snap, inPosition |-> r.inPosition, cooldown |-> 0]
  <2>1. [r EXCEPT !.prev = snap] = after
    BY <1>0, <1>5
  <2>2. Evaluate(r, snap).rule = after /\ Evaluate(r, snap).side = "ABSTAIN"
    BY <1>0, <1>5, <2>1 DEF Evaluate
  <2>3. (r.inPosition /\ r.prev \in {"equal", "above"}) => snap \in {"equal", "above"}
    BY <1>5 DEF Bearish, Rel
  <2>4. Effect(r, snap, after, "ABSTAIN")
    BY <1>0, <1>5, <2>3 DEF Effect, Rules, Sides
  <2>5. QED
    BY <2>2, <2>4
<1>6. QED
  BY <1>0, <1>1, <1>2, <1>3, <1>4, <1>5

(***************************************************************************)
(* The inductive invariant                                                 *)
(***************************************************************************)

\* A position is not cooling down, and the decision being submitted is the
\* one the rule has just made, with the ledger read before it.
RuleInv ==
  proc = "loop" =>
    /\ rule.inPosition => rule.cooldown = 0
    /\ job.side = "ENTER_LONG" => rule.inPosition /\ rule.prev = "above"
    /\ job.side = "EXIT_LONG" => ~rule.inPosition
    /\ job.side = "ABSTAIN" => job = NoJob
    /\ job # NoJob => job.qty = posLocal

\* The three views of the position, also while a decision is submitted.
StepInv ==
  (proc = "loop" /\ ~drift) =>
    /\ posLocal = paperPos
    /\ posLocal \in {0, EntryQty}
    /\ job = NoJob => (rule.inPosition <=> posLocal # 0)
    /\ job.side = "ENTER_LONG" => posLocal = 0
    /\ job.side = "EXIT_LONG" => posLocal = EntryQty
    /\ (job = NoJob /\ posLocal # 0) => rule.prev \in {"equal", "above"}

IInv == TypeOK /\ CandlesIn(stored) /\ RuleInv /\ StepInv /\ CrossMemory

\* Nothing has been stored before the first poll.
LEMMA InitIInv == Init => IInv
<1> SUFFICES ASSUME Init PROVE IInv
  OBVIOUS
<1>1. TypeOK
  <2>1. market \in Seq(Rel) /\ Len(market) = 0
    BY EmptySeq DEF Init
  <2>2. stored \in Stores /\ rule \in Rules /\ job \in Jobs
    BY LoopAssumption
       DEF Init, Stores, Rules, NoRule, Jobs, NoJob, Sides
  <2>3. /\ wall \in Int /\ proc \in {"off", "desktop", "loop"}
        /\ ks \in 0..4 /\ checkpoint \in Int
        /\ posLocal \in Int /\ paperPos \in Int /\ exitAt \in 0..MaxCandles
        /\ backs \in Nat /\ corrections \in Nat /\ stops \in Nat
    BY LoopAssumption DEF Init, Epoch
  <2>6. start \in Starts
    BY DEF Init, NoStart, Starts
  <2>4. openBreak \in BOOLEAN /\ drift \in BOOLEAN /\ corrected \in BOOLEAN
    BY Zenon DEF Init
  <2>5. QED
    BY <2>1, <2>2, <2>3, <2>4, <2>6, LoopAssumption DEF TypeOK, Stores
<1>2. CandlesIn(stored)
  BY DEF Init, CandlesIn, Stores, Known
<1>3. RuleInv /\ StepInv /\ CrossMemory
  BY DEF Init, RuleInv, StepInv, CrossMemory
<1>4. QED
  BY <1>1, <1>2, <1>3 DEF IInv

(***************************************************************************)
(* The environment and the desktop                                         *)
(***************************************************************************)

\* A candle that closes, or is corrected, changes neither how many were
\* stored nor anything the loop remembers.
LEMMA VenueStep ==
  ASSUME IInv, Tick \/ VenueCorrects
  PROVE  IInv'
<1>1. UNCHANGED <<proc, start, dbVars, memoryVars, drift, corrected, exitAt>>
  BY DEF Tick, VenueCorrects, boundVars
<1>2. /\ market' \in Seq(Rel) /\ Len(market) \in Nat
      /\ Len(market') <= MaxCandles /\ Len(market) <= Len(market')
      /\ wall' \in Int /\ backs' \in Nat /\ corrections' \in Nat /\ stops' \in Nat
  <2>1. CASE Tick
    <3>1. PICK r \in Rel : market' = Append(market, r)
      BY <2>1 DEF Tick
    <3>2. market' \in Seq(Rel) /\ Len(market') = Len(market) + 1
      BY <3>1, AppendProperties DEF IInv, TypeOK
    <3>3. QED
      BY <2>1, <3>2, LenProperties, LoopAssumption
         DEF IInv, TypeOK, Tick, boundVars
  <2>2. CASE VenueCorrects
    <3>1. PICK r \in Rel : market' = [market EXCEPT ![Newest(stored)] = r]
      BY <2>2 DEF VenueCorrects
    <3>2. Newest(stored) \in 1..Len(market)
      BY <2>2, LenProperties DEF VenueCorrects, IInv, TypeOK
    <3>3. market' \in Seq(Rel) /\ Len(market') = Len(market)
      BY <3>1, <3>2, ExceptSeq DEF IInv, TypeOK
    <3>4. QED
      BY <2>2, <3>3, LenProperties DEF IInv, TypeOK, VenueCorrects
  <2>3. QED
    BY <2>1, <2>2
<1>3. TypeOK'
  BY <1>1, <1>2 DEF IInv, TypeOK, dbVars, memoryVars
<1>4. CandlesIn(stored)'
  <2>1. 1..Len(market) \subseteq 1..Len(market')
    BY <1>2, LenProperties
  <2>2. QED
    BY <1>1, <2>1 DEF IInv, CandlesIn, Known, Stores, dbVars
<1>5. RuleInv' /\ StepInv' /\ CrossMemory'
  BY <1>1 DEF IInv, RuleInv, StepInv, CrossMemory, Snapshot, Newest, Known,
              dbVars, memoryVars
<1>6. QED
  BY <1>3, <1>4, <1>5 DEF IInv

\* A step that leaves the venue's and the loop's state alone.
LEMMA OtherStep ==
  ASSUME IInv,
         \/ ClockSetBack \/ SoakLeavesBreak \/ Launch \/ StartDesktop
         \/ TrayPause \/ CloseDesktop
  PROVE  IInv'
<1>1. /\ UNCHANGED <<market, stored, posLocal, memoryVars, corrected>>
      /\ proc' = "loop" => UNCHANGED <<proc, drift>>
  BY DEF ClockSetBack, SoakLeavesBreak, Launch, BeginStart, TestClock,
         StartRefused, StartDies, StartDesktop, TrayPause, CloseDesktop,
         venueVars, dbVars, boundVars
<1>2. TypeOK'
  <2>0. CASE ClockSetBack
    BY <2>0 DEF IInv, TypeOK, ClockSetBack, dbVars, memoryVars
  <2>1. CASE SoakLeavesBreak
    BY <2>1 DEF IInv, TypeOK, SoakLeavesBreak, venueVars, memoryVars, boundVars
  <2>2. CASE StartDesktop
    BY <2>2 DEF IInv, TypeOK, StartDesktop, StartsReady, NoStart, Starts,
                venueVars, memoryVars, boundVars
  <2>6. CASE Launch
    <3>1. UNCHANGED <<venueVars, proc, dbVars, memoryVars, drift, corrected, exitAt,
                      boundVars>>
      BY <2>6 DEF Launch, BeginStart, TestClock, StartRefused, StartDies
    <3>2. start' \in Starts
      <4>1. ASSUME NEW who \in {"desktop", "loop"}, BeginStart(who)
            PROVE  start' \in Starts
        <5>1. (DataFresh /\ ~openBreak) \in BOOLEAN
          OBVIOUS
        <5>2. QED
          BY <4>1, <5>1, SMT DEF BeginStart, Starting, Starts
      <4>2. CASE TestClock
        <5>1. Passes(start.ready) \in BOOLEAN /\ start.who \in {"none", "desktop", "loop"}
          BY DEF IInv, TypeOK, Starts, Passes
        <5>2. wall \in Int
          BY DEF IInv, TypeOK
        <5>3. QED
          BY <4>2, <5>1, <5>2, SMT DEF TestClock, Starting, Starts
      <4>3. CASE StartRefused \/ StartDies
        <5>1. start' = NoStart
          BY <4>3 DEF StartRefused, StartDies
        <5>2. NoStart \in Starts
          BY DEF NoStart, Starts
        <5>3. QED
          BY <5>1, <5>2
      <4>4. QED
        BY <2>6, <4>1, <4>2, <4>3 DEF Launch
    <3>3. QED
      BY <3>1, <3>2 DEF IInv, TypeOK, venueVars, dbVars, memoryVars, boundVars
  <2>3. CASE TrayPause
    <3>1. Max({ks, 1}) \in 0..4
      BY DEF Max, IInv, TypeOK
    <3>2. QED
      BY <2>3, <3>1 DEF IInv, TypeOK, TrayPause, venueVars, memoryVars, boundVars
  <2>4. CASE CloseDesktop
    BY <2>4 DEF IInv, TypeOK, CloseDesktop, venueVars, dbVars, memoryVars,
                boundVars
  <2>5. QED
    BY <2>0, <2>1, <2>2, <2>3, <2>4, <2>6
<1>3. CandlesIn(stored)'
  BY <1>1 DEF IInv, CandlesIn, Known, Stores
<1>4. RuleInv' /\ StepInv' /\ CrossMemory'
  BY <1>1 DEF IInv, RuleInv, StepInv, CrossMemory, Snapshot, Newest, Known,
              memoryVars
<1>5. QED
  BY <1>2, <1>3, <1>4 DEF IInv

\* A loop that starts knows the history and the position; its paper broker
\* agrees only when there is none.
LEMMA StartLoopStep ==
  ASSUME IInv, StartLoop
  PROVE  IInv'
<1>1. /\ UNCHANGED <<market, wall, ks, openBreak, stored, posLocal, corrected, boundVars>>
      /\ proc' = "loop" /\ rule' = Seeded /\ paperPos' = 0 /\ job' = NoJob
      /\ drift' = (posLocal # 0) /\ exitAt' = 0
      /\ checkpoint' = wall /\ start' = NoStart
  BY DEF StartLoop, StartsReady, venueVars, boundVars
<1>2. Snapshot(stored) \in Rel \union {"none"}
  BY SnapshotType DEF IInv
<1>3. Seeded \in Rules /\ Seeded.cooldown = 0
      /\ Seeded.prev = Snapshot(stored) /\ Seeded.inPosition = (posLocal # 0)
  BY <1>2, LoopAssumption DEF Seeded, Rules
<1>4. NoJob \in Jobs /\ NoJob.side = "ABSTAIN" /\ NoStart \in Starts
  BY DEF NoJob, Jobs, Sides, NoStart, Starts
<1>5. TypeOK'
  BY <1>1, <1>3, <1>4, LoopAssumption DEF IInv, TypeOK, boundVars
<1>6. CandlesIn(stored)' /\ Snapshot(stored)' = Snapshot(stored)
  BY <1>1 DEF IInv, CandlesIn, Known, Stores, Snapshot, Newest
<1>7. RuleInv'
  BY <1>1, <1>3, <1>4 DEF RuleInv
<1>8. StepInv'
  BY <1>1, <1>3, <1>4 DEF StepInv
<1>9. CrossMemory'
  BY <1>1, <1>3, <1>6 DEF CrossMemory
<1>10. QED
  BY <1>5, <1>6, <1>7, <1>8, <1>9 DEF IInv

(***************************************************************************)
(* The iteration                                                           *)
(***************************************************************************)

\* With no new candle the upsert stores nothing but corrections.
LEMMA PollNothingNewStep ==
  ASSUME IInv, PollNothingNew
  PROVE  IInv'
<1>1. /\ UNCHANGED <<market, wall, proc, start, ks, openBreak, checkpoint, posLocal,
                     paperPos, rule, job, drift, exitAt, boundVars>>
      /\ stored' = Upserted /\ corrected' = (corrected \/ Rewrites)
  BY DEF PollNothingNew, venueVars, memoryVars
<1>2. CandlesIn(stored)'
  <2>1. CandlesIn(Upserted)
    BY UpsertedType DEF IInv
  <2>2. QED
    BY <1>1, <2>1 DEF CandlesIn, Known, Stores
<1>3. TypeOK'
  <2>1. stored' \in Stores
    BY <1>1, UpsertedType DEF IInv, CandlesIn
  <2>2. corrected' \in BOOLEAN
    BY <1>1, Zenon DEF IInv, TypeOK, Rewrites
  <2>3. QED
    BY <1>1, <2>1, <2>2 DEF IInv, TypeOK, Stores, boundVars
<1>4. CrossMemory'
  <2>1. CASE Rewrites
    BY <1>1, <2>1 DEF CrossMemory
  <2>2. CASE ~Rewrites
    <3>1. \A i \in Window : i \in DOMAIN stored /\ stored[i] = market[i]
      BY <2>2 DEF PollNothingNew, Inserted, Rewrites, Known
    <3>2. Upserted = stored
      BY <3>1 DEF Upserted, IInv, TypeOK
    <3>3. Snapshot(stored)' = Snapshot(stored)
      BY <1>1, <3>2 DEF Snapshot, Newest, Known
    <3>4. QED
      BY <1>1, <3>3 DEF IInv, CrossMemory
  <2>3. QED
    BY <2>1, <2>2
<1>5. RuleInv' /\ StepInv'
  BY <1>1 DEF IInv, RuleInv, StepInv
<1>6. QED
  BY <1>2, <1>3, <1>4, <1>5 DEF IInv

\* A new candle is stored and judged in one step.
LEMMA PollNewStep ==
  ASSUME IInv, PollNew
  PROVE  IInv'
<1> DEFINE snap == Snapshot(Upserted)
           after == Evaluate(rule, snap).rule
           side == Evaluate(rule, snap).side
<1>1. /\ UNCHANGED <<market, wall, proc, start, ks, openBreak, checkpoint, posLocal,
                     paperPos, drift, boundVars>>
      /\ proc = "loop" /\ job = NoJob
      /\ stored' = Upserted /\ rule' = after /\ job' = Submission(side)
      /\ exitAt' \in {Newest(Upserted), exitAt}
      /\ corrected' = (corrected \/ Rewrites)
  BY DEF PollNew, venueVars
<1>2. CandlesIn(Upserted) /\ snap \in Rel \union {"none"}
  BY UpsertedType, SnapshotType DEF IInv
<1>3. Effect(rule, snap, after, side)
  <2>1. rule \in Rules /\ (rule.inPosition => rule.cooldown = 0)
    BY <1>1 DEF IInv, TypeOK, RuleInv
  <2>2. QED
    BY <1>2, <2>1, EvaluateEffect
<1>4. /\ job'.side = side /\ job' \in Jobs
      /\ side = "ABSTAIN" => job' = NoJob
      /\ side # "ABSTAIN" => job' # NoJob /\ job'.qty = posLocal
  BY <1>1, <1>3 DEF Submission, NoJob, Jobs, Effect, IInv, TypeOK, Sides
<1>5. CandlesIn(stored)'
  BY <1>1, <1>2 DEF CandlesIn, Known, Stores
<1>6. TypeOK'
  <2>1. stored' \in Stores /\ exitAt' \in 0..MaxCandles
    BY <1>1, <1>2, NewestType DEF IInv, CandlesIn, TypeOK
  <2>2. corrected' \in BOOLEAN
    BY <1>1, Zenon DEF IInv, TypeOK, Rewrites
  <2>3. rule' \in Rules
    BY <1>1, <1>3 DEF Effect
  <2>4. QED
    BY <1>1, <1>4, <2>1, <2>2, <2>3 DEF IInv, TypeOK, Stores, boundVars
<1>7. CrossMemory'
  <2>1. Snapshot(stored)' = snap
    BY <1>1 DEF Snapshot, Newest, Known
  <2>2. CASE snap # "none"
    BY <1>1, <1>3, <2>1, <2>2 DEF Effect, CrossMemory
  <2>3. CASE snap = "none"
    <3>1. Snapshot(stored) = "none"
      BY <2>3, WarmStays DEF IInv
    <3>2. ~corrected' => rule.prev = "none"
      BY <1>1, <3>1 DEF IInv, CrossMemory
    <3>3. QED
      BY <1>1, <1>3, <2>1, <2>3, <3>2 DEF Effect, CrossMemory
  <2>4. QED
    BY <2>2, <2>3
<1>8. RuleInv'
  BY <1>1, <1>3, <1>4 DEF Effect, RuleInv, NoJob
<1>9. StepInv'
  <2> SUFFICES ASSUME ~drift PROVE StepInv'
    BY <1>1 DEF StepInv
  <2>1. /\ posLocal = paperPos /\ posLocal \in {0, EntryQty}
        /\ rule.inPosition <=> posLocal # 0
        /\ posLocal # 0 => rule.prev \in {"equal", "above"}
    BY <1>1 DEF IInv, StepInv
  <2>2. CASE side = "ABSTAIN"
    BY <1>1, <1>3, <1>4, <2>1, <2>2 DEF Effect, StepInv
  <2>3. CASE side # "ABSTAIN"
    BY <1>1, <1>3, <1>4, <2>1, <2>3 DEF Effect, StepInv
  <2>4. QED
    BY <2>2, <2>3
<1>10. QED
  BY <1>5, <1>6, <1>7, <1>8, <1>9 DEF IInv

\* Whatever becomes of the decision, the rule and the candles stay.
LEMMA SubmitStep ==
  ASSUME IInv, NotSubmitted \/ SubmitBooked \/ SubmitFails
  PROVE  IInv'
<1>1. /\ UNCHANGED <<market, wall, proc, start, ks, openBreak, checkpoint, stored, rule,
                     corrected, exitAt, boundVars>>
      /\ job' = NoJob /\ proc = "loop"
  BY DEF NotSubmitted, SubmitBooked, SubmitFails, LoopFrame, Done, venueVars
<1>2. Delta \in Int
  BY DEF Delta, IInv, TypeOK, Jobs, EntryQty
<1>3. posLocal' \in Int /\ paperPos' \in Int /\ drift' \in BOOLEAN
  <2>1. CASE NotSubmitted
    BY <2>1 DEF NotSubmitted, IInv, TypeOK
  <2>2. CASE SubmitBooked
    BY <1>2, <2>2 DEF SubmitBooked, IInv, TypeOK
  <2>3. CASE SubmitFails
    BY <1>2, <2>3 DEF SubmitFails, IInv, TypeOK
  <2>4. QED
    BY <2>1, <2>2, <2>3
<1>4. NoJob \in Jobs /\ NoJob.side = "ABSTAIN"
  BY DEF NoJob, Jobs, Sides
<1>5. TypeOK'
  BY <1>1, <1>3, <1>4 DEF IInv, TypeOK, boundVars
<1>6. CandlesIn(stored)'
  BY <1>1 DEF IInv, CandlesIn, Known, Stores
<1>7. RuleInv' /\ CrossMemory'
  BY <1>1, <1>4 DEF IInv, RuleInv, CrossMemory, Snapshot, Newest, Known
<1>8. StepInv'
  <2> SUFFICES ASSUME ~drift', SubmitBooked PROVE StepInv'
    BY DEF StepInv, NotSubmitted, SubmitFails
  <2>1. ~drift /\ paperPos' = paperPos + Delta /\ posLocal' = paperPos'
    BY DEF SubmitBooked
  <2>2. posLocal = paperPos /\ job # NoJob /\ job.qty = posLocal
        /\ job.side \in {"ENTER_LONG", "EXIT_LONG"}
    BY <1>1, <1>4, <2>1 DEF SubmitBooked, Sendable, IInv, StepInv, RuleInv
  <2>3. CASE job.side = "ENTER_LONG"
    <3>1. posLocal = 0 /\ rule.inPosition /\ rule.prev = "above" /\ Delta = EntryQty
      BY <1>1, <2>1, <2>3 DEF IInv, StepInv, RuleInv, Delta
    <3>2. QED
      BY <1>1, <1>4, <2>1, <2>2, <3>1 DEF StepInv, EntryQty
  <2>4. CASE job.side = "EXIT_LONG"
    <3>1. posLocal = 1 /\ ~rule.inPosition /\ Delta = -1
      BY <1>1, <2>1, <2>2, <2>4 DEF IInv, StepInv, RuleInv, Delta, EntryQty
    <3>2. QED
      BY <1>1, <1>4, <2>1, <2>2, <3>1 DEF StepInv, EntryQty
  <2>5. QED
    BY <2>2, <2>3, <2>4
<1>9. QED
  BY <1>5, <1>6, <1>7, <1>8 DEF IInv

\* What the loop remembered dies with it.
LEMMA LoopDiesStep ==
  ASSUME IInv, LoopDies
  PROVE  IInv'
<1>1. /\ UNCHANGED <<market, wall, start, dbVars, corrected, backs, corrections>>
      /\ proc' = "off" /\ rule' = NoRule /\ paperPos' = 0 /\ job' = NoJob
      /\ drift' = FALSE /\ exitAt' = 0 /\ stops' = stops + 1
  BY DEF LoopDies, venueVars
<1>2. NoRule \in Rules /\ NoJob \in Jobs
  BY LoopAssumption DEF NoRule, Rules, NoJob, Jobs, Sides
<1>3. TypeOK'
  <2>1. drift' \in BOOLEAN
    BY <1>1, Zenon
  <2>2. QED
    BY <1>1, <1>2, <2>1, LoopAssumption DEF IInv, TypeOK, dbVars
<1>4. CandlesIn(stored)'
  BY <1>1 DEF IInv, CandlesIn, Known, Stores, dbVars
<1>5. RuleInv' /\ StepInv' /\ CrossMemory'
  BY <1>1 DEF RuleInv, StepInv, CrossMemory
<1>6. QED
  BY <1>3, <1>4, <1>5 DEF IInv

LEMMA NextIInv == IInv /\ [Next]_vars => IInv'
<1> SUFFICES ASSUME IInv, [Next]_vars PROVE IInv'
  OBVIOUS
<1>1. CASE Environment
  BY <1>1, VenueStep, OtherStep DEF Environment
<1>2. CASE Desktop
  BY <1>2, OtherStep DEF Desktop
<1>6. CASE Launch
  BY <1>6, OtherStep
<1>3. CASE Loop
  BY <1>3, StartLoopStep, PollNothingNewStep, PollNewStep, SubmitStep,
     LoopDiesStep DEF Loop
<1>4. CASE UNCHANGED vars
  BY <1>4 DEF IInv, TypeOK, CandlesIn, RuleInv, StepInv, CrossMemory, Snapshot,
              Newest, Known, Stores, vars, venueVars, dbVars, memoryVars, boundVars
<1>5. QED
  BY <1>1, <1>2, <1>3, <1>4, <1>6 DEF Next

\* The invariant the safety theorems below follow from.
THEOREM LoopInvariant == Spec => []IInv
  BY InitIInv, NextIInv, PTL DEF Spec

(***************************************************************************)
(* Safety                                                                  *)
(***************************************************************************)

\* Type correctness: whatever the venue, the clock, the owner and the
\* database do, cooldowns and decisions stay in their domains.
THEOREM TypeCorrect == Spec => []TypeOK
<1>1. IInv => TypeOK
  BY DEF IInv
<1>2. QED
  BY <1>1, LoopInvariant, PTL

\* Belief, ledger and paper broker agree between two iterations.
THEOREM BeliefInStep == Spec => []InStep
<1>1. IInv => InStep
  BY DEF IInv, StepInv, InStep
<1>2. QED
  BY <1>1, LoopInvariant, PTL

\* The rule's memory is the newest stored candle's, whatever the cooldown, the
\* number of candles a fetch brings, and the restarts.
THEOREM MemoryOfNewest == Spec => []CrossMemory
<1>1. IInv => CrossMemory
  BY DEF IInv
<1>2. QED
  BY <1>1, LoopInvariant, PTL

\* A long in step is never held while the newest stored candle is below.
THEOREM NotHeldBelow == Spec => []HeldAboveSlow
<1>1. IInv => HeldAboveSlow
  BY DEF IInv, StepInv, CrossMemory, HeldAboveSlow
<1>2. QED
  BY <1>1, LoopInvariant, PTL

(***************************************************************************)
(* What a step may do                                                      *)
(***************************************************************************)

\* The newest candles are stored without a gap, as far back as a fetch goes.
WindowInv ==
  \A i \in 1..Newest(stored) :
     i > Newest(stored) - FetchLimit => i \in Known(stored)

\* What an exit started is still to be waited for, or has passed in candles.
CoolInv ==
  /\ proc # "loop" => exitAt = 0
  /\ exitAt # 0 => /\ exitAt <= Newest(stored)
                   /\ Newest(stored) - exitAt + rule.cooldown >= Cooldown

\* Nobody else raises the kill switch while the loop holds the lock.
PauseInv == (proc = "loop" /\ job # NoJob) => job.ks = ks

\* The wall clock reads a time after the epoch, however often it is set back; a
\* launch that may still end ready read it no earlier than the checkpoint.
ClockInv ==
  /\ backs <= MaxBack /\ wall + backs >= Epoch
  /\ start.at = "tested" /\ start.ready => start.now >= checkpoint
  /\ proc # "off" => start = NoStart

HInv == WindowInv /\ CoolInv /\ PauseInv /\ ClockInv

\* After a fetch that brings a candle the newest at the venue is stored; a
\* fetch that brings none leaves the newest stored one where it was.
LEMMA NewestAfterFetch ==
  ASSUME TypeOK, CandlesIn(stored), WindowInv
  PROVE  /\ Newest(Upserted) \in Nat /\ Newest(stored) \in Nat
         /\ Inserted = {} => Known(Upserted) = Known(stored)
         /\ Inserted # {} =>
              /\ Newest(Upserted) = Len(market)
              /\ Newest(Upserted) > Newest(stored)
              /\ Window \subseteq Known(Upserted)
<1>0. /\ Len(market) \in Nat /\ FetchLimit \in Nat \ {0} /\ MaxCandles \in Nat
      /\ Len(market) <= MaxCandles
  BY LenProperties, LoopAssumption DEF TypeOK
<1>1. \A i \in Window : i \in 1..Len(market) /\ i \in 1..MaxCandles /\ market[i] \in Rel
  BY <1>0, LenProperties DEF TypeOK, Window
<1>2. Known(Upserted) = Known(stored) \union Window
  BY <1>1 DEF Known, Upserted, TypeOK, Rel
<1>3. Newest(Upserted) \in Nat /\ Newest(stored) \in Nat
  BY <1>0, NewestType, UpsertedType
<1>4. Inserted = {} => Known(Upserted) = Known(stored)
  BY <1>2 DEF Inserted
<1>5. ASSUME Inserted # {}
      PROVE  /\ Newest(Upserted) = Len(market)
             /\ Newest(Upserted) > Newest(stored)
             /\ Window \subseteq Known(Upserted)
  <2>1. PICK i \in Window : i \notin Known(stored)
    BY <1>5 DEF Inserted
  <2>2. Len(market) \in Window
    BY <1>0, <1>1, <2>1 DEF Window
  <2>3. Newest(Upserted) = Len(market)
    <3>1. Newest(Upserted) \in Known(Upserted) /\ Len(market) <= Newest(Upserted)
      BY <1>2, <2>2, NewestType, UpsertedType
    <3>2. Newest(Upserted) <= Len(market)
      BY <3>1, <1>0, UpsertedType DEF CandlesIn
    <3>3. QED
      BY <1>0, <1>3, <3>1, <3>2
  <2>4. Newest(stored) <= Len(market)
    <3>1. CASE Known(stored) = {}
      BY <1>0, <3>1 DEF Newest
    <3>2. CASE Known(stored) # {}
      BY <1>0, <3>2, NewestType DEF CandlesIn
    <3>3. QED
      BY <3>1, <3>2
  <2>5. Newest(stored) # Len(market)
    BY <1>0, <1>1, <2>1 DEF WindowInv, Window
  <2>6. QED
    BY <1>0, <1>2, <1>3, <2>3, <2>4, <2>5
<1>6. QED
  BY <1>3, <1>4, <1>5

LEMMA InitHInv == Init => HInv
<1> SUFFICES ASSUME Init PROVE HInv
  OBVIOUS
<1>1. Known(stored) = {}
  BY DEF Init, Known
<1>2. WindowInv
  BY <1>1 DEF WindowInv, Newest
<1>3. ClockInv
  BY LoopAssumption DEF Init, ClockInv, Epoch, NoStart
<1>4. QED
  BY <1>2, <1>3 DEF Init, HInv, CoolInv, PauseInv

LEMMA NextHInv == IInv /\ HInv /\ [Next]_vars => HInv'
<1> SUFFICES ASSUME IInv, HInv, [Next]_vars PROVE HInv'
  OBVIOUS
<1>0. ClockInv'
  <2>0. /\ wall \in Int /\ checkpoint \in Int /\ backs \in Nat /\ MaxBack \in Nat
        /\ start \in Starts /\ ClockInv
    BY LoopAssumption DEF IInv, TypeOK, HInv
  <2>1. CASE Tick
    BY <2>0, <2>1 DEF Tick, boundVars, dbVars, ClockInv, Epoch
  <2>2. CASE ClockSetBack
    BY <2>0, <2>2 DEF ClockSetBack, dbVars, ClockInv, Epoch
  <2>3. ASSUME NEW who \in {"desktop", "loop"}, BeginStart(who)
        PROVE  ClockInv'
    BY <2>0, <2>3 DEF BeginStart, Starting, venueVars, dbVars, boundVars, ClockInv, Epoch
  <2>4. CASE TestClock
    <3>1. start'.ready => ~ClockJumped
      BY <2>4 DEF TestClock, Starting, Passes
    <3>2. start'.now = wall /\ proc = "off"
          /\ UNCHANGED <<wall, backs, checkpoint, proc>>
      BY <2>0, <2>4 DEF TestClock, Starting, venueVars, dbVars, boundVars, ClockInv, NoStart,
                        Starts, IInv, TypeOK
    <3>3. wall >= 1
      BY <2>0 DEF ClockInv, Epoch
    <3>4. start'.ready => wall >= checkpoint
      BY <2>0, <3>1, <3>3 DEF ClockJumped
    <3>5. QED
      BY <2>0, <3>2, <3>4 DEF ClockInv, Epoch
  <2>5. CASE StartRefused \/ StartDies \/ StartLoop \/ StartDesktop
    <3>1. start' = NoStart /\ UNCHANGED <<wall, backs>>
      BY <2>5 DEF StartRefused, StartDies, StartLoop, StartDesktop, venueVars,
                  boundVars
    <3>2. QED
      BY <2>0, <3>1 DEF ClockInv, Epoch, NoStart
  <2>6. CASE TrayPause \/ CloseDesktop \/ SoakLeavesBreak \/ VenueCorrects
             \/ PollNothingNew \/ PollNew \/ NotSubmitted \/ SubmitBooked
             \/ SubmitFails \/ LoopDies \/ UNCHANGED vars
    <3>1. UNCHANGED <<wall, backs, checkpoint, start>> /\ (proc' # "off" => proc' = proc)
      BY <2>6 DEF TrayPause, CloseDesktop, SoakLeavesBreak, VenueCorrects,
                  PollNothingNew, PollNew, NotSubmitted, SubmitBooked, SubmitFails,
                  LoopFrame, LoopDies, vars, venueVars, dbVars, boundVars
    <3>2. QED
      BY <2>0, <3>1 DEF ClockInv, Epoch
  <2>7. QED
    BY <2>1, <2>2, <2>3, <2>4, <2>5, <2>6
       DEF Next, Environment, Launch, Desktop, Loop
<1>1. ASSUME UNCHANGED <<stored, exitAt, rule, job>>,
             proc' = "loop" => UNCHANGED <<proc, ks>>,
             proc = "loop" => proc' = "loop"
      PROVE  HInv'
  BY <1>0, <1>1 DEF HInv, WindowInv, CoolInv, PauseInv, Newest, Known
<1>2. CASE Environment
  BY <1>1, <1>2 DEF Environment, Tick, VenueCorrects, ClockSetBack, SoakLeavesBreak,
                    venueVars, dbVars, memoryVars
<1>3. CASE Desktop
  <2>1. proc = "loop" => start.at # "tested"
    BY DEF HInv, ClockInv, NoStart
  <2>2. QED
    BY <1>1, <1>3, <2>1
       DEF Desktop, StartDesktop, StartsReady, TrayPause, CloseDesktop,
           venueVars, dbVars, memoryVars
<1>11. CASE Launch
  BY <1>1, <1>11 DEF Launch, BeginStart, TestClock, StartRefused, StartDies,
                     dbVars, memoryVars
<1>4. CASE StartLoop
  <2>1. UNCHANGED stored /\ exitAt' = 0 /\ job' = NoJob
    BY <1>4 DEF StartLoop
  <2>2. QED
    BY <1>0, <2>1 DEF HInv, WindowInv, CoolInv, PauseInv, Newest, Known
<1>5. CASE PollNothingNew
  <2>1. /\ UNCHANGED <<exitAt, rule, job, proc, ks>>
        /\ stored' = Upserted /\ Known(Upserted) = Known(stored)
    BY <1>5, NewestAfterFetch DEF PollNothingNew, memoryVars, IInv, HInv
  <2>2. Newest(stored)' = Newest(stored) /\ Known(stored)' = Known(stored)
    BY <2>1 DEF Newest, Known
  <2>3. QED
    BY <1>0, <2>1, <2>2 DEF HInv, WindowInv, CoolInv, PauseInv
<1>6. CASE PollNew
  <2> DEFINE snap == Snapshot(Upserted)
             after == Evaluate(rule, snap).rule
             side == Evaluate(rule, snap).side
  <2>1. /\ proc' = "loop" /\ ks' = ks /\ UNCHANGED market /\ proc = "loop"
        /\ stored' = Upserted /\ rule' = after /\ job' = Submission(side)
        /\ exitAt' = IF side = "EXIT_LONG" THEN Newest(Upserted) ELSE exitAt
        /\ Inserted # {}
    BY <1>6 DEF PollNew, venueVars
  <2>2. /\ Newest(stored)' = Newest(Upserted) /\ Known(stored)' = Known(Upserted)
        /\ Newest(Upserted) = Len(market) /\ Newest(Upserted) > Newest(stored)
        /\ Newest(Upserted) \in Nat /\ Newest(stored) \in Nat
        /\ Window \subseteq Known(Upserted)
    BY <2>1, NewestAfterFetch DEF Newest, Known, IInv, HInv
  <2>3. WindowInv'
    BY <2>1, <2>2 DEF WindowInv, Window
  <2>4. Effect(rule, snap, after, side) /\ rule \in Rules /\ exitAt \in Nat
    BY <2>1, EvaluateEffect, UpsertedType, SnapshotType
       DEF IInv, TypeOK, RuleInv
  <2>5. CoolInv'
    <3>1. /\ Cooldown \in Nat /\ after.cooldown \in Nat /\ rule.cooldown \in Nat
          /\ after.cooldown + 1 >= rule.cooldown
          /\ side = "EXIT_LONG" => after.cooldown = Cooldown
      BY <2>4, LoopAssumption DEF Effect, Rules
    <3>2. CASE side = "EXIT_LONG"
      BY <2>1, <2>2, <3>1, <3>2 DEF CoolInv
    <3>3. CASE side # "EXIT_LONG"
      <4>1. exitAt' = exitAt
        BY <2>1, <3>3
      <4>2. exitAt # 0 => /\ exitAt <= Newest(stored)
                          /\ Newest(stored) - exitAt + rule.cooldown >= Cooldown
        BY DEF HInv, CoolInv
      <4>3. QED
        BY <2>1, <2>2, <2>4, <3>1, <4>1, <4>2 DEF CoolInv
    <3>4. QED
      BY <3>2, <3>3
  <2>6. PauseInv'
    BY <2>1 DEF PauseInv, Submission, NoJob
  <2>7. QED
    BY <1>0, <2>3, <2>5, <2>6 DEF HInv
<1>7. CASE NotSubmitted \/ SubmitBooked \/ SubmitFails
  <2>1. UNCHANGED <<proc, ks, stored, rule, exitAt>> /\ job' = NoJob
    BY <1>7 DEF NotSubmitted, SubmitBooked, SubmitFails, LoopFrame, Done
  <2>2. QED
    BY <1>0, <2>1 DEF HInv, WindowInv, CoolInv, PauseInv, Newest, Known
<1>8. CASE LoopDies
  <2>1. UNCHANGED stored /\ exitAt' = 0 /\ job' = NoJob
    BY <1>8 DEF LoopDies, dbVars
  <2>2. QED
    BY <1>0, <2>1 DEF HInv, WindowInv, CoolInv, PauseInv, Newest, Known
<1>9. CASE UNCHANGED vars
  BY <1>1, <1>9 DEF vars, dbVars, memoryVars
<1>10. QED
  BY <1>2, <1>3, <1>4, <1>5, <1>6, <1>7, <1>8, <1>9, <1>11 DEF Next, Loop

THEOREM StepInvariant == Spec => [](IInv /\ HInv)
<1>1. Init => IInv /\ HInv
  BY InitIInv, InitHInv
<1>2. IInv /\ HInv /\ [Next]_vars => (IInv /\ HInv)'
  BY NextIInv, NextHInv
<1>3. QED
  BY <1>1, <1>2, PTL DEF Spec

\* The rule moves only on a candle newer than any stored before: polling every
\* minute within one candle cannot use up its cooldown.
THEOREM JudgesEachCandleOnce == Spec => JudgedOnce
<1> DEFINE A == (proc = "loop" /\ proc' = "loop" /\ rule' # rule) =>
                   Newest(stored') > Newest(stored)
<1>1. IInv /\ HInv /\ [Next]_vars => [A]_vars
  <2> SUFFICES ASSUME IInv, HInv, Next, proc = "loop", proc' = "loop", rule' # rule
               PROVE  Newest(stored') > Newest(stored)
    BY DEF vars
  <2>0. start.at # "tested"
    BY DEF HInv, ClockInv, NoStart
  <2>1. PollNew
    BY <2>0 DEF StartsReady, Next, Environment, Launch, Desktop, Loop, Tick, VenueCorrects, ClockSetBack,
           SoakLeavesBreak, BeginStart, TestClock, StartRefused, StartDies,
           StartDesktop, TrayPause, CloseDesktop,
           StartLoop, PollNothingNew, NotSubmitted, SubmitBooked, SubmitFails,
           LoopFrame, LoopDies, memoryVars
  <2>2. QED
    BY <2>1, NewestAfterFetch DEF PollNew, IInv, HInv
<1>2. QED
  BY <1>1, StepInvariant, PTL DEF Spec, JudgedOnce

\* An entry is decided only when more candles than the cooldown have been
\* stored since this process decided to exit, however many a poll brings.
THEOREM EntersAfterCooldown == Spec => CooldownKept
<1> DEFINE A == (job'.side = "ENTER_LONG" /\ job.side # "ENTER_LONG" /\ exitAt # 0) =>
                   Newest(stored') - exitAt > Cooldown
<1>1. IInv /\ HInv /\ [Next]_vars => [A]_vars
  <2> SUFFICES ASSUME IInv, HInv, Next, exitAt # 0,
                      job'.side = "ENTER_LONG", job.side # "ENTER_LONG"
               PROVE  Newest(stored') - exitAt > Cooldown
    BY DEF vars
  <2>1. PollNew
    BY DEF Next, Environment, Launch, Desktop, Loop, Tick, VenueCorrects, ClockSetBack,
           SoakLeavesBreak, BeginStart, TestClock, StartRefused, StartDies,
           StartDesktop, TrayPause, CloseDesktop,
           StartLoop, PollNothingNew, NotSubmitted, SubmitBooked, SubmitFails,
           Done, LoopDies, memoryVars, NoJob
  <2> DEFINE snap == Snapshot(Upserted)
             side == Evaluate(rule, snap).side
  <2>2. stored' = Upserted /\ job' = Submission(side) /\ Inserted # {}
        /\ proc = "loop"
    BY <2>1 DEF PollNew
  <2>3. Effect(rule, snap, Evaluate(rule, snap).rule, side) /\ rule \in Rules
    BY <2>2, EvaluateEffect, UpsertedType, SnapshotType DEF IInv, TypeOK, RuleInv
  <2>4. side = "ENTER_LONG"
    BY <2>2, <2>3 DEF Submission, NoJob, Effect, Sides
  <2>5. rule.cooldown = 0 /\ Cooldown \in Nat /\ exitAt \in Nat
    BY <2>3, <2>4, LoopAssumption DEF Effect, IInv, TypeOK
  <2>6. Newest(stored) - exitAt >= Cooldown /\ Newest(stored) \in Nat
    BY <2>5, NewestAfterFetch DEF HInv, CoolInv, IInv
  <2>7. QED
    BY <2>2, <2>5, <2>6, NewestAfterFetch DEF IInv, HInv
<1>2. QED
  BY <1>1, StepInvariant, PTL DEF Spec, CooldownKept

\* While the stored kill switch is raised the paper broker buys nothing: a
\* decision was gated by the level that still holds when it is sent.
THEOREM PausedBuysNothing == Spec => PausedNeverBuys
<1> DEFINE A == (proc = "loop" /\ proc' = "loop" /\ paperPos' > paperPos) => ks = 0
<1>1. IInv /\ HInv /\ [Next]_vars => [A]_vars
  <2> SUFFICES ASSUME IInv, HInv, Next, proc = "loop", proc' = "loop",
                      paperPos' > paperPos
               PROVE  ks = 0
    BY DEF vars
  <2>0. paperPos \in Int /\ job \in Jobs /\ start.at # "tested"
    BY DEF IInv, TypeOK, HInv, ClockInv, NoStart
  <2>1. SubmitBooked \/ SubmitFails
    <3>1. paperPos' # paperPos
      BY <2>0
    <3>2. QED
      BY <2>0, <3>1 DEF StartsReady, Next, Environment, Launch, Desktop, Loop, Tick, VenueCorrects, ClockSetBack,
           SoakLeavesBreak, BeginStart, TestClock, StartRefused, StartDies,
           StartDesktop, TrayPause, CloseDesktop,
           StartLoop, PollNothingNew, PollNew, NotSubmitted, LoopDies, memoryVars
  <2>2. Sendable /\ paperPos' \in {paperPos, paperPos + Delta}
    BY <2>0, <2>1 DEF SubmitBooked, SubmitFails
  <2>3. Delta > 0
    BY <2>0, <2>2 DEF Delta, EntryQty, Jobs
  <2>4. job.side = "ENTER_LONG" /\ job.ks < 1
    BY <2>0, <2>2, <2>3 DEF Delta, Sendable, Jobs
  <2>5. job.ks = ks /\ ks \in 0..4
    BY <2>4 DEF HInv, PauseInv, NoJob, IInv, TypeOK
  <2>6. QED
    BY <2>4, <2>5
<1>2. QED
  BY <1>1, StepInvariant, PTL DEF Spec, PausedNeverBuys

\* The checkpoint goes back only if the clock does between the jump test and the
\* write of one launch: what the test compared is still the checkpoint then, and
\* no other launch, desktop or loop writes it in between.
THEOREM CheckpointFallsInOneWay == Spec => CheckpointKept
<1> DEFINE A == checkpoint' < checkpoint => start.at = "tested" /\ wall < start.now
<1>1. IInv /\ HInv /\ [Next]_vars => [A]_vars
  <2> SUFFICES ASSUME IInv, HInv, Next, checkpoint' < checkpoint
               PROVE  start.at = "tested" /\ wall < start.now
    BY DEF vars
  <2>0. checkpoint \in Int /\ wall \in Int /\ start \in Starts
    BY DEF IInv, TypeOK
  <2>1. checkpoint' # checkpoint
    BY <2>0
  <2>2. \E who \in {"desktop", "loop"} : StartsReady(who)
    BY <2>1 DEF Next, Environment, Launch, Desktop, Loop, Tick, VenueCorrects,
           ClockSetBack, SoakLeavesBreak, BeginStart, TestClock, StartRefused,
           StartDies, StartDesktop, TrayPause, CloseDesktop, StartLoop,
           PollNothingNew, PollNew, NotSubmitted, SubmitBooked, SubmitFails,
           LoopFrame, LoopDies, dbVars
  <2>3. start.at = "tested" /\ start.ready /\ checkpoint' = wall
    BY <2>2 DEF StartsReady
  <2>4. start.now >= checkpoint /\ start.now \in Int
    BY <2>0, <2>3 DEF HInv, ClockInv, Starts
  <2>5. QED
    BY <2>0, <2>3, <2>4
<1>2. QED
  BY <1>1, StepInvariant, PTL DEF Spec, CheckpointKept
=============================================================================

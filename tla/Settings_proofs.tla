---------------------------- MODULE Settings_proofs ----------------------------
(* Theorems about Settings: the guard, the PIN, backup and restore. *)
EXTENDS Settings, TLAPS, FiniteSetTheorems

(***************************************************************************)
(* The inductive invariant                                                 *)
(***************************************************************************)

\* The database c is in the folder, or the clock lied.
Kept(c) ==
  \/ op.safety \in DOMAIN folder /\ folder[op.safety] = c
  \/ Cardinality({s \in DOMAIN folder : s > op.safety}) >= Keep

\* An operation runs in the desktop only, and knows what it has done.
OpInv ==
  /\ op.pc = "idle" => op = Files!Idle
  /\ op.pc # "idle" => Guard!Running("desktop")
  /\ op.tmp = op.chosen
  /\ op.pc \in {"captured", "overwrite", "done"} => op.tmp # None
  /\ op.pc = "rotate" => op.safety \in DOMAIN folder
  /\ op.pc \in {"overwrite", "done"} => op.safety # None

\* No more answers than the database counts.
PinInv ==
  /\ wrong <= Limit
  /\ live # Damaged => wrong <= (IF live.pin = None THEN 0 ELSE live.pin.failed)
  /\ live = Damaged => wrong = 0

\* So much holds however many processes run.
IInv == TypeOK /\ OpInv /\ PinInv

\* While the mutex works nobody needs the file.
MutexOnly == \A p \in {"desktop", "headless"} : held[p] # "file"

\* Nobody writes beside an operation.
Undisturbed ==
  /\ op.pc = "rotate" => folder[op.safety] = live
  /\ op.pc = "overwrite" => Kept(live)
  /\ op.pc = "done" => Kept(op.before) /\ live \in {op.chosen, Damaged}

\* What the guard adds.
Guarded == MutexFails = FALSE /\ MutexOnly /\ Guard!OneInstance /\ Undisturbed

\* What is shown of every step.
Holds == IInv' /\ (Guarded => Guarded')

LEMMA Constants ==
  /\ Limit \in Nat /\ Limit > 0 /\ MaxRows \in Nat /\ Keep \in Nat /\ Keep > 0
  /\ MaxClock \in Nat /\ MutexFails \in BOOLEAN
  /\ None \notin Verifiers /\ None \notin Databases /\ None # Damaged
  /\ Damaged \notin Databases /\ None \notin Files!Seconds
BY SettingsAssumption DEF Guard!GuardAssumption, Files!BackupAssumption, Files!Seconds

(***************************************************************************)
(* The folder                                                              *)
(***************************************************************************)

\* The instance has its own copy of FiniteSets.
LEMMA SameCardinality ==
  ASSUME NEW S
  PROVE  Files!Cardinality(S) = Cardinality(S)
BY DEF Files!Cardinality, Cardinality

\* A file a rotation deletes has Keep later ones among those that stay.
LEMMA RotationDeletesOld ==
  \A S \in SUBSET Files!Seconds : \A T \in Files!Survivors(S) : \A s \in S :
     /\ T \subseteq S
     /\ s \in T \/ Cardinality({t \in T : t > s}) >= Keep
<1> SUFFICES ASSUME NEW S \in SUBSET Files!Seconds, NEW T \in Files!Survivors(S),
                    NEW s \in S
             PROVE  /\ T \subseteq S
                    /\ s \in T \/ Cardinality({t \in T : t > s}) >= Keep
  OBVIOUS
<1>1. CASE Cardinality(S) <= Keep
  BY <1>1, SameCardinality DEF Files!Survivors
<1>2. CASE ~(Cardinality(S) <= Keep)
  <2>1. PICK N \in Files!Newest(S) : N \subseteq T
    BY <1>2, SameCardinality DEF Files!Survivors
  <2>2. T \subseteq S /\ N \subseteq S
    BY <1>2, SameCardinality DEF Files!Survivors, Files!Newest
  <2>3. Cardinality(N) = Keep /\ \A n \in N, x \in S \ N : n > x
    BY SameCardinality DEF Files!Newest
  <2>4. CASE s \in T
    BY <2>2, <2>4
  <2>5. CASE s \notin T
    <3>1. N \subseteq {t \in T : t > s}
      BY <2>1, <2>2, <2>3, <2>5
    <3>2. IsFiniteSet({t \in T : t > s})
      <4>1. IsFiniteSet(Files!Seconds)
        BY FS_Interval, Constants DEF Files!Seconds
      <4>2. {t \in T : t > s} \subseteq Files!Seconds
        BY <2>2
      <4>3. QED
        BY <4>1, <4>2, FS_Subset
    <3>3. Cardinality(N) <= Cardinality({t \in T : t > s})
      BY <3>1, <3>2, FS_Subset
    <3>4. Cardinality({t \in T : t > s}) \in Nat
      BY <3>2, FS_CardinalityType
    <3>5. QED
      BY <2>2, <2>3, <3>3, <3>4, Constants
  <2>6. QED
    BY <2>4, <2>5
<1>3. QED
  BY <1>1, <1>2

(***************************************************************************)
(* The steps                                                               *)
(***************************************************************************)

LEMMA InitInvariant == Init => IInv /\ (MutexFails = FALSE => Guarded)
<1> SUFFICES ASSUME Init PROVE IInv /\ (MutexFails = FALSE => Guarded)
  OBVIOUS
<1> USE Constants DEF Init
<1>1. live \in Databases /\ live.pin = None
  BY DEF Databases, Pins
<1>2. Guard!GuardTypeOK /\ MutexOnly /\ Guard!OneInstance
  BY DEF MutexOnly, Guard!GuardInit, Guard!GuardTypeOK, Guard!OneInstance, Guard!Running
<1>3. op \in Files!Ops
  BY DEF Files!BackupInit, Files!Idle, Files!Ops
<1>4. Files!BackupTypeOK
  <2>1. folder \in [{} -> Files!Files] /\ clock \in Files!Seconds
    BY DEF Files!BackupInit, Files!Seconds
  <2>2. QED
    BY <1>1, <1>3, <2>1 DEF Files!BackupTypeOK, Files!Files
<1>5. OpInv /\ Undisturbed
  BY DEF Files!BackupInit, Files!Idle, OpInv, Undisturbed
<1>6. PinInv
  BY <1>1 DEF PinInv
<1>7. QED
  BY <1>2, <1>4, <1>5, <1>6 DEF TypeOK, IInv, Guarded

\* A start keeps the guard where the mutex does not fail, which Guarded says.
LEMMA StartStep ==
  ASSUME IInv, NEW p \in {"desktop", "headless"}, Start(p)
  PROVE  Holds
<1> USE DEF IInv, Start
<1>1. PICK token \in {"mutex", "file"} :
        Guard!Free(token) /\ held' = [held EXCEPT ![p] = token]
  BY DEF Guard!Acquire
<1>2. TypeOK'
  BY <1>1 DEF TypeOK, Files!BackupTypeOK, Files!Ops, Guard!GuardTypeOK
<1>3. OpInv'
  <2>1. Guard!Running("desktop") => Guard!Running("desktop")'
    BY <1>1 DEF TypeOK, Guard!Running, Guard!GuardTypeOK
  <2>2. QED
    BY <2>1 DEF OpInv
<1>4. PinInv'
  BY DEF PinInv
<1>5. ASSUME Guarded
      PROVE  Guarded'
  <2>1. held' = [held EXCEPT ![p] = "mutex"] /\ Guard!Free("mutex")
    BY <1>5 DEF Guard!Acquire, Guarded
  <2>2. \A q \in {"desktop", "headless"} : held[q] = "none"
    BY <1>5, <2>1 DEF TypeOK, Guarded, MutexOnly, Guard!Free, Guard!GuardTypeOK
  <2>3. MutexOnly' /\ Guard!OneInstance'
    BY <2>1, <2>2 DEF TypeOK, MutexOnly, Guard!Running, Guard!GuardTypeOK, Guard!OneInstance
  <2>4. QED
    BY <1>5, <2>3 DEF Guarded, Undisturbed, Kept
<1>6. QED
  BY <1>2, <1>3, <1>4, <1>5 DEF Holds

LEMMA IdleType == Files!Idle \in Files!Ops
BY DEF Files!Idle, Files!Ops

LEMMA StopStep ==
  ASSUME IInv, NEW p \in {"desktop", "headless"}, Stop(p)
  PROVE  Holds
<1> USE DEF IInv, Stop
<1>1. Guard!GuardTypeOK' /\ held' = [held EXCEPT ![p] = "none"]
  BY DEF TypeOK, Guard!Release, Guard!GuardTypeOK
<1>2. TypeOK'
  BY <1>1, IdleType DEF TypeOK, Files!BackupTypeOK
<1>3. OpInv' /\ (Undisturbed => Undisturbed')
  <2>1. CASE p = "desktop"
    BY <2>1 DEF OpInv, Undisturbed, Files!Idle
  <2>2. CASE p # "desktop"
    <3>1. Guard!Running("desktop") => Guard!Running("desktop")'
      BY <1>1, <2>2 DEF TypeOK, Guard!Running, Guard!GuardTypeOK
    <3>2. QED
      BY <2>2, <3>1 DEF OpInv, Undisturbed, Kept
  <2>3. QED
    BY <2>1, <2>2
<1>4. PinInv'
  BY DEF PinInv
<1>5. MutexOnly /\ Guard!OneInstance => MutexOnly' /\ Guard!OneInstance'
  BY <1>1 DEF TypeOK, MutexOnly, Guard!Running, Guard!GuardTypeOK, Guard!OneInstance
<1>6. QED
  BY <1>2, <1>3, <1>4, <1>5 DEF Holds, Guarded

\* A write while no operation runs leaves the operation as it is.
LEMMA IdleOpInv ==
  ASSUME OpInv, op.pc = "idle", op' = op
  PROVE  OpInv' /\ Undisturbed'
BY DEF OpInv, Undisturbed, Files!Idle

\* Processes and the tokens they hold are unchanged.
LEMMA SameHolders ==
  ASSUME held' = held
  PROVE  /\ Guard!GuardTypeOK => Guard!GuardTypeOK'
         /\ Guarded /\ Undisturbed' => Guarded'
BY DEF Guarded, MutexOnly, Guard!GuardTypeOK, Guard!OneInstance, Guard!Running

\* With the guard the other writer finds no operation under way.
LEMMA OtherWriteStep ==
  ASSUME IInv, NEW p \in {"desktop", "headless"}, OtherWrite(p)
  PROVE  Holds
<1> USE Constants DEF IInv, OtherWrite
<1>1. PICK n \in 0..MaxRows : live' = [pin |-> live.pin, rows |-> n]
  OBVIOUS
<1>2. live \in Databases
  BY DEF TypeOK, Files!BackupTypeOK, Files!Files
<1>3. live' \in Databases /\ live'.pin = live.pin
  BY <1>1, <1>2 DEF Databases
<1>4. TypeOK'
  BY <1>3, SameHolders DEF TypeOK, Files!BackupTypeOK, Files!Files
<1>5. OpInv'
  BY DEF OpInv, Guard!Running
<1>6. PinInv'
  BY <1>3 DEF PinInv
<1>7. ASSUME Guarded
      PROVE  Guarded'
  <2>1. op.pc = "idle"
    BY <1>7 DEF Guarded, OpInv, Guard!OneInstance
  <2>2. QED
    BY <1>7, <2>1, IdleOpInv, SameHolders
<1>8. QED
  BY <1>4, <1>5, <1>6, <1>7 DEF Holds

\* What set_pin stores is a verifier, and counts every wrong attempt.
LEMMA SetPinStep ==
  ASSUME IInv, SetPin
  PROVE  Holds
<1> USE Constants DEF IInv
<1>1. live \in Databases /\ live # Damaged /\ op.pc = "idle" /\ op' = op
  BY DEF SetPin, AtRest, TypeOK, Files!BackupTypeOK, Files!Files
<1>2. live.pin \in Pins /\ live.rows \in 0..MaxRows
  BY <1>1 DEF Databases
<1>3. /\ live' \in Databases /\ wrong' \in Nat /\ live'.pin # None
      /\ wrong' <= live'.pin.failed /\ live'.pin.failed <= Limit
  <2>1. CASE StorePin(Fresh) /\ wrong' = 0
    <3>1. Fresh \in Verifiers /\ Fresh.failed = 0
      BY DEF Fresh, Verifiers
    <3>2. QED
      BY <1>2, <2>1, <3>1 DEF StorePin, Databases, Pins
  <2>2. CASE live.pin # None /\ StorePin(Failed(live.pin)) /\ wrong' = wrong + 1
    <3>1. live.pin \in Verifiers /\ live.pin.failed \in 0..Limit
          /\ live.pin.failed # Limit
      BY <1>2, <2>2 DEF SetPin, Locked, Pins, Verifiers
    <3>2. Failed(live.pin) \in Verifiers
          /\ Failed(live.pin).failed = live.pin.failed + 1
      <4>1. CASE live.pin.failed + 1 >= Limit
        <5>1. Failed(live.pin) = [failed |-> live.pin.failed + 1, until |-> "naive"]
          BY <4>1 DEF Failed
        <5>2. QED
          BY <3>1, <4>1, <5>1 DEF Verifiers
      <4>2. CASE ~(live.pin.failed + 1 >= Limit)
        <5>1. Failed(live.pin) = [failed |-> live.pin.failed + 1, until |-> live.pin.until]
          BY <4>2 DEF Failed
        <5>2. live.pin.until = "never"
          BY <2>2, <3>1 DEF SetPin, Locked, Verifiers
        <5>3. QED
          BY <3>1, <4>2, <5>1, <5>2 DEF Verifiers
      <4>3. QED
        BY <4>1, <4>2
    <3>3. wrong \in Nat /\ wrong <= live.pin.failed
      BY <1>1, <2>2 DEF PinInv, TypeOK
    <3>4. live' = [pin |-> Failed(live.pin), rows |-> live.rows]
      BY <2>2 DEF StorePin
    <3>5. QED
      BY <1>2, <2>2, <3>1, <3>2, <3>3, <3>4 DEF Databases, Pins
  <2>3. QED
    BY <2>1, <2>2 DEF SetPin
<1>4. TypeOK'
  BY <1>3, SameHolders DEF SetPin, TypeOK, Files!BackupTypeOK, Files!Files
<1>5. OpInv' /\ (Guarded => Guarded')
  BY <1>1, IdleOpInv, SameHolders DEF SetPin
<1>6. live' # Damaged
  BY <1>3
<1>7. live'.pin.failed \in Nat
  BY <1>3 DEF Databases, Pins, Verifiers
<1>8. PinInv'
  BY <1>3, <1>6, <1>7 DEF PinInv
<1>9. QED
  BY <1>4, <1>5, <1>8 DEF Holds

LEMMA SetPinRaisesStep ==
  ASSUME IInv, SetPinRaises
  PROVE  Holds
<1> USE DEF IInv, SetPinRaises
<1>1. OpInv' /\ (Guarded => Guarded')
  BY IdleOpInv, SameHolders DEF AtRest
<1>2. QED
  BY <1>1, SameHolders DEF Holds, TypeOK, Files!BackupTypeOK, PinInv

\* The clock disturbs nothing; a spoiled file is of no operation under way.
LEMMA EnvironmentStep ==
  ASSUME IInv, Environment
  PROVE  Holds
<1> USE DEF IInv, Environment
<1>1. CASE Files!ClockMoves
  <2>1. OpInv' /\ (Undisturbed => Undisturbed')
    BY <1>1 DEF Files!ClockMoves, OpInv, Undisturbed, Kept, Guard!Running
  <2>2. TypeOK' /\ PinInv'
    BY <1>1, SameHolders DEF Files!ClockMoves, TypeOK, Files!BackupTypeOK, PinInv
  <2>3. QED
    BY <2>1, <2>2, SameHolders DEF Holds, Guarded
<1>2. CASE Files!Spoil
  <2>1. OpInv' /\ Undisturbed'
    BY <1>2, IdleOpInv DEF Files!Spoil
  <2>2. Files!BackupTypeOK'
    BY <1>2 DEF Files!Spoil, TypeOK, Files!BackupTypeOK, Files!Files
  <2>3. QED
    BY <1>2, <2>1, <2>2, SameHolders DEF Files!Spoil, Holds, TypeOK, PinInv
<1>3. QED
  BY <1>1, <1>2

(***************************************************************************)
(* Backup and restore                                                      *)
(***************************************************************************)

\* A step of the desktop that leaves guard, database and counts alone.
LEMMA FrameOfSteps ==
  ASSUME IInv, BackupOrRestore, live' = live, OpInv', Files!BackupTypeOK',
         Guarded => Undisturbed'
  PROVE  Holds
<1>1. wrong' = wrong
  BY DEF BackupOrRestore
<1>2. QED
  BY <1>1, SameHolders DEF BackupOrRestore, Holds, IInv, TypeOK, PinInv

\* Afterwards the snapshot holds the database.
LEMMA PlaceStep ==
  ASSUME IInv, Files!Place, live # Damaged, live' = live, clock' = clock,
         held' = held, Guard!Running("desktop")
  PROVE  OpInv' /\ Undisturbed' /\ Files!BackupTypeOK'
<1> USE DEF IInv
<1>1. PICK D \in SUBSET Files!Seconds : folder \in [D -> Files!Files]
  BY DEF TypeOK, Files!BackupTypeOK
<1>2. live \in Files!Files /\ clock \in Files!Seconds /\ op \in Files!Ops
  BY DEF TypeOK, Files!BackupTypeOK
<1>3. folder' \in [D \union {clock} -> Files!Files] /\ folder'[clock] = live
  <2>1. folder' = Files!Put(folder, clock, live)
    BY DEF Files!Place
  <2>2. Files!Put(folder, clock, live) \in [D \union {clock} -> Files!Files]
        /\ Files!Put(folder, clock, live)[clock] = live
    BY <1>1, <1>2 DEF Files!Put
  <2>3. QED
    BY <2>1, <2>2
<1>4. op' = [pc |-> "rotate", tmp |-> op.tmp, chosen |-> op.chosen, from |-> op.from,
             safety |-> clock, before |-> op.before]
  BY DEF Files!Place
<1>5. op' \in Files!Ops
  BY <1>2, <1>4 DEF Files!Ops
<1>6. Files!BackupTypeOK'
  <2>1. D \union {clock} \in SUBSET Files!Seconds
    BY <1>1, <1>2
  <2>2. QED
    BY <1>2, <1>3, <1>5, <2>1, Constants DEF Files!BackupTypeOK, Files!Seconds, Files!Files
<1>7. OpInv' /\ Undisturbed'
  BY <1>3, <1>4, Constants DEF OpInv, Undisturbed, Guard!Running
<1>8. QED
  BY <1>6, <1>7

LEMMA BackupNowStep ==
  ASSUME IInv, BackupOrRestore, Files!BackupNow
  PROVE  Holds
BY PlaceStep, FrameOfSteps DEF Files!BackupNow, BackupOrRestore

\* The snapshot just taken survives, unless Keep later ones do.
LEMMA RotateStep ==
  ASSUME IInv, BackupOrRestore, Files!Rotate
  PROVE  Holds
<1> USE DEF IInv
<1>1. PICK D \in SUBSET Files!Seconds : folder \in [D -> Files!Files]
  BY DEF TypeOK, Files!BackupTypeOK
<1>2. PICK T \in Files!Survivors(D) : folder' = [s \in T |-> folder[s]]
  BY <1>1 DEF Files!Rotate
<1>3. op.pc = "rotate" /\ op \in Files!Ops /\ op.safety \in D
      /\ (Guarded => folder[op.safety] = live) /\ op.tmp = op.chosen /\ Guard!Running("desktop")
  BY <1>1 DEF Files!Rotate, OpInv, Guarded, Undisturbed, TypeOK, Files!BackupTypeOK
<1>4. T \subseteq D /\ (op.safety \in T \/ Cardinality({t \in T : t > op.safety}) >= Keep)
  <2>1. \A s \in D : T \subseteq D /\ (s \in T \/ Cardinality({t \in T : t > s}) >= Keep)
    BY RotationDeletesOld
  <2> DEFINE s == op.safety
  <2>2. s \in D
    BY <1>3
  <2> HIDE DEF s
  <2>3. T \subseteq D /\ (s \in T \/ Cardinality({t \in T : t > s}) >= Keep)
    BY <2>1, <2>2
  <2>4. QED
    BY <2>3 DEF s
<1>5. folder' \in [T -> Files!Files] /\ DOMAIN folder' = T
      /\ (Guarded /\ op.safety \in T => folder'[op.safety] = live)
  BY <1>1, <1>2, <1>3, <1>4
<1>6. live' = live /\ clock' = clock /\ held' = held
  BY DEF Files!Rotate, BackupOrRestore
<1>7. CASE op.tmp = None
  <2>1. op' = Files!Idle
    BY <1>7 DEF Files!Rotate
  <2>2. Files!BackupTypeOK'
    BY <1>4, <1>5, <1>6, <2>1, IdleType DEF TypeOK, Files!BackupTypeOK
  <2>3. OpInv' /\ Undisturbed'
    BY <2>1 DEF OpInv, Undisturbed, Files!Idle
  <2>4. QED
    BY <1>6, <2>2, <2>3, FrameOfSteps
<1>8. CASE op.tmp # None
  <2>1. op' = [pc |-> "overwrite", tmp |-> op.tmp, chosen |-> op.chosen, from |-> op.from,
               safety |-> op.safety, before |-> op.before]
    BY <1>8 DEF Files!Rotate
  <2>2. op' \in Files!Ops
    BY <1>3, <2>1 DEF Files!Ops
  <2>3. Files!BackupTypeOK'
    BY <1>4, <1>5, <1>6, <2>2 DEF TypeOK, Files!BackupTypeOK
  <2>4. op'.safety = op.safety /\ op.safety # None
    BY <1>1, <1>3, <2>1, Constants
  <2>5. OpInv' /\ (Guarded => Undisturbed')
    <3>1. OpInv'
      BY <1>3, <1>6, <1>8, <2>1, <2>4 DEF OpInv, Guard!Running
    <3>2. op'.pc = "overwrite" /\ (Guarded => Kept(live)')
      BY <1>4, <1>5, <1>6, <2>1 DEF Kept
    <3>3. QED
      BY <3>1, <3>2 DEF Undisturbed
  <2>6. QED
    BY <1>6, <2>3, <2>5, FrameOfSteps
<1>9. QED
  BY <1>7, <1>8

LEMMA RestoreCaptureStep ==
  ASSUME IInv, BackupOrRestore, Files!RestoreCapture
  PROVE  Holds
<1> USE Constants DEF IInv
<1>1. PICK file \in DOMAIN folder \union {None}, content \in Databases :
        op' = [pc |-> "captured", tmp |-> content, chosen |-> content,
               from |-> file, safety |-> None, before |-> None]
  BY DEF Files!RestoreCapture
<1>2. live' = live /\ folder' = folder /\ clock' = clock /\ held' = held
  BY DEF Files!RestoreCapture, BackupOrRestore
<1>3. file \in Files!Seconds \union {None}
  BY DEF TypeOK, Files!BackupTypeOK
<1>4. op' \in Files!Ops
  BY <1>1, <1>3 DEF Files!Ops
<1>5. Files!BackupTypeOK'
  BY <1>2, <1>4 DEF TypeOK, Files!BackupTypeOK
<1>6. OpInv' /\ Undisturbed'
  BY <1>1, <1>2 DEF OpInv, Undisturbed, Guard!Running, BackupOrRestore
<1>7. QED
  BY <1>2, <1>5, <1>6, FrameOfSteps

LEMMA IdleStep ==
  ASSUME IInv, BackupOrRestore, op' = Files!Idle,
         live' = live, folder' = folder, clock' = clock
  PROVE  Holds
<1>1. Files!BackupTypeOK'
  BY IdleType DEF IInv, TypeOK, Files!BackupTypeOK
<1>2. OpInv' /\ Undisturbed'
  BY DEF OpInv, Undisturbed, Files!Idle
<1>3. QED
  BY <1>1, <1>2, FrameOfSteps

LEMMA RestoreSafetyStep ==
  ASSUME IInv, BackupOrRestore, Files!RestoreSafety
  PROVE  Holds
<1>1. CASE live # Damaged /\ Files!Place
  BY <1>1, PlaceStep, FrameOfSteps DEF Files!RestoreSafety, BackupOrRestore
<1>2. CASE live = Damaged /\ op' = Files!Idle /\ UNCHANGED folder
  BY <1>2, IdleStep DEF Files!RestoreSafety
<1>3. QED
  BY <1>1, <1>2 DEF Files!RestoreSafety

\* The database changes; its count starts anew.
LEMMA RestoreOverwriteStep ==
  ASSUME IInv, BackupOrRestore, Files!RestoreOverwrite
  PROVE  Holds
<1> USE Constants
<1>1. CASE live' = live /\ op' = Files!Idle
  BY <1>1, IdleStep DEF Files!RestoreOverwrite
<1>2. CASE /\ live' \in {Files!Source, Damaged}
           /\ op' = [pc |-> "done", tmp |-> op.tmp, chosen |-> op.chosen, from |-> op.from,
                     safety |-> op.safety, before |-> live]
  <2> USE DEF IInv
  <2>1. op \in Files!Ops /\ op.pc = "overwrite" /\ op.tmp # None /\ op.tmp = op.chosen
        /\ live \in Files!Files
    BY DEF TypeOK, Files!BackupTypeOK, Files!RestoreOverwrite, OpInv
  <2>2. op.tmp \in Databases /\ live' \in {op.chosen, Damaged} /\ live' \in Files!Files
    BY <1>2, <2>1 DEF Files!Ops, Files!Source, Files!Files
  <2>3. op' \in Files!Ops
    BY <1>2, <2>1 DEF Files!Ops
  <2>4. folder' = folder /\ clock' = clock /\ held' = held
    BY DEF Files!RestoreOverwrite, BackupOrRestore
  <2>5. Files!BackupTypeOK'
    BY <2>2, <2>3, <2>4 DEF TypeOK, Files!BackupTypeOK
  <2>6. OpInv' /\ (Guarded => Guarded')
    <3>1. OpInv'
      BY <1>2, <2>1, <2>4 DEF OpInv, Guard!Running
    <3>2. Guarded => Undisturbed'
      BY <1>2, <2>1, <2>2, <2>4 DEF Guarded, Undisturbed, Kept
    <3>3. QED
      BY <2>4, <3>1, <3>2, SameHolders
  <2>7. wrong' = IF live' # live THEN 0 ELSE wrong
    BY DEF BackupOrRestore
  <2>8. PinInv' /\ wrong' \in Nat
    <3>1. CASE live' = live
      BY <2>7, <3>1 DEF PinInv, TypeOK
    <3>2. CASE live' # live
      <4>1. wrong' = 0
        BY <2>7, <3>2
      <4>2. live' # Damaged => live' \in Databases
        BY <2>2 DEF Files!Files
      <4>3. live' # Damaged /\ live'.pin # None => live'.pin.failed \in Nat
        BY <4>2 DEF Databases, Pins, Verifiers
      <4>4. QED
        BY <4>1, <4>3 DEF PinInv
    <3>3. QED
      BY <3>1, <3>2
  <2>9. QED
    BY <2>4, <2>5, <2>6, <2>8, SameHolders DEF Holds, TypeOK, BackupOrRestore
<1>3. QED
  BY <1>1, <1>2 DEF Files!RestoreOverwrite

LEMMA BackupOrRestoreStep ==
  ASSUME IInv, BackupOrRestore
  PROVE  Holds
<1>1. CASE Files!RestoreShown
  BY <1>1, IdleStep DEF Files!RestoreShown
<1>2. QED
  BY <1>1, BackupNowStep, RotateStep, RestoreCaptureStep, RestoreSafetyStep,
     RestoreOverwriteStep DEF BackupOrRestore, Files!BackupSteps

(***************************************************************************)
(* The theorems                                                            *)
(***************************************************************************)

LEMMA NextHolds == IInv /\ [Next]_vars => Holds
<1> SUFFICES ASSUME IInv, [Next]_vars
             PROVE  Holds
  OBVIOUS
<1>1. CASE UNCHANGED vars
  BY <1>1, SameHolders DEF vars, Holds, IInv, TypeOK, Files!BackupTypeOK, OpInv,
       Guard!Running, PinInv, Guarded, Undisturbed, Kept
<1>2. CASE Next
  BY <1>2, StartStep, StopStep, OtherWriteStep, SetPinStep, SetPinRaisesStep,
     BackupOrRestoreStep, EnvironmentStep DEF Next
<1>3. QED
  BY <1>1, <1>2

\* Types, operation and PIN row hold with or without the guard.
THEOREM SettingsInvariant == Spec => []IInv
<1>1. IInv /\ [Next]_vars => IInv'
  BY NextHolds DEF Holds
<1>2. QED
  BY <1>1, InitInvariant, PTL DEF Spec

\* As long as CreateMutexW does its work nobody disturbs an operation.
THEOREM SettingsGuarded == ASSUME MutexFails = FALSE PROVE Spec => [](IInv /\ Guarded)
<1>1. Init => IInv /\ Guarded
  BY InitInvariant
<1>2. IInv /\ Guarded /\ [Next]_vars => IInv' /\ Guarded'
  BY NextHolds DEF Holds
<1>3. QED
  BY <1>1, <1>2, PTL DEF Spec

\* Files, operation and PIN are what the code may store, also when two
\* processes run.
THEOREM SettingsTypes == Spec => []TypeOK
<1>1. IInv => TypeOK
  BY DEF IInv
<1>2. QED
  BY <1>1, SettingsInvariant, PTL

\* Desktop and headless commands never run at the same time.
THEOREM GuardExcludes == ASSUME MutexFails = FALSE PROVE Spec => []Guard!OneInstance
<1>1. Guarded => Guard!OneInstance
  BY DEF Guarded
<1>2. QED
  BY <1>1, SettingsGuarded, PTL

\* What a restore overwrites is in the folder, whatever writes, crashes and
\* clock steps came before.
THEOREM RestoreLosesNothing == ASSUME MutexFails = FALSE PROVE Spec => []NothingLost
<1>1. IInv /\ Guarded => NothingLost
  BY SameCardinality DEF Guarded, Undisturbed, Kept, NothingLost, Files!SafetyCopyKept
<1>2. QED
  BY <1>1, SettingsGuarded, PTL

\* A restore leaves what was chosen: nobody has written since.
THEOREM RestoresTheChosen == ASSUME MutexFails = FALSE PROVE Spec => []RestoredWasChosen
<1>1. IInv /\ Guarded => RestoredWasChosen
  BY DEF Guarded, Undisturbed, RestoredWasChosen, Files!RestoredWasChosen
<1>2. QED
  BY <1>1, SettingsGuarded, PTL

\* The PIN cannot be tried without end, not beside a second process either:
\* whoever else writes keeps the PIN row (verify_pin, set_pin).
THEOREM PinAttemptsBounded == Spec => []AttemptsBounded
<1>1. IInv => AttemptsBounded
  BY DEF IInv, PinInv, AttemptsBounded
<1>2. QED
  BY <1>1, SettingsInvariant, PTL

=============================================================================

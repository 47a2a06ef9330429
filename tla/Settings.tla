------------------------------- MODULE Settings -------------------------------
(***************************************************************************)
(* The settings page (app_ui/controllers/settings.py, views/settings_page) *)
(* where it changes the database: the PIN (persistence/pin.py), backup and *)
(* restore; beside the other writers of the database, which the guard of   *)
(* SingleInstance keeps from running at the same time.                     *)
(*                                                                         *)
(* The desktop does one thing after the other, on the thread of its        *)
(* window.  A transaction that fails changes nothing and is left out.      *)
(***************************************************************************)
EXTENDS Integers, FiniteSets

CONSTANTS
  Limit,      \* wrong PINs until the lockout: 5 in verify_pin
  MaxRows,    \* bound: all other tables have 0..MaxRows rows
  MutexFails, \* see SingleInstance
  Damaged, None, Keep, MaxClock  \* see Backup

VARIABLES
  held,       \* SingleInstance
  live, folder, clock, op, \* Backup
  wrong,      \* history: attempts answered "incorrect" since the PIN in the
              \* database was set or restored
  raised      \* history: set_pin raised into the view

vars == <<held, live, folder, clock, op, wrong, raised>>

-----------------------------------------------------------------------------
(* The parts *)

\* pin_verifier: its row, if any.  A lockout_until that was stored is read
\* back without its time zone; it is stored with the last attempt.
Verifiers == {v \in [failed : 0..Limit, until : {"never", "naive"}] :
                v.until = "naive" <=> v.failed = Limit}

Pins == Verifiers \union {None}

Databases == [pin : Pins, rows : 0..MaxRows]

Guard == INSTANCE SingleInstance WITH
  Processes <- {"desktop", "headless"}, Backend <- "mutex"

Files == INSTANCE Backup WITH Contents <- Databases

ASSUME SettingsAssumption ==
  /\ Limit \in Nat \ {0} /\ MaxRows \in Nat
  /\ None \notin Verifiers
  /\ Guard!GuardAssumption /\ Files!BackupAssumption

TypeOK ==
  /\ Guard!GuardTypeOK
  /\ Files!BackupTypeOK
  /\ wrong \in Nat
  /\ raised \in BOOLEAN

Init ==
  /\ Guard!GuardInit
  /\ Files!BackupInit /\ live = [pin |-> None, rows |-> 0]
  /\ wrong = 0 /\ raised = FALSE

AtRest == op.pc = "idle" /\ live # Damaged

-----------------------------------------------------------------------------
(* The PIN *)

Fresh == [failed |-> 0, until |-> "never"]

\* What lockout_until says, as far as verify_pin gets with it.
Locked(pin) == pin # None /\ pin.until = "naive"

StorePin(pin) == live' = [pin |-> pin, rows |-> live.rows]

\* Variant of Failed that does not count.
Failed_Uncounted(pin) == pin

\* verify_pin of a wrong PIN.
Failed(pin) == [failed |-> pin.failed + 1,
                until  |-> IF pin.failed + 1 >= Limit THEN "naive" ELSE pin.until]

\* set_pin, the two new PINs being equal.  With no row the new PIN is stored;
\* a wrong current one is counted; a right one clears the count, whether the
\* new PIN is long enough or not.
SetPin ==
  /\ Guard!Running("desktop") /\ AtRest
  /\ ~Locked(live.pin)
  /\ \/ StorePin(Fresh) /\ wrong' = 0
     \/ live.pin # None /\ StorePin(Failed(live.pin)) /\ wrong' = wrong + 1
  /\ UNCHANGED <<held, folder, clock, op, raised>>

\* verify_pin compares the time of day, which has a time zone, with a stored
\* lockout_until, which has none: TypeError, and neither set_pin nor the view
\* catches it.
SetPinRaises ==
  /\ Guard!Running("desktop") /\ AtRest
  /\ Locked(live.pin)
  /\ raised' = TRUE
  /\ UNCHANGED <<held, live, folder, clock, op, wrong>>

-----------------------------------------------------------------------------
(* The processes *)

\* A process starts; the desktop's start ends what a crash interrupted.
Start(p) ==
  /\ Guard!Acquire(p)
  /\ UNCHANGED <<live, folder, clock, op, wrong, raised>>

\* A process ends or dies, the desktop in the middle of a restore as well.
Stop(p) ==
  /\ Guard!Release(p)
  /\ op' = IF p = "desktop" THEN Files!Idle ELSE op
  /\ UNCHANGED <<live, folder, clock, wrong, raised>>

\* Whatever else the two write: orders, candles, a switch.
OtherWrite(p) ==
  /\ Guard!Running(p) /\ live # Damaged
  /\ p = "desktop" => op.pc = "idle"
  /\ \E n \in 0..MaxRows : n # live.rows /\ live' = [pin |-> live.pin, rows |-> n]
  /\ UNCHANGED <<held, folder, clock, op, wrong, raised>>

\* Backup and restore buttons.
BackupOrRestore ==
  /\ Guard!Running("desktop")
  /\ Files!BackupSteps
  /\ wrong' = IF Files!RestoreOverwrite /\ live' # live THEN 0 ELSE wrong
  /\ UNCHANGED <<held, raised>>

Environment ==
  /\ Files!ClockMoves \/ Files!Spoil
  /\ UNCHANGED <<held, wrong, raised>>

-----------------------------------------------------------------------------
(* The specification *)

Next ==
  \/ \E p \in {"desktop", "headless"} : Start(p) \/ Stop(p) \/ OtherWrite(p)
  \/ SetPin \/ SetPinRaises
  \/ BackupOrRestore \/ Environment

Spec == Init /\ [][Next]_vars

-----------------------------------------------------------------------------
(* Safety *)

\* A restore loses nothing: see Backup.  It depends on the guard, for a
\* process that writes between the safety copy and the overwriting writes
\* into neither.
NothingLost == Files!SafetyCopyKept

\* A restore leaves what was chosen: see Backup.
RestoredWasChosen == Files!RestoredWasChosen

\* Between two settings of the PIN at most Limit attempts are answered as
\* incorrect, over restarts and whatever else is written; a restore starts the
\* count of the file it brings back.
AttemptsBounded == wrong <= Limit

\* "Never raises into the view" (controllers/settings.py:131, of set_pin).
SetPinNeverRaises == ~raised

=============================================================================

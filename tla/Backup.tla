-------------------------------- MODULE Backup --------------------------------
(***************************************************************************)
(* Backups of the database and their restore (persistence/backup.py).      *)
(*                                                                         *)
(* The names of the files in backups/ carry the second they were taken;    *)
(* the newest Keep of them by name survive a rotation.  A restore is a     *)
(* chain of file operations: capture the chosen file, snapshot the live    *)
(* database, rotate, overwrite.  The process may die between any two, and  *)
(* the clock may be set back.                                              *)
(***************************************************************************)
EXTENDS Integers, FiniteSets

CONSTANTS
  Contents,  \* what an intact database of this version may hold
  Damaged,   \* what fails integrity_check or is of another alembic version
  None,
  Keep,      \* DEFAULT_BACKUP_RETENTION
  MaxClock   \* bound: seconds are 0..MaxClock

VARIABLES
  live,      \* the database
  folder,    \* backups/: second in the name -> what the file holds
  clock,     \* datetime.now(UTC), in whole seconds
  op         \* snapshot_database or restore_database under way

backupVars == <<live, folder, clock, op>>

\* What the including module assumes.
BackupAssumption ==
  /\ Keep \in Nat \ {0} /\ MaxClock \in Nat
  /\ Damaged \notin Contents /\ None \notin Contents \union {Damaged} \union 0..MaxClock

-----------------------------------------------------------------------------
(* Types and initial state *)

Seconds == 0..MaxClock
Files == Contents \union {Damaged}

\* tmp: the captured file; from: where it came from, if from the folder.
\* safety: the second of the snapshot taken.
\* chosen, before: history, what the chosen file held when it was chosen and
\* the database before it was overwritten.
Ops == [pc     : {"idle", "captured", "rotate", "overwrite", "done"},
        tmp    : Contents \union {None}, chosen : Contents \union {None},
        from   : Seconds \union {None},  safety : Seconds \union {None},
        before : Files \union {None}]

Idle == [pc |-> "idle", tmp |-> None, chosen |-> None, from |-> None,
         safety |-> None, before |-> None]

BackupTypeOK ==
  /\ live \in Files
  /\ \E D \in SUBSET Seconds : folder \in [D -> Files]
  /\ clock \in Seconds
  /\ op \in Ops

BackupInit ==
  /\ live \in Contents
  /\ folder = [s \in {} |-> Damaged]
  /\ clock = 0
  /\ op = Idle

-----------------------------------------------------------------------------
(* The folder *)

\* tmp.replace(final): a file of the same second is overwritten.
Put(f, s, content) == [t \in DOMAIN f \union {s} |-> IF t = s THEN content ELSE f[t]]

\* The Keep files with the latest seconds in their names.
Newest(S) ==
  {N \in SUBSET S : Cardinality(N) = Keep /\ \A n \in N, s \in S \ N : n > s}

\* rotate_backups: nothing to do, or all but the newest are unlinked; a file
\* whose unlink fails stays, and so does one not yet reached when the process
\* dies.
Survivors(S) ==
  IF Cardinality(S) <= Keep THEN {S}
  ELSE {T \in SUBSET S : \E N \in Newest(S) : N \subseteq T}

-----------------------------------------------------------------------------
(* Snapshot *)

\* snapshot_database up to tmp.replace(final), for the backup button and for
\* the safety copy of a restore.  A database that fails integrity_check is
\* not backed up: the exception ends both.
Place ==
  /\ folder' = Put(folder, clock, live)
  /\ op' = [pc |-> "rotate", tmp |-> op.tmp, chosen |-> op.chosen, from |-> op.from,
            safety |-> clock, before |-> op.before]

\* run_backup; a failure of the copy leaves all as it was.
BackupNow ==
  /\ op.pc = "idle" /\ live # Damaged
  /\ Place
  /\ UNCHANGED <<live, clock>>

\* rotate_backups at the end of snapshot_database.
Rotate ==
  /\ op.pc = "rotate"
  /\ \E S \in Survivors(DOMAIN folder) : folder' = [s \in S |-> folder[s]]
  /\ op' = IF op.tmp = None THEN Idle
           ELSE [pc |-> "overwrite", tmp |-> op.tmp, chosen |-> op.chosen, from |-> op.from,
                 safety |-> op.safety, before |-> op.before]
  /\ UNCHANGED <<live, clock>>

-----------------------------------------------------------------------------
(* Restore *)

\* run_restore of a file of the folder, or of a copy from elsewhere: the
\* checks, and the copy to restore.tmp.
RestoreCapture ==
  /\ op.pc = "idle"
  /\ \E file \in DOMAIN folder \union {None}, content \in Contents :
        /\ file # None => folder[file] = content
        /\ op' = [pc |-> "captured", tmp |-> content, chosen |-> content,
                  from |-> file, safety |-> None, before |-> None]
  /\ UNCHANGED <<live, folder, clock>>

\* The safety snapshot; a damaged database cannot be copied, and the restore
\* ends there.
RestoreSafety ==
  /\ op.pc = "captured"
  /\ \/ live # Damaged /\ Place
     \/ live = Damaged /\ op' = Idle /\ UNCHANGED folder
  /\ UNCHANGED <<live, clock>>

\* Variant of Source that reads the chosen file after the safety copy.
Source_Late == IF op.from \in DOMAIN folder THEN folder[op.from] ELSE op.tmp

\* What is copied over the database.
Source == op.tmp

\* replace, or where the file is open the copy in place, which is one
\* transaction: it succeeds, fails as a whole, or the integrity_check after
\* it finds the file broken.
RestoreOverwrite ==
  /\ op.pc = "overwrite"
  /\ \/ /\ live' \in {Source, Damaged}
        /\ op' = [pc |-> "done", tmp |-> op.tmp, chosen |-> op.chosen, from |-> op.from,
                  safety |-> op.safety, before |-> live]
     \/ live' = live /\ op' = Idle
  /\ UNCHANGED <<folder, clock>>

\* The message is closed.
RestoreShown ==
  /\ op.pc = "done"
  /\ op' = Idle
  /\ UNCHANGED <<live, folder, clock>>

-----------------------------------------------------------------------------
(* The surroundings *)

\* Time passes, or the clock is set back.
ClockMoves ==
  /\ clock' \in Seconds \ {clock}
  /\ UNCHANGED <<live, folder, op>>

\* A file of the folder is damaged, or the application upgraded since.
Spoil ==
  /\ op.pc = "idle"
  /\ \E s \in DOMAIN folder :
        folder[s] # Damaged /\ folder' = [folder EXCEPT ![s] = Damaged]
  /\ UNCHANGED <<live, clock, op>>

BackupSteps ==
  \/ BackupNow \/ Rotate
  \/ RestoreCapture \/ RestoreSafety \/ RestoreOverwrite \/ RestoreShown

-----------------------------------------------------------------------------
(* Safety *)

\* Once the database is overwritten, by the captured file or by what the
\* integrity_check rejects, what it held lies at the path the message names.
\* The one exception: the clock was set back behind Keep later backups, and
\* the rotation deleted the copy it had just taken.
SafetyCopyKept ==
  op.pc = "done" =>
    \/ op.safety \in DOMAIN folder /\ folder[op.safety] = op.before
    \/ Cardinality({s \in DOMAIN folder : s > op.safety}) >= Keep

\* What a restore leaves is what the chosen file held when it was chosen, also
\* when the safety copy of the same second overwrote that file or the rotation
\* deleted it; or a database the integrity_check reported as broken.
RestoredWasChosen == op.pc = "done" => live \in {op.chosen, Damaged}

=============================================================================

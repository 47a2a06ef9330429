---------------------------- MODULE SingleInstance ----------------------------
(***************************************************************************)
(* SingleInstanceGuard (app_ui/services/single_instance.py): the token the *)
(* desktop and every headless command but --version take before they open  *)
(* the database.  On Windows it is a named mutex, with a locked file in    *)
(* its place where the mutex cannot be created; elsewhere it is the file.  *)
(* The system frees both when their process ends, however it ends.         *)
(***************************************************************************)
CONSTANTS
  Processes,  \* those who take the guard
  Backend,    \* the backend of sys.platform
  MutexFails  \* whether CreateMutexW may fail to make or open the mutex

VARIABLE
  held        \* the token each process has: "none", "mutex" or "file"

\* What the including module assumes.
GuardAssumption ==
  Backend \in {"mutex", "file"} /\ MutexFails \in BOOLEAN

GuardTypeOK == held \in [Processes -> {"none", "mutex", "file"}]

GuardInit == held = [p \in Processes |-> "none"]

Running(p) == held[p] # "none"

\* Variant of Free that overlooks ERROR_ALREADY_EXISTS.
Free_Overlooks(token) == token = "mutex" \/ \A p \in Processes : held[p] # token

\* The mutex does not exist yet; the byte of the file is not locked.
Free(token) == \A p \in Processes : held[p] # token

\* SingleInstanceGuard.acquire by a process that starts, which ends again
\* when it is refused.
Acquire(p) ==
  /\ ~Running(p)
  /\ \E token \in {Backend} \union (IF MutexFails THEN {"file"} ELSE {}) :
        Free(token) /\ held' = [held EXCEPT ![p] = token]

\* release, or the end of the process.
Release(p) ==
  /\ Running(p)
  /\ held' = [held EXCEPT ![p] = "none"]

\* Two processes never run at the same time; true while CreateMutexW works,
\* for the holder of the file and the holder of the mutex do not see each
\* other.
OneInstance == \A p, q \in Processes : Running(p) /\ Running(q) => p = q

=============================================================================

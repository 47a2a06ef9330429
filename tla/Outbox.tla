-------------------------------- MODULE Outbox --------------------------------
(***************************************************************************)
(* The notification outbox (core/notify): events are stored with the       *)
(* transaction they report on, and drain_outbox sends what is due through  *)
(* the Telegram transport, again later when that fails for the moment.     *)
(*                                                                         *)
(* A drain is one transaction around all its sends.  When it is rolled     *)
(* back, by an exception nobody expects or by the end of the process, its  *)
(* marks are lost and its messages are not.                                *)
(***************************************************************************)
EXTENDS Integers

CONSTANTS
  Events,
  MaxAttempts, \* OutboxService.max_attempts
  None

VARIABLES
  rows,        \* notify_outbox: the row of each event, or None
  drain,       \* None, or the open drain: the rows it took, as it has marked
               \* them so far, and the events still to be sent
  reached,     \* history: events the owner has received, once or more often
  refusals     \* history: refusals of each event, rolled back or not; a
               \* permanent one counts as MaxAttempts

vars == <<rows, drain, reached, refusals>>

-----------------------------------------------------------------------------
(* Types and initial state *)

\* due: next_attempt is unset or has come.
Rows == [status : {"pending", "retry", "sent", "dead"},
         attempts : 0..MaxAttempts, due : BOOLEAN]

\* A row that pending() may still return: neither sent nor dead.
Waiting(row) == row # None /\ row.status \in {"pending", "retry"}

Drains == UNION {[marks : [D -> Rows], todo : SUBSET D] : D \in SUBSET Events}

ASSUME OutboxAssumption ==
  MaxAttempts \in Nat \ {0} /\ None \notin Rows /\ None \notin Drains

TypeOK ==
  /\ rows \in [Events -> Rows \union {None}]
  /\ drain \in Drains \union {None}
  /\ reached \in SUBSET Events
  /\ refusals \in [Events -> 0..MaxAttempts]

Init ==
  /\ rows = [e \in Events |-> None]
  /\ drain = None
  /\ reached = {}
  /\ refusals = [e \in Events |-> 0]

-----------------------------------------------------------------------------
(* The marks of OutboxService *)

New == [status |-> "pending", attempts |-> 0, due |-> TRUE]

\* mark_sent
Sent(row) == [status |-> "sent", attempts |-> row.attempts, due |-> TRUE]

\* Variant of Transient that never gives an event up.
Transient_Forever(row) == [status |-> "retry", attempts |-> row.attempts, due |-> FALSE]

\* Variant of Transient that gives up one attempt early.
Transient_Early(row) ==
  [status   |-> IF row.attempts + 2 >= MaxAttempts THEN "dead" ELSE "retry",
   attempts |-> row.attempts + 1, due |-> FALSE]

\* mark_transient_failure
Transient(row) ==
  [status   |-> IF row.attempts + 1 >= MaxAttempts THEN "dead" ELSE "retry",
   attempts |-> row.attempts + 1, due |-> FALSE]

\* mark_permanent_4xx
Permanent(row) == [status |-> "dead", attempts |-> row.attempts + 1, due |-> row.due]

-----------------------------------------------------------------------------
(* Actions *)

\* enqueue, or the row submit writes itself, once the transaction around it
\* is committed.
Enqueue(e) ==
  /\ rows[e] = None
  /\ rows' = [rows EXCEPT ![e] = New]
  /\ UNCHANGED <<drain, reached, refusals>>

\* next_attempt comes.
ComesDue(e) ==
  /\ Waiting(rows[e]) /\ ~rows[e].due
  /\ rows' = [rows EXCEPT ![e] = [status |-> @.status, attempts |-> @.attempts, due |-> TRUE]]
  /\ UNCHANGED <<drain, reached, refusals>>

\* Variant of Due that asks for the time only.
Due_AnyStatus == {e \in Events : rows[e] # None /\ rows[e].due}

\* pending
Due == {e \in Events : Waiting(rows[e]) /\ rows[e].due}

\* drain_outbox: pending(), read once.
DrainBegins ==
  /\ drain = None
  /\ drain' = [marks |-> [e \in Due |-> rows[e]], todo |-> Due]
  /\ UNCHANGED <<rows, reached, refusals>>

\* The drain marks a row and goes on to the next.
Mark(e, row) ==
  drain' = [marks |-> [d \in DOMAIN drain.marks |-> IF d = e THEN row ELSE drain.marks[d]],
            todo  |-> drain.todo \ {e}]

\* One turn of the loop, by the three outcomes of transport.send.
SendSucceeds(e) ==
  /\ drain # None /\ e \in drain.todo
  /\ Mark(e, Sent(drain.marks[e]))
  /\ reached' = reached \union {e}
  /\ UNCHANGED <<rows, refusals>>

SendFailsForNow(e) ==
  /\ drain # None /\ e \in drain.todo
  /\ Mark(e, Transient(drain.marks[e]))
  /\ refusals' = [refusals EXCEPT ![e] = IF @ < MaxAttempts THEN @ + 1 ELSE @]
  /\ UNCHANGED <<rows, reached>>

SendFailsForGood(e) ==
  /\ drain # None /\ e \in drain.todo
  /\ Mark(e, Permanent(drain.marks[e]))
  /\ refusals' = [refusals EXCEPT ![e] = MaxAttempts]
  /\ UNCHANGED <<rows, reached>>

DrainSends ==
  \E e \in Events : SendSucceeds(e) \/ SendFailsForNow(e) \/ SendFailsForGood(e)

DrainCommits ==
  /\ drain # None /\ drain.todo = {}
  /\ rows' = [e \in Events |-> IF e \in DOMAIN drain.marks THEN drain.marks[e] ELSE rows[e]]
  /\ drain' = None
  /\ UNCHANGED <<reached, refusals>>

\* The rollback; what was being sent may have reached the owner.
DrainFails ==
  /\ drain # None
  /\ drain' = None
  /\ reached' \in {reached} \union {reached \union {e} : e \in drain.todo}
  /\ UNCHANGED <<rows, refusals>>

-----------------------------------------------------------------------------
(* The specification *)

Next ==
  \/ \E e \in Events : Enqueue(e) \/ ComesDue(e)
  \/ DrainBegins \/ DrainSends \/ DrainCommits \/ DrainFails

Spec == Init /\ [][Next]_vars

-----------------------------------------------------------------------------
(* Properties *)

\* No event is lost: one the owner has not received is kept for a further
\* attempt, unless Telegram refused it for good or MaxAttempts times; through
\* rollbacks, crashes and the messages that were out by then.
NoneLost ==
  \A e \in Events :
     \/ rows[e] = None \/ Waiting(rows[e])
     \/ e \in reached \/ refusals[e] = MaxAttempts

\* A row that says sent or dead is final, and no row forgets an attempt: the
\* open drain writes back what it read before rows were added and came due,
\* and never sets back, revives or sends again what an earlier one settled.
SettledIsFinal ==
  [][\A e \in Events : rows[e] # None =>
       /\ rows'[e] # None /\ rows'[e].attempts >= rows[e].attempts
       /\ ~Waiting(rows[e]) => rows'[e] = rows[e]]_vars

\* A drain that commits brings every event it took nearer to its end: sent,
\* dead, or one attempt further, so that MaxAttempts such drains settle it,
\* whatever Telegram answers and whatever was added or came due while it sent.
EachDrainCounts ==
  [][DrainCommits => \A e \in DOMAIN drain.marks :
       Waiting(rows'[e]) => rows'[e].attempts > rows[e].attempts]_vars

=============================================================================

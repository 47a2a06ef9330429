----------------------------- MODULE Outbox_proofs -----------------------------
(* Theorems about Outbox, for every set of events and number of attempts. *)
EXTENDS Outbox, TLAPS

(***************************************************************************)
(* The inductive invariant                                                 *)
(***************************************************************************)

\* What a row says of its event, when got says whether the owner has received
\* it and n how often it was refused: one that waits has attempts left, and
\* was refused at least as often as it says; the others have a reason.
Reasoned(row, got, n) ==
  \/ Waiting(row) /\ row.attempts < MaxAttempts /\ row.attempts <= n
  \/ row.status = "sent" /\ got
  \/ row.status = "dead" /\ n = MaxAttempts

\* The rows as stored, and as the open drain has marked them.
RowsReasoned ==
  \A e \in Events : rows[e] # None => Reasoned(rows[e], e \in reached, refusals[e])

DrainReasoned ==
  drain # None =>
    \A e \in DOMAIN drain.marks :
       /\ Reasoned(drain.marks[e], e \in reached, refusals[e])
       /\ e \in drain.todo => Waiting(drain.marks[e])

IInv == TypeOK /\ RowsReasoned /\ DrainReasoned

LEMMA Constants ==
  MaxAttempts \in Nat /\ MaxAttempts > 0 /\ None \notin Rows /\ None \notin Drains
BY OutboxAssumption

\* The parts of an open drain.
LEMMA DrainParts ==
  ASSUME TypeOK, drain # None
  PROVE  \E D \in SUBSET Events : drain.marks \in [D -> Rows] /\ drain.todo \in SUBSET D
BY DEF TypeOK, Drains

\* More refusals and more who have received it refute no reason.
LEMMA ReasonsLast ==
  ASSUME NEW row \in Rows, NEW got \in BOOLEAN, NEW got2 \in BOOLEAN, got => got2,
         NEW n \in 0..MaxAttempts, NEW n2 \in 0..MaxAttempts, n2 >= n,
         Reasoned(row, got, n)
  PROVE  Reasoned(row, got2, n2)
<1>1. row.attempts \in 0..MaxAttempts /\ MaxAttempts \in Nat
  BY Constants DEF Rows
<1>2. CASE Waiting(row) /\ row.attempts < MaxAttempts /\ row.attempts <= n
  BY <1>1, <1>2 DEF Reasoned
<1>3. CASE row.status = "sent" /\ got
  BY <1>3 DEF Reasoned
<1>4. CASE row.status = "dead" /\ n = MaxAttempts
  BY <1>1, <1>4 DEF Reasoned
<1>5. QED
  BY <1>2, <1>3, <1>4 DEF Reasoned

(***************************************************************************)
(* The steps                                                               *)
(***************************************************************************)

LEMMA InitInvariant == Init => IInv
<1> SUFFICES ASSUME Init
             PROVE  IInv
  OBVIOUS
<1>1. refusals \in [Events -> 0..MaxAttempts]
  BY Constants DEF Init
<1>2. rows \in [Events -> Rows \union {None}] /\ \A e \in Events : rows[e] = None
  BY DEF Init
<1>3. drain = None /\ reached = {}
  BY DEF Init
<1>4. TypeOK
  BY <1>1, <1>2, <1>3 DEF TypeOK
<1>5. QED
  BY <1>2, <1>3, <1>4 DEF IInv, RowsReasoned, DrainReasoned

LEMMA EnqueueStep ==
  ASSUME IInv, NEW e \in Events, Enqueue(e)
  PROVE  IInv'
<1> USE Constants DEF IInv, Enqueue
<1>1. New \in Rows /\ New # None /\ Waiting(New) /\ New.attempts = 0
  <2>1. New \in Rows
    <3>1. 0 \in 0..MaxAttempts
      OBVIOUS
    <3>2. QED
      BY <3>1 DEF New, Rows
  <2>2. New # None
    BY <2>1
  <2>3. New.status = "pending" /\ New.attempts = 0
    BY DEF New
  <2>4. QED
    BY <2>1, <2>2, <2>3 DEF Waiting
<1>2. Reasoned(New, e \in reached, refusals[e])
  <2>1. refusals[e] \in 0..MaxAttempts
    BY DEF TypeOK
  <2>2. QED
    BY <1>1, <2>1 DEF Reasoned
<1>3. TypeOK'
  BY <1>1 DEF TypeOK
<1>4. RowsReasoned'
  BY <1>2 DEF RowsReasoned, TypeOK
<1>5. DrainReasoned'
  BY DEF DrainReasoned
<1>6. QED
  BY <1>3, <1>4, <1>5

LEMMA ComesDueStep ==
  ASSUME IInv, NEW e \in Events, ComesDue(e)
  PROVE  IInv'
<1> USE Constants DEF IInv
<1> DEFINE row == [status |-> rows[e].status, attempts |-> rows[e].attempts, due |-> TRUE]
<1>1. rows[e] \in Rows /\ rows[e] # None
  BY DEF ComesDue, TypeOK, Waiting
<1>2. row \in Rows /\ row.status = rows[e].status /\ row.attempts = rows[e].attempts
  BY <1>1 DEF Rows
<1>3. rows' = [rows EXCEPT ![e] = row] /\ UNCHANGED <<drain, reached, refusals>>
  BY DEF ComesDue
<1>4. Reasoned(rows[e], e \in reached, refusals[e])
  BY <1>1 DEF RowsReasoned
<1> HIDE DEF row
<1>5. row # None
  BY <1>2
<1>6. Reasoned(row, e \in reached, refusals[e])
  BY <1>1, <1>2, <1>4, <1>5 DEF Reasoned, Waiting
<1>7. TypeOK'
  BY <1>2, <1>3 DEF TypeOK
<1>8. RowsReasoned'
  BY <1>3, <1>6 DEF RowsReasoned, TypeOK
<1>9. DrainReasoned'
  BY <1>3 DEF DrainReasoned
<1>10. QED
  BY <1>7, <1>8, <1>9

LEMMA DrainBeginsStep ==
  ASSUME IInv, DrainBegins
  PROVE  IInv'
<1> USE Constants DEF IInv, DrainBegins
<1>1. \A e \in Due : e \in Events /\ rows[e] \in Rows /\ rows[e] # None /\ Waiting(rows[e])
  BY DEF Due, Waiting, TypeOK
<1>2. drain' \in Drains /\ drain'.marks = [e \in Due |-> rows[e]] /\ drain'.todo = Due
  BY <1>1 DEF Drains, Due
<1>3. TypeOK'
  BY <1>2 DEF TypeOK
<1>4. RowsReasoned'
  BY DEF RowsReasoned
<1>5. DrainReasoned'
  BY <1>1, <1>2 DEF DrainReasoned, RowsReasoned
<1>6. QED
  BY <1>3, <1>4, <1>5

\* What the three outcomes have in common: the new mark has a reason, and
\* those there were keep theirs.
LEMMA MarkStep ==
  ASSUME IInv, drain # None, NEW e \in drain.todo, NEW row \in Rows, Mark(e, row),
         rows' = rows, reached \subseteq reached', reached' \in SUBSET Events,
         refusals' \in [Events -> 0..MaxAttempts],
         \A d \in Events : refusals'[d] >= refusals[d],
         Reasoned(row, e \in reached', refusals'[e])
  PROVE  IInv'
<1> USE Constants DEF IInv
<1>1. PICK D \in SUBSET Events : drain.marks \in [D -> Rows] /\ drain.todo \in SUBSET D
  BY DrainParts
<1>2. PICK M : M = [d \in D |-> IF d = e THEN row ELSE drain.marks[d]]
  OBVIOUS
<1>3. M \in [D -> Rows] /\ M[e] = row /\ \A d \in D \ {e} : M[d] = drain.marks[d]
  BY <1>1, <1>2
<1>4. drain' = [marks |-> M, todo |-> drain.todo \ {e}]
  BY <1>1, <1>2 DEF Mark
<1>5. drain' \in Drains
  BY <1>1, <1>3, <1>4 DEF Drains
<1>6. TypeOK'
  BY <1>5 DEF TypeOK
<1>7. \A d \in Events : \A r \in Rows :
         Reasoned(r, d \in reached, refusals[d]) => Reasoned(r, d \in reached', refusals'[d])
  <2> SUFFICES ASSUME NEW d \in Events, NEW r \in Rows, Reasoned(r, d \in reached, refusals[d])
               PROVE  Reasoned(r, d \in reached', refusals'[d])
    OBVIOUS
  <2>1. refusals[d] \in 0..MaxAttempts /\ refusals'[d] \in 0..MaxAttempts
        /\ refusals'[d] >= refusals[d]
    BY DEF TypeOK
  <2>2. r.attempts \in 0..MaxAttempts
    BY DEF Rows
  <2>3. QED
    BY <2>1, <2>2 DEF Reasoned
<1>8. RowsReasoned'
  BY <1>7 DEF RowsReasoned, TypeOK
<1>9. \A d \in D : /\ Reasoned(M[d], d \in reached', refusals'[d])
                   /\ d \in drain.todo \ {e} => Waiting(M[d])
  <2>1. \A d \in D : /\ drain.marks[d] \in Rows
                     /\ Reasoned(drain.marks[d], d \in reached, refusals[d])
                     /\ d \in drain.todo => Waiting(drain.marks[d])
    BY <1>1 DEF DrainReasoned
  <2>2. QED
    BY <1>1, <1>3, <1>7, <2>1
<1>10. DOMAIN drain'.marks = D /\ drain'.marks = M /\ drain'.todo = drain.todo \ {e}
  BY <1>3, <1>4
<1>11. DrainReasoned'
  BY <1>9, <1>10 DEF DrainReasoned
<1>12. QED
  BY <1>6, <1>8, <1>11

\* The row an open drain still has to send.
LEMMA Taken ==
  ASSUME IInv, drain # None, NEW e \in drain.todo
  PROVE  /\ e \in Events /\ drain.marks[e] \in Rows /\ Waiting(drain.marks[e])
         /\ drain.marks[e].attempts \in 0..(MaxAttempts - 1)
         /\ drain.marks[e].attempts <= refusals[e]
<1>1. PICK D \in SUBSET Events : drain.marks \in [D -> Rows] /\ drain.todo \in SUBSET D
  BY DrainParts DEF IInv
<1>2. e \in Events /\ drain.marks[e] \in Rows
  BY <1>1
<1>3. Waiting(drain.marks[e]) /\ Reasoned(drain.marks[e], e \in reached, refusals[e])
  BY <1>1 DEF IInv, DrainReasoned
<1>4. drain.marks[e].attempts \in 0..MaxAttempts
  BY <1>2 DEF Rows
<1>5. drain.marks[e].attempts < MaxAttempts /\ drain.marks[e].attempts <= refusals[e]
  BY <1>3 DEF Reasoned, Waiting
<1>6. QED
  BY Constants, <1>2, <1>3, <1>4, <1>5

LEMMA SendSucceedsStep ==
  ASSUME IInv, NEW e \in Events, SendSucceeds(e)
  PROVE  IInv'
<1> USE Constants DEF SendSucceeds
<1>1. e \in drain.todo /\ drain # None
  OBVIOUS
<1>2. PICK row : row = Sent(drain.marks[e])
  OBVIOUS
<1>3. row \in Rows /\ row.status = "sent"
  BY <1>1, <1>2, Taken DEF Sent, Rows
<1>4. Reasoned(row, e \in reached', refusals'[e])
  BY <1>3 DEF Reasoned
<1>5. reached' \in SUBSET Events /\ reached \subseteq reached'
  BY DEF IInv, TypeOK
<1>6. refusals' \in [Events -> 0..MaxAttempts] /\ \A d \in Events : refusals'[d] >= refusals[d]
  BY DEF IInv, TypeOK
<1>7. QED
  BY <1>1, <1>2, <1>3, <1>4, <1>5, <1>6, MarkStep

LEMMA SendFailsForNowStep ==
  ASSUME IInv, NEW e \in Events, SendFailsForNow(e)
  PROVE  IInv'
<1> USE Constants DEF SendFailsForNow
<1>1. e \in drain.todo /\ drain # None
  OBVIOUS
<1>2. PICK n \in 0..(MaxAttempts - 1) : n = drain.marks[e].attempts /\ n <= refusals[e]
  BY <1>1, Taken
<1>3. PICK row : row = Transient(drain.marks[e])
  OBVIOUS
<1>4. /\ row.status = IF n + 1 >= MaxAttempts THEN "dead" ELSE "retry"
      /\ row.attempts = n + 1
      /\ row \in Rows
  BY <1>2, <1>3 DEF Transient, Rows
<1>5. refusals \in [Events -> 0..MaxAttempts]
  BY DEF IInv, TypeOK
<1>6. refusals'[e] = (IF refusals[e] < MaxAttempts THEN refusals[e] + 1 ELSE refusals[e])
  BY <1>5
<1>7. Reasoned(row, e \in reached', refusals'[e])
  <2>1. CASE n + 1 >= MaxAttempts
    BY <1>2, <1>4, <1>5, <1>6, <2>1 DEF Reasoned
  <2>2. CASE ~(n + 1 >= MaxAttempts)
    <3>1. row # None /\ row.status = "retry"
      BY <1>4, <2>2
    <3>2. row.attempts < MaxAttempts /\ row.attempts <= refusals'[e]
      BY <1>2, <1>4, <1>5, <1>6, <2>2
    <3>3. QED
      BY <3>1, <3>2 DEF Reasoned, Waiting
  <2>3. QED
    BY <2>1, <2>2
<1>8. refusals' \in [Events -> 0..MaxAttempts] /\ \A d \in Events : refusals'[d] >= refusals[d]
  BY <1>5
<1>9. reached' \in SUBSET Events /\ reached \subseteq reached'
  BY DEF IInv, TypeOK
<1>10. QED
  BY <1>1, <1>3, <1>4, <1>7, <1>8, <1>9, MarkStep

LEMMA SendFailsForGoodStep ==
  ASSUME IInv, NEW e \in Events, SendFailsForGood(e)
  PROVE  IInv'
<1> USE Constants DEF SendFailsForGood
<1>1. e \in drain.todo /\ drain # None
  OBVIOUS
<1>2. PICK row : row = Permanent(drain.marks[e])
  OBVIOUS
<1>3. row \in Rows /\ row.status = "dead"
  <2>1. drain.marks[e] \in Rows /\ drain.marks[e].attempts \in 0..(MaxAttempts - 1)
    BY <1>1, Taken
  <2>2. drain.marks[e].attempts + 1 \in 0..MaxAttempts /\ drain.marks[e].due \in BOOLEAN
    BY <2>1 DEF Rows
  <2>3. QED
    BY <1>2, <2>2 DEF Permanent, Rows
<1>4. refusals \in [Events -> 0..MaxAttempts]
  BY DEF IInv, TypeOK
<1>5. refusals'[e] = MaxAttempts /\ refusals' \in [Events -> 0..MaxAttempts]
      /\ \A d \in Events : refusals'[d] >= refusals[d]
  BY <1>4
<1>6. Reasoned(row, e \in reached', refusals'[e])
  BY <1>3, <1>5 DEF Reasoned
<1>7. reached' \in SUBSET Events /\ reached \subseteq reached'
  BY DEF IInv, TypeOK
<1>8. QED
  BY <1>1, <1>2, <1>3, <1>5, <1>6, <1>7, MarkStep

LEMMA DrainCommitsStep ==
  ASSUME IInv, DrainCommits
  PROVE  IInv'
<1> USE Constants DEF IInv, DrainCommits
<1>1. PICK D \in SUBSET Events : drain.marks \in [D -> Rows] /\ drain.todo \in SUBSET D
  BY DrainParts
<1>2. rows' = [e \in Events |-> IF e \in D THEN drain.marks[e] ELSE rows[e]]
  BY <1>1
<1>3. TypeOK'
  BY <1>1, <1>2 DEF TypeOK
<1>4. \A e \in D : Reasoned(drain.marks[e], e \in reached, refusals[e])
  BY <1>1 DEF DrainReasoned
<1>5. RowsReasoned'
  BY <1>2, <1>4 DEF RowsReasoned
<1>6. DrainReasoned'
  BY DEF DrainReasoned
<1>7. QED
  BY <1>3, <1>5, <1>6

LEMMA DrainFailsStep ==
  ASSUME IInv, DrainFails
  PROVE  IInv'
<1> USE Constants DEF IInv, DrainFails
<1>1. PICK D \in SUBSET Events : drain.marks \in [D -> Rows] /\ drain.todo \in SUBSET D
  BY DrainParts
<1>2. reached' \in SUBSET Events /\ reached \subseteq reached'
  BY <1>1 DEF TypeOK
<1>3. TypeOK'
  BY <1>2 DEF TypeOK
<1>4. RowsReasoned'
  <2> SUFFICES ASSUME NEW e \in Events, rows[e] # None
               PROVE  Reasoned(rows[e], e \in reached', refusals[e])
    BY DEF RowsReasoned
  <2>1. Reasoned(rows[e], e \in reached, refusals[e])
    BY DEF RowsReasoned
  <2>2. QED
    BY <1>2, <2>1 DEF Reasoned
<1>5. DrainReasoned'
  BY DEF DrainReasoned
<1>6. QED
  BY <1>3, <1>4, <1>5

LEMMA NextInvariant == IInv /\ [Next]_vars => IInv'
<1> SUFFICES ASSUME IInv, [Next]_vars
             PROVE  IInv'
  OBVIOUS
<1>1. CASE \E e \in Events : Enqueue(e)
  BY <1>1, EnqueueStep
<1>2. CASE \E e \in Events : ComesDue(e)
  BY <1>2, ComesDueStep
<1>3. CASE DrainBegins
  BY <1>3, DrainBeginsStep
<1>4. CASE DrainSends
  BY <1>4, SendSucceedsStep, SendFailsForNowStep, SendFailsForGoodStep DEF DrainSends
<1>5. CASE DrainCommits
  BY <1>5, DrainCommitsStep
<1>6. CASE DrainFails
  BY <1>6, DrainFailsStep
<1>7. CASE UNCHANGED vars
  BY <1>7 DEF vars, IInv, TypeOK, RowsReasoned, DrainReasoned
<1>8. QED
  BY <1>1, <1>2, <1>3, <1>4, <1>5, <1>6, <1>7 DEF Next

(***************************************************************************)
(* The theorems                                                            *)
(***************************************************************************)

\* The inductive invariant holds in every reachable state.
THEOREM OutboxInvariant == Spec => []IInv
BY InitInvariant, NextInvariant, PTL DEF Spec

\* Rows, drain and histories keep their types: in particular no row counts
\* more attempts than MaxAttempts, however often drains are rolled back
\* (mark_transient_failure, mark_permanent_4xx).
THEOREM OutboxTypes == Spec => []TypeOK
BY OutboxInvariant, PTL DEF IInv

\* No event is lost, for any number of events and attempts: what the owner
\* has not received waits for another attempt or was refused for good or
\* MaxAttempts times (drain_outbox and the marks of OutboxService).
THEOREM NoEventLost == Spec => []NoneLost
<1>1. IInv => NoneLost
  BY DEF IInv, RowsReasoned, Reasoned, NoneLost
<1>2. QED
  BY <1>1, OutboxInvariant, PTL

(***************************************************************************)
(* What is settled stays settled                                           *)
(***************************************************************************)

\* A row can have become m of row r: it waits, and forgets no attempt.
Continues(r, m) == r # None /\ Waiting(r) /\ m # None /\ m.attempts >= r.attempts

\* What an open drain would write back continues what is stored now.
DrainCurrent ==
  drain # None => \A e \in DOMAIN drain.marks : Continues(rows[e], drain.marks[e])

\* While the drain goes on, its marks only move forward.
LEMMA MarkKeepsCurrent ==
  ASSUME IInv, DrainCurrent, NEW e \in Events, drain # None, e \in drain.todo,
         NEW row \in Rows, Mark(e, row), rows' = rows,
         row.attempts >= drain.marks[e].attempts
  PROVE  DrainCurrent'
<1> USE Constants
<1>1. PICK D \in SUBSET Events : drain.marks \in [D -> Rows] /\ drain.todo \in SUBSET D
  BY DrainParts DEF IInv
<1>2. drain'.marks = [d \in D |-> IF d = e THEN row ELSE drain.marks[d]]
  BY <1>1 DEF Mark
<1>3. \A d \in D : Continues(rows[d], drain.marks[d])
  BY <1>1 DEF DrainCurrent
<1>4. Continues(rows[e], row)
  <2>1. /\ row.attempts \in Int /\ drain.marks[e].attempts \in Int
        /\ rows[e] \in Rows /\ rows[e].attempts \in Int
    BY <1>1, <1>3 DEF Rows, Continues, IInv, TypeOK
  <2>2. row # None /\ Continues(rows[e], drain.marks[e])
    BY <1>1, <1>3
  <2>3. QED
    BY <2>1, <2>2 DEF Continues
<1>5. \A d \in D : Continues(rows'[d], drain'.marks[d])
  BY <1>2, <1>3, <1>4
<1>6. DOMAIN drain'.marks = D
  BY <1>2
<1>7. QED
  BY <1>5, <1>6 DEF DrainCurrent

\* What may become of a row in one step.
Final(r, r2) ==
  r # None => r2 # None /\ r2.attempts >= r.attempts /\ (~Waiting(r) => r2 = r)

LEMMA RowSelf ==
  ASSUME TypeOK, NEW e \in Events
  PROVE  Final(rows[e], rows[e])
<1>1. rows[e] # None => rows[e].attempts \in Int
  BY Constants DEF TypeOK, Rows
<1>2. QED
  BY <1>1 DEF Final

LEMMA SettledStep ==
  IInv /\ DrainCurrent /\ [Next]_vars =>
    DrainCurrent' /\ \A e \in Events : Final(rows[e], rows'[e])
<1> SUFFICES ASSUME IInv, DrainCurrent, [Next]_vars
             PROVE  DrainCurrent' /\ \A e \in Events : Final(rows[e], rows'[e])
  OBVIOUS
<1> USE Constants
<1>0. ASSUME rows' = rows
      PROVE  \A e \in Events : Final(rows[e], rows'[e])
  BY <1>0, RowSelf DEF IInv
<1>1. ASSUME NEW e \in Events, Enqueue(e)
      PROVE  DrainCurrent' /\ \A d \in Events : Final(rows[d], rows'[d])
  <2>1. \A d \in Events \ {e} : rows'[d] = rows[d]
    BY <1>1 DEF Enqueue, IInv, TypeOK
  <2>2. drain # None => drain.marks \in UNION {[D -> Rows] : D \in SUBSET (Events \ {e})}
    <3> SUFFICES ASSUME drain # None
                 PROVE  \E D \in SUBSET (Events \ {e}) : drain.marks \in [D -> Rows]
      OBVIOUS
    <3>1. PICK D \in SUBSET Events : drain.marks \in [D -> Rows]
      BY DrainParts DEF IInv
    <3>2. e \notin D
      BY <1>1, <3>1 DEF Enqueue, DrainCurrent, Continues
    <3>3. QED
      BY <3>1, <3>2
  <2>3. DrainCurrent'
    BY <1>1, <2>1, <2>2 DEF Enqueue, DrainCurrent
  <2>4. \A d \in Events : Final(rows[d], rows'[d])
    <3>1. Final(rows[e], rows'[e])
      BY <1>1 DEF Enqueue, Final
    <3>2. QED
      BY <2>1, <3>1, RowSelf DEF IInv
  <2>5. QED
    BY <2>3, <2>4
<1>2. ASSUME NEW e \in Events, ComesDue(e)
      PROVE  DrainCurrent' /\ \A d \in Events : Final(rows[d], rows'[d])
  <2>1. rows[e] \in Rows /\ rows[e].attempts \in Int
    BY <1>2 DEF ComesDue, Waiting, IInv, TypeOK, Rows
  <2>2. PICK r : r = [status |-> rows[e].status, attempts |-> rows[e].attempts, due |-> TRUE]
    OBVIOUS
  <2>3. r \in Rows /\ r # None /\ r.status = rows[e].status /\ r.attempts = rows[e].attempts
    <3>1. r \in Rows /\ r.status = rows[e].status /\ r.attempts = rows[e].attempts
      BY <2>1, <2>2 DEF Rows
    <3>2. QED
      BY <3>1
  <2>4. rows' = [rows EXCEPT ![e] = r] /\ drain' = drain
    BY <1>2, <2>2 DEF ComesDue
  <2>5. rows'[e] = r /\ \A d \in Events \ {e} : rows'[d] = rows[d]
    BY <2>4 DEF IInv, TypeOK
  <2>6. Waiting(r) /\ Waiting(rows[e])
    BY <1>2, <2>3 DEF ComesDue, Waiting
  <2>7. DrainCurrent'
    <3> SUFFICES ASSUME drain # None, NEW d \in DOMAIN drain.marks
                 PROVE  Continues(rows'[d], drain.marks[d])
      BY <2>4 DEF DrainCurrent
    <3>1. d \in Events /\ Continues(rows[d], drain.marks[d])
      BY DrainParts DEF IInv, DrainCurrent
    <3>2. QED
      BY <2>3, <2>5, <2>6, <3>1 DEF Continues
  <2>8. Final(rows[e], rows'[e])
    BY <2>1, <2>3, <2>5, <2>6 DEF Final
  <2>9. QED
    BY <2>5, <2>7, <2>8, RowSelf DEF IInv
<1>3. CASE DrainBegins
  <2>1. DOMAIN drain'.marks = Due /\ \A e \in Due : drain'.marks[e] = rows[e]
    BY <1>3 DEF DrainBegins
  <2>2. \A e \in Due : rows[e] \in Rows /\ Waiting(rows[e]) /\ rows[e].attempts \in Int
    BY DEF Due, Waiting, IInv, TypeOK, Rows
  <2>3. rows' = rows
    BY <1>3 DEF DrainBegins
  <2>4. DrainCurrent'
    BY <2>1, <2>2, <2>3 DEF DrainCurrent, Continues
  <2>5. QED
    BY <1>0, <2>3, <2>4
<1>4. CASE DrainSends
  <2>1. PICK e \in Events : SendSucceeds(e) \/ SendFailsForNow(e) \/ SendFailsForGood(e)
    BY <1>4 DEF DrainSends
  <2>2. drain # None /\ e \in drain.todo /\ rows' = rows
    BY <2>1 DEF SendSucceeds, SendFailsForNow, SendFailsForGood
  <2>3. PICK m \in Rows : m = drain.marks[e] /\ m.attempts \in 0..(MaxAttempts - 1)
    BY <2>2, Taken
  <2>4. PICK row : row \in {Sent(m), Transient(m), Permanent(m)} /\ Mark(e, row)
    BY <2>1, <2>3 DEF SendSucceeds, SendFailsForNow, SendFailsForGood
  <2>5. row \in Rows /\ row.attempts >= m.attempts
    <3>1. Sent(m) \in Rows /\ Sent(m).attempts = m.attempts
      BY <2>3 DEF Sent, Rows
    <3>2. Transient(m) \in Rows /\ Transient(m).attempts = m.attempts + 1
      BY <2>3 DEF Transient, Rows
    <3>3. Permanent(m) \in Rows /\ Permanent(m).attempts = m.attempts + 1
      BY <2>3 DEF Permanent, Rows
    <3>4. QED
      BY <2>3, <2>4, <3>1, <3>2, <3>3
  <2>6. DrainCurrent'
    BY <2>2, <2>3, <2>4, <2>5, MarkKeepsCurrent
  <2>7. QED
    BY <1>0, <2>2, <2>6
<1>5. CASE DrainCommits
  <2>1. DrainCurrent'
    BY <1>5 DEF DrainCommits, DrainCurrent
  <2>2. ASSUME NEW e \in Events
        PROVE  Final(rows[e], rows'[e])
    <3>1. CASE e \in DOMAIN drain.marks
      <4>1. rows'[e] = drain.marks[e] /\ Continues(rows[e], drain.marks[e])
        BY <1>5, <3>1 DEF DrainCommits, DrainCurrent
      <4>2. QED
        BY <4>1 DEF Continues, Final
    <3>2. CASE e \notin DOMAIN drain.marks
      <4>1. rows'[e] = rows[e]
        BY <1>5, <3>2 DEF DrainCommits
      <4>2. QED
        BY <4>1, RowSelf DEF IInv
    <3>3. QED
      BY <3>1, <3>2
  <2>3. QED
    BY <2>1, <2>2
<1>6. CASE DrainFails
  BY <1>0, <1>6 DEF DrainFails, DrainCurrent
<1>7. CASE UNCHANGED vars
  BY <1>0, <1>7 DEF vars, DrainCurrent
<1>8. QED
  BY <1>1, <1>2, <1>3, <1>4, <1>5, <1>6, <1>7 DEF Next

\* Sent and dead rows are final and attempts never fall, for any number of
\* events, whatever is enqueued or comes due while drain_outbox sends.
THEOREM SettledStaysSettled == Spec => SettledIsFinal
<1>1. Init => DrainCurrent
  BY DEF Init, DrainCurrent
<1>2. IInv /\ DrainCurrent /\ [Next]_vars => DrainCurrent'
  BY SettledStep
<1>3. IInv /\ DrainCurrent /\ [Next]_vars =>
        [\A e \in Events : rows[e] # None =>
           /\ rows'[e] # None /\ rows'[e].attempts >= rows[e].attempts
           /\ ~Waiting(rows[e]) => rows'[e] = rows[e]]_vars
  BY SettledStep DEF Final
<1>4. QED
  BY <1>1, <1>2, <1>3, OutboxInvariant, PTL DEF Spec, SettledIsFinal

(***************************************************************************)
(* Every drain that commits makes progress                                 *)
(***************************************************************************)

\* A row has advanced to m: settled, or an attempt further.
Advanced(r, m) == Waiting(m) => m.attempts > r.attempts

\* What an open drain has marked has advanced.
MarkedAdvanced ==
  drain # None =>
    \A e \in DOMAIN drain.marks : e \notin drain.todo => Advanced(rows[e], drain.marks[e])

\* What an open drain has yet to send it holds with the attempts stored now.
TodoUnmarked ==
  drain # None => \A e \in drain.todo : drain.marks[e].attempts = rows[e].attempts

Progress == MarkedAdvanced /\ TodoUnmarked

LEMMA ProgressStep ==
  IInv /\ DrainCurrent /\ Progress /\ [Next]_vars => Progress'
<1> SUFFICES ASSUME IInv, DrainCurrent, Progress, [Next]_vars
             PROVE  Progress'
  OBVIOUS
<1> USE Constants
<1>1. ASSUME drain' = drain, drain # None => \A e \in DOMAIN drain.marks :
                               rows[e].attempts = rows'[e].attempts
      PROVE  Progress'
  <2>1. drain # None => \A e \in drain.todo : e \in DOMAIN drain.marks
    BY DrainParts DEF IInv
  <2>2. QED
    BY <1>1, <2>1 DEF Progress, MarkedAdvanced, TodoUnmarked, Advanced
<1>2. ASSUME NEW e \in Events, Enqueue(e)
      PROVE  Progress'
  <2>1. \A d \in Events \ {e} : rows'[d] = rows[d]
    BY <1>2 DEF Enqueue, IInv, TypeOK
  <2>2. drain # None => \A d \in DOMAIN drain.marks : d \in Events \ {e}
    <3> SUFFICES ASSUME drain # None, NEW d \in DOMAIN drain.marks
                 PROVE  d \in Events \ {e}
      OBVIOUS
    <3>1. d \in Events /\ Continues(rows[d], drain.marks[d])
      BY DrainParts DEF IInv, DrainCurrent
    <3>2. QED
      BY <1>2, <3>1 DEF Enqueue, Continues
  <2>3. drain' = drain
    BY <1>2 DEF Enqueue
  <2>4. QED
    BY <1>1, <2>1, <2>2, <2>3
<1>3. ASSUME NEW e \in Events, ComesDue(e)
      PROVE  Progress'
  <2>1. rows'[e].attempts = rows[e].attempts /\ \A d \in Events \ {e} : rows'[d] = rows[d]
    BY <1>3 DEF ComesDue, IInv, TypeOK
  <2>2. drain # None => \A d \in DOMAIN drain.marks : d \in Events
    BY DrainParts DEF IInv
  <2>3. drain' = drain
    BY <1>3 DEF ComesDue
  <2>4. QED
    BY <1>1, <2>1, <2>2, <2>3
<1>4. CASE DrainBegins
  <2>1. /\ DOMAIN drain'.marks = Due /\ drain'.todo = Due /\ rows' = rows
        /\ \A e \in Due : drain'.marks[e] = rows[e]
    BY <1>4 DEF DrainBegins
  <2>2. QED
    BY <2>1 DEF Progress, MarkedAdvanced, TodoUnmarked
<1>5. CASE DrainSends
  <2>1. PICK e \in Events : SendSucceeds(e) \/ SendFailsForNow(e) \/ SendFailsForGood(e)
    BY <1>5 DEF DrainSends
  <2>2. drain # None /\ e \in drain.todo /\ rows' = rows
    BY <2>1 DEF SendSucceeds, SendFailsForNow, SendFailsForGood
  <2>3. PICK m \in Rows : m = drain.marks[e] /\ m.attempts \in 0..(MaxAttempts - 1)
    BY <2>2, Taken
  <2>4. PICK row : row \in {Sent(m), Transient(m), Permanent(m)} /\ Mark(e, row)
    BY <2>1, <2>3 DEF SendSucceeds, SendFailsForNow, SendFailsForGood
  <2>5. m.attempts = rows[e].attempts
    BY <2>2, <2>3 DEF Progress, TodoUnmarked
  <2>6. Advanced(rows[e], row)
    <3>1. ~Waiting(Sent(m)) /\ ~Waiting(Permanent(m))
      BY DEF Waiting, Sent, Permanent
    <3>2. Transient(m).attempts = m.attempts + 1 /\ m.attempts \in Int
      BY <2>3 DEF Transient
    <3>3. QED
      BY <2>4, <2>5, <3>1, <3>2 DEF Advanced
  <2>7. PICK D \in SUBSET Events : drain.marks \in [D -> Rows] /\ drain.todo \in SUBSET D
    BY <2>2, DrainParts DEF IInv
  <2>8. /\ drain'.marks = [d \in D |-> IF d = e THEN row ELSE drain.marks[d]]
        /\ drain'.todo = drain.todo \ {e}
    BY <2>4, <2>7 DEF Mark
  <2>9. MarkedAdvanced'
    <3>1. \A d \in D : d \notin drain'.todo => Advanced(rows'[d], drain'.marks[d])
      BY <2>2, <2>6, <2>7, <2>8 DEF Progress, MarkedAdvanced
    <3>2. DOMAIN drain'.marks = D
      BY <2>8
    <3>3. QED
      BY <3>1, <3>2 DEF MarkedAdvanced
  <2>10. TodoUnmarked'
    BY <2>2, <2>7, <2>8 DEF Progress, TodoUnmarked
  <2>11. QED
    BY <2>9, <2>10 DEF Progress
<1>6. CASE DrainCommits \/ DrainFails
  BY <1>6 DEF DrainCommits, DrainFails, Progress, MarkedAdvanced, TodoUnmarked
<1>7. CASE UNCHANGED vars
  BY <1>1, <1>7 DEF vars
<1>8. QED
  BY <1>2, <1>3, <1>4, <1>5, <1>6, <1>7 DEF Next

LEMMA CommitAdvances ==
  ASSUME IInv, Progress, DrainCommits, NEW e \in DOMAIN drain.marks, Waiting(rows'[e])
  PROVE  rows'[e].attempts > rows[e].attempts
<1>1. e \in Events /\ e \notin drain.todo
  BY DrainParts DEF DrainCommits, IInv
<1>2. rows'[e] = drain.marks[e]
  BY <1>1 DEF DrainCommits
<1>3. Advanced(rows[e], drain.marks[e])
  BY <1>1 DEF Progress, MarkedAdvanced, DrainCommits
<1>4. QED
  BY <1>2, <1>3 DEF Advanced

\* For any number of events and attempts, every drain_outbox that commits
\* settles each event it took or counts an attempt, although the row it writes
\* back was read before others were added and came due.
THEOREM DrainsMakeProgress == Spec => EachDrainCounts
<1>1. Init => DrainCurrent /\ Progress
  BY DEF Init, DrainCurrent, Progress, MarkedAdvanced, TodoUnmarked
<1>2. IInv /\ DrainCurrent /\ Progress /\ [Next]_vars => DrainCurrent' /\ Progress'
  BY SettledStep, ProgressStep
<1>3. IInv /\ DrainCurrent /\ Progress /\ [Next]_vars =>
        [DrainCommits => \A e \in DOMAIN drain.marks :
           Waiting(rows'[e]) => rows'[e].attempts > rows[e].attempts]_vars
  BY CommitAdvances
<1>4. QED
  BY <1>1, <1>2, <1>3, OutboxInvariant, PTL DEF Spec, EachDrainCounts

=============================================================================

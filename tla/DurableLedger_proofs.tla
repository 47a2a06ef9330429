------------------------ MODULE DurableLedger_proofs ------------------------
(* Theorems about the ledger that DurableOms keeps, for every value of its *)
(* constants.                                                              *)
EXTENDS DurableOms_proofs

(***************************************************************************)
(* The ledger                                                              *)
(***************************************************************************)

\* One id has one row.
Keyed(S) == \A f, g \in S : f[1] = g[1] => f = g

\* ingest_fill adds to a keyed ledger what is keyed itself and keeps it keyed.
LEMMA IngestKeeps ==
  ASSUME NEW ledger, NEW new, Keyed(ledger), Keyed(new)
  PROVE  Keyed(Ingest(ledger, new))
BY DEF Keyed, Ingest

\* A page of the listing has one row per execution.
LEMMA PageKeyed ==
  ASSUME NEW S
  PROVE  Keyed({<<i, trades[i].qty>> : i \in S})
BY DEF Keyed

LEMMA SingleKeyed ==
  ASSUME NEW i, NEW q
  PROVE  Keyed({<<i, q>>})
BY DEF Keyed

\* A step ingests one page into one of the two ledgers, or writes neither.
LEMMA LedgerStep ==
  ASSUME [Next]_vars, Keyed(fills), Keyed(localFills)
  PROVE  Keyed(fills') /\ Keyed(localFills')
<1>1. CASE Finalize
  <2>1. PICK n \in Listings :
          IF TradesOf(call.o, n) = {}
          THEN localFills' = Ingest(localFills, {<<call.o, call.ans.filled>>})
               /\ UNCHANGED fills
          ELSE (\E i \in TradesOf(call.o, n) :
                  fills' = Ingest(fills, {<<i, call.ans.filled>>}))
               /\ UNCHANGED localFills
    BY <1>1 DEF Finalize
  <2>2. QED
    BY <2>1, IngestKeeps, SingleKeyed
<1>2. CASE ResolveFound
  <2>1. PICK n \in Listings :
          fills' = Ingest(fills, {<<i, trades[i].qty>> : i \in TradesOf(call.o, n)})
    BY <1>2 DEF ResolveFound
  <2>2. UNCHANGED localFills
    BY <1>2 DEF ResolveFound
  <2>3. Keyed({<<i, trades[i].qty>> : i \in TradesOf(call.o, n)})
    BY PageKeyed
  <2>4. QED
    BY <2>1, <2>2, <2>3, IngestKeeps
<1>3. CASE ReconcileCommit
  <2>1. PICK S : fills' = Ingest(fills, {<<i, trades[i].qty>> : i \in S})
    BY <1>3 DEF ReconcileCommit
  <2>2. UNCHANGED localFills
    BY <1>3 DEF ReconcileCommit
  <2>3. Keyed({<<i, trades[i].qty>> : i \in S})
    BY PageKeyed
  <2>4. QED
    BY <2>1, <2>2, <2>3, IngestKeeps
<1>4. ASSUME UNCHANGED <<fills, localFills>>
      PROVE  Keyed(fills') /\ Keyed(localFills')
  BY <1>4
<1>5. CASE Lifetime
  BY <1>4, <1>5 DEF Lifetime, Startup, SoakResume, Recover, OpenPipeline, Disconnect, Crash,
                    tableVars
<1>6. ASSUME Submit, ~Finalize
      PROVE  UNCHANGED <<fills, localFills>>
  BY <1>6 DEF Submit, BeginSubmit, CommitIntent, CommitFails, NotSent, NotSentFails,
              MarkBeforeSend, MarkBeforeSendFails, PlaceAnswered, PlaceRaises, FinalizeFails,
              MarkUnknown, MarkUnknownFails, tableVars
<1>7. ASSUME Resolve, ~ResolveFound
      PROVE  UNCHANGED <<fills, localFills>>
  BY <1>7 DEF Resolve, BeginResolve, QueryFinds, QueryMisses, ResolveNotFound, ResolveFails,
              tableVars
<1>8. ASSUME Cancel
      PROVE  UNCHANGED <<fills, localFills>>
  BY <1>8 DEF Cancel, BeginCancel, CancelAnswered, CancelRaises, CancelPersist,
              CancelPersistFails, tableVars
<1>9. ASSUME BeginReconcile \/ ReconcileFails \/ Broker \/ UNCHANGED vars
      PROVE  UNCHANGED <<fills, localFills>>
  BY <1>9 DEF BeginReconcile, ReconcileFails, Broker, BrokerExecute, ExternalTrade, vars,
              tableVars
<1>10. QED
  BY <1>1, <1>2, <1>3, <1>4, <1>5, <1>6, <1>7, <1>8, <1>9 DEF Next, Reconcile

\* ingest_fill is idempotent over every order of finalizing, resolving and
\* reconciling, crash and lagging listing: one execution id, one row.
THEOREM ExecutionsBookedOnce == Spec => []OneRowPerExecution
<1> DEFINE L == Keyed(fills) /\ Keyed(localFills)
<1>1. Init => L
  BY DEF Init, Keyed
<1>2. L /\ [Next]_vars => L'
  BY LedgerStep DEF Keyed
<1>3. L => OneRowPerExecution
  BY DEF Keyed, OneRowPerExecution
<1>4. QED
  BY <1>1, <1>2, <1>3, PTL DEF Spec

(***************************************************************************)
(* What a small set adds up to                                             *)
(***************************************************************************)

\* What one row adds up to, and what none does.  The fold is a function defined
\* by recursion on subsets; for one row its value is exhibited.
LEMMA BookedInFew ==
  /\ BookedIn({}) = 0
  /\ \A f : f[2] \in Int => BookedIn({f}) = f[2]
<1>1. BookedIn({}) = 0
  BY DEF BookedIn, MapThenSumSet, MapThenFoldSet
<1>2. ASSUME NEW f, f[2] \in Int
      PROVE  BookedIn({f}) = f[2]
  <2> DEFINE Sums(h) == h = [s \in SUBSET {f} |->
        IF s = {} THEN 0
        ELSE LET x == CHOOSE x \in s : TRUE IN x[2] + h[s \ {x}]]
      g == CHOOSE h : Sums(h)
  <2>1. ASSUME NEW s \in SUBSET {f}, s # {}
        PROVE  (CHOOSE x \in s : TRUE) = f /\ s \ {f} = {}
    BY <2>1
  <2>2. Sums([s \in SUBSET {f} |-> IF s = {} THEN 0 ELSE f[2]])
    BY <1>2, <2>1
  <2>3. Sums(g)
    BY <2>2
  <2>4. BookedIn({f}) = g[{f}]
    BY DEF BookedIn, MapThenSumSet, MapThenFoldSet
  <2>5. (CHOOSE x \in {f} : TRUE) = f /\ {f} \ {f} = {} /\ {f} # {}
    OBVIOUS
  <2> HIDE DEF g
  <2>6. g[{f}] = f[2] + 0
    BY <2>3, <2>5
  <2>7. QED
    BY <1>2, <2>4, <2>6
<1>3. QED
  BY <1>1, <1>2

\* The same for executions.
LEMMA TradedInFew ==
  /\ TradedIn({}) = 0
  /\ \A i : trades[i].qty \in Int => TradedIn({i}) = trades[i].qty
<1>1. TradedIn({}) = 0
  BY DEF TradedIn, MapThenSumSet, MapThenFoldSet
<1>2. ASSUME NEW i, trades[i].qty \in Int
      PROVE  TradedIn({i}) = trades[i].qty
  <2> DEFINE Sums(h) == h = [s \in SUBSET {i} |->
        IF s = {} THEN 0
        ELSE LET x == CHOOSE x \in s : TRUE IN trades[x].qty + h[s \ {x}]]
      g == CHOOSE h : Sums(h)
  <2>1. ASSUME NEW s \in SUBSET {i}, s # {}
        PROVE  (CHOOSE x \in s : TRUE) = i /\ s \ {i} = {}
    BY <2>1
  <2>2. Sums([s \in SUBSET {i} |-> IF s = {} THEN 0 ELSE trades[i].qty])
    BY <1>2, <2>1
  <2>3. Sums(g)
    BY <2>2
  <2>4. TradedIn({i}) = g[{i}]
    BY DEF TradedIn, MapThenSumSet, MapThenFoldSet
  <2>5. (CHOOSE x \in {i} : TRUE) = i /\ {i} \ {i} = {} /\ {i} # {}
    OBVIOUS
  <2> HIDE DEF g
  <2>6. g[{i}] = trades[i].qty + 0
    BY <2>3, <2>5
  <2>7. QED
    BY <1>2, <2>4, <2>6
<1>3. QED
  BY <1>1, <1>2
(***************************************************************************)
(* The paper broker: every execution fills one order, once                 *)
(***************************************************************************)

\* On paper an order trades in one execution when it is placed, for no more
\* than it asks; its row keeps what it asked for.
ExecInv ==
  /\ \A i \in 1..Len(trades) :
       /\ trades[i].o \in Orders /\ sends[trades[i].o] > 0
       /\ trades[i].qty <= row[trades[i].o].req.qty
  /\ \A i, j \in 1..Len(trades) : trades[i].o = trades[j].o => i = j

\* The ledger holds executions with their quantities and, as the listing never
\* lags, no fill under a name of its own.
BookInv ==
  /\ localFills = {}
  /\ \A f \in fills : f[1] \in 1..Len(trades) /\ f[2] = trades[f[1]].qty

\* A placement asks for what the row says; when it is answered, its execution
\* is in the part of the listing that the broker still has.
AnswerInv ==
  /\ call.at \in {"send", "hook_place"} => call.req = row[call.o].req
  /\ call.at = "finalize" =>
       \E i \in (base + 1)..Len(trades) :
         trades[i].o = call.o /\ trades[i].qty = call.ans.filled

PaperInv == ExecInv /\ BookInv /\ AnswerInv

\* A step that adds no execution and no row, and rewrites no request.
LEMMA LedgerKept ==
  ASSUME ExecInv, BookInv, UNCHANGED <<trades, fills, localFills>>,
         \A o \in Orders : sends[o] > 0 => sends'[o] > 0 /\ row'[o].req = row[o].req
  PROVE  ExecInv' /\ BookInv'
BY DEF ExecInv, BookInv

\* Rewriting the states of one row leaves its request alone.
LEMMA RequestKept ==
  ASSUME NEW o \in Orders, row[o] \in Rows,
         \A p \in Orders \ {o} : row'[p] = row[p],
         row'[o].req = row[o].req
  PROVE  \A p \in Orders : row'[p].req = row[p].req
OBVIOUS

\* A page of executions that are in the listing adds them as they are.
LEMMA PageBooks ==
  ASSUME BookInv, UNCHANGED <<trades, localFills>>, NEW S \in SUBSET (1..Len(trades)),
         fills' = Ingest(fills, {<<i, trades[i].qty>> : i \in S})
  PROVE  BookInv'
BY DEF BookInv, Ingest

\* An answer of the paper broker reports the quantity that traded.
LEMMA PaperAnswer ==
  ASSUME NEW o \in Orders, TypeOK, NEW req \in Requests,
         NEW fill \in 1..req.qty, Accept(o, req, fill)
  PROVE  /\ trades' = Append(trades, [o |-> o, qty |-> fill])
         /\ Normalize(border'[o]).filled = fill
         /\ fill \in Nat /\ fill <= req.qty
<1>1. req.qty \in Nat /\ fill \in Nat /\ fill # 0 /\ fill <= req.qty
  BY RequestFields
<1>2. border'[o].filled = fill
  BY DEF Accept, TypeOK
<1>3. QED
  BY <1>1, <1>2 DEF Accept, Normalize

\* A step that books nothing and leaves no placement under way.
LEMMA Elsewhere ==
  ASSUME PaperInv, UNCHANGED <<trades, fills, localFills>>,
         \A o \in Orders : sends[o] > 0 => sends'[o] > 0 /\ row'[o].req = row[o].req,
         call'.at \notin {"send", "hook_place", "finalize"}
  PROVE  PaperInv'
BY LedgerKept DEF PaperInv, AnswerInv

\* A step about something else altogether.
LEMMA Untouched ==
  ASSUME PaperInv, UNCHANGED <<trades, fills, localFills, row, sends, call, base>>
  PROVE  PaperInv'
BY LedgerKept DEF PaperInv, AnswerInv

\* Every step of the program keeps the paper ledger; the exchange's own moves
\* (BrokerExecute, ExternalTrade, PlaceRaises, CancelRaises) do not exist there.
LEMMA PaperStep ==
  ASSUME Paper, TypeOK, IInv, PaperInv, [Next]_vars
  PROVE  PaperInv'
<1> USE DEF procVars, tableVars, alarmVars, brokerVars, histVars
<1>1. CASE Lifetime
  <2>1. CASE Startup \/ SoakResume \/ OpenPipeline \/ Disconnect
    BY <2>1, Untouched DEF Startup, SoakResume, Recover, OpenPipeline, Disconnect
  <2>2. CASE Crash
    BY <2>2, Elsewhere DEF Crash, Idle
  <2>3. QED
    BY <1>1, <2>1, <2>2 DEF Lifetime
<1>2. ASSUME NEW o \in Orders, NEW req \in Requests, BeginSubmit(o, req)
      PROVE  PaperInv'
  BY <1>2, Elsewhere DEF BeginSubmit, Idle
<1>3. CASE CommitIntent
  <2>1. PICK o \in Orders : o = call.o
    BY <1>3, RunningCall DEF CommitIntent
  <2>2. sends[o] = 0
    BY <1>3, <2>1 DEF CommitIntent, IInv, CallInv, RowInv, NoRow
  <2>3. /\ row'[o].req = call.req
        /\ \A p \in Orders \ {o} : row'[p] = row[p]
    BY <1>3, <2>1 DEF CommitIntent, TypeOK
  <2>4. ExecInv' /\ BookInv'
    BY <1>3, <2>2, <2>3, LedgerKept DEF CommitIntent, PaperInv
  <2>5. call'.at = "send" /\ call'.o = o /\ call'.req = call.req
    BY <1>3, <2>1 DEF CommitIntent, TypeOK, Calls
  <2>6. QED
    BY <2>3, <2>4, <2>5 DEF PaperInv, AnswerInv
<1>4. CASE CommitFails \/ NotSentFails \/ MarkUnknownFails
  BY <1>4, Elsewhere DEF CommitFails, NotSentFails, MarkUnknownFails, Idle
<1>5. ASSUME NEW hook \in BOOLEAN, NotSent(hook)
      PROVE  PaperInv'
  <2>1. PICK o \in Orders : o = call.o /\ row[o] \in Rows
    BY <1>5, RunningCall DEF NotSent
  <2>2. /\ row'[o].req = row[o].req
        /\ \A p \in Orders \ {o} : row'[p] = row[p]
    BY <1>5, <2>1 DEF NotSent, TypeOK, Rows
  <2>3. \A p \in Orders : row'[p].req = row[p].req
    BY <2>1, <2>2, RequestKept
  <2>4. QED
    BY <1>5, <2>3, Elsewhere DEF NotSent, Idle
<1>6. CASE MarkBeforeSend
  <2>1. PICK o \in Orders : o = call.o /\ row[o] \in Rows
    BY <1>6, RunningCall DEF MarkBeforeSend
  <2>2. /\ row'[o].req = row[o].req
        /\ \A p \in Orders \ {o} : row'[p] = row[p]
    BY <1>6, <2>1 DEF MarkBeforeSend, MarkedUnknown, TypeOK, Rows
  <2>3. \A p \in Orders : row'[p].req = row[p].req
    BY <2>1, <2>2, RequestKept
  <2>4. ExecInv' /\ BookInv'
    BY <1>6, <2>3, LedgerKept DEF MarkBeforeSend, PaperInv
  <2>5. call'.at = "hook_place" /\ call'.o = o /\ call'.req = call.req
    BY <1>6, <2>1 DEF MarkBeforeSend, TypeOK, Calls
  <2>6. call.req = row[o].req
    BY <1>6, <2>1 DEF MarkBeforeSend, PaperInv, AnswerInv
  <2>7. QED
    BY <2>3, <2>4, <2>5, <2>6 DEF PaperInv, AnswerInv
<1>7. CASE MarkBeforeSendFails \/ FinalizeFails
  <2>1. call'.at = "mark"
    BY <1>7 DEF MarkBeforeSendFails, FinalizeFails, TypeOK, Calls
  <2>2. QED
    BY <1>7, <2>1, Elsewhere DEF MarkBeforeSendFails, FinalizeFails
<1>8. CASE PlaceAnswered
  <2>1. PICK o \in Orders : o = call.o
    BY <1>8, RunningCall DEF PlaceAnswered
  <2>2. call.req = row[o].req /\ sends[o] = 0
    BY <1>8, <2>1 DEF PlaceAnswered, PaperInv, AnswerInv, IInv, CallInv
  <2>3. PICK fill \in 1..call.req.qty : Accept(o, call.req, fill)
    BY <1>8, <2>1 DEF PlaceAnswered
  <2>4. call.req \in Requests
    BY <2>3 DEF TypeOK, Calls, NoReq
  <2>5. /\ trades' = Append(trades, [o |-> o, qty |-> fill])
        /\ Normalize(border'[o]).filled = fill
        /\ fill \in Nat /\ fill <= row[o].req.qty
    BY <2>2, <2>3, <2>4, PaperAnswer
  <2>6. /\ Len(trades) \in Nat /\ Len(trades') = Len(trades) + 1
        /\ trades'[Len(trades) + 1] = [o |-> o, qty |-> fill]
        /\ \A i \in 1..Len(trades) : trades'[i] = trades[i]
    BY <2>5 DEF TypeOK
  <2>7. /\ UNCHANGED <<row, fills, localFills, base>>
        /\ sends'[o] = 1 /\ \A p \in Orders \ {o} : sends'[p] = sends[p]
    BY <1>8, <2>1, <2>2 DEF PlaceAnswered, TypeOK
  <2>8. \A i \in 1..Len(trades) : trades[i].o \in Orders /\ trades[i].o # o
    BY <2>2 DEF PaperInv, ExecInv
  <2>9. ExecInv'
    BY <2>1, <2>5, <2>6, <2>7, <2>8 DEF PaperInv, ExecInv
  <2>10. BookInv'
    BY <2>6, <2>7 DEF PaperInv, BookInv
  <2>11. /\ call'.at \in {"finalize", "query"} /\ call'.o = o
         /\ call'.ans = Normalize(border'[o])
    BY <1>8, <2>1 DEF PlaceAnswered, TypeOK, Calls
  <2>12. AnswerInv'
    <3>1. Len(trades') \in (base' + 1)..Len(trades')
      BY <2>6, <2>7 DEF TypeOK
    <3>2. trades'[Len(trades')].o = call'.o /\ trades'[Len(trades')].qty = call'.ans.filled
      BY <2>5, <2>6, <2>11
    <3>3. QED
      BY <2>11, <3>1, <3>2 DEF AnswerInv
  <2>13. QED
    BY <2>9, <2>10, <2>12 DEF PaperInv
<1>9. CASE Finalize
  <2>1. PICK o \in Orders : o = call.o /\ row[o] \in Rows
    BY <1>9, RunningCall DEF Finalize
  <2>2. /\ row'[o].req = row[o].req
        /\ \A p \in Orders \ {o} : row'[p] = row[p]
    BY <1>9, <2>1 DEF Finalize, Settled, TypeOK, Rows
  <2>3. \A p \in Orders : row'[p].req = row[p].req
    BY <2>1, <2>2, RequestKept
  <2>4. PICK k \in (base + 1)..Len(trades) :
          trades[k].o = o /\ trades[k].qty = call.ans.filled
    BY <1>9, <2>1 DEF Finalize, PaperInv, AnswerInv
  <2>5. TradesOf(o, Len(trades)) # {}
    BY <2>4 DEF TradesOf
  <2>6. /\ UNCHANGED <<trades, sends, localFills>>
        /\ \E i \in TradesOf(o, Len(trades)) : fills' = Ingest(fills, {<<i, call.ans.filled>>})
    BY <1>9, <2>1, <2>5 DEF Finalize, Listings
  <2>7. PICK i \in TradesOf(o, Len(trades)) : fills' = Ingest(fills, {<<i, call.ans.filled>>})
    BY <2>6
  <2>8. /\ Len(trades) \in Nat /\ base \in Nat
        /\ i \in 1..Len(trades) /\ k \in 1..Len(trades)
    BY <2>4, <2>7 DEF TradesOf, TypeOK
  <2>9. i = k
    BY <2>4, <2>7, <2>8 DEF TradesOf, PaperInv, ExecInv
  <2>10. BookInv'
    BY <2>4, <2>6, <2>7, <2>8, <2>9 DEF PaperInv, BookInv, Ingest
  <2>11. ExecInv'
    BY <2>3, <2>6 DEF PaperInv, ExecInv
  <2>12. AnswerInv'
    BY <1>9 DEF Finalize, Idle, AnswerInv
  <2>13. QED
    BY <2>10, <2>11, <2>12 DEF PaperInv
<1>10. CASE MarkUnknown
  <2>1. PICK o \in Orders : o = call.o /\ row[o] \in Rows
    BY <1>10, RunningCall DEF MarkUnknown
  <2>2. /\ row'[o].req = row[o].req
        /\ \A p \in Orders \ {o} : row'[p] = row[p]
    BY <1>10, <2>1 DEF MarkUnknown, MarkedUnknown, TypeOK, Rows
  <2>3. \A p \in Orders : row'[p].req = row[p].req
    BY <2>1, <2>2, RequestKept
  <2>4. QED
    BY <1>10, <2>3, Elsewhere DEF MarkUnknown, Idle
<1>11. ASSUME NEW o \in Orders, BeginResolve(o)
      PROVE  PaperInv'
  BY <1>11, Elsewhere DEF BeginResolve, Idle
<1>12. CASE QueryFinds \/ QueryMisses
  <2>1. call'.at = "resolve"
    BY <1>12 DEF QueryFinds, QueryMisses, TypeOK, Calls
  <2>2. QED
    BY <1>12, <2>1, Elsewhere DEF QueryFinds, QueryMisses
<1>13. CASE ResolveFound
  <2>1. PICK o \in Orders : o = call.o /\ row[o] \in Rows
    BY <1>13, RunningCall DEF ResolveFound
  <2>2. /\ row'[o].req = row[o].req
        /\ \A p \in Orders \ {o} : row'[p] = row[p]
    BY <1>13, <2>1 DEF ResolveFound, Settled, TypeOK, Rows
  <2>3. \A p \in Orders : row'[p].req = row[p].req
    BY <2>1, <2>2, RequestKept
  <2>4. PICK n \in Listings :
          fills' = Ingest(fills, {<<i, trades[i].qty>> : i \in TradesOf(o, n)})
    BY <1>13, <2>1 DEF ResolveFound
  <2>5. TradesOf(o, n) \subseteq 1..Len(trades)
    BY ListingType DEF TradesOf, TypeOK
  <2>6. BookInv'
    BY <1>13, <2>4, <2>5, PageBooks DEF ResolveFound, PaperInv
  <2>7. ExecInv'
    BY <1>13, <2>3 DEF ResolveFound, PaperInv, ExecInv
  <2>8. QED
    BY <1>13, <2>6, <2>7 DEF ResolveFound, Idle, PaperInv, AnswerInv
<1>14. CASE ResolveNotFound
  <2>1. PICK o \in Orders : o = call.o /\ row[o] \in Rows
    BY <1>14, RunningCall DEF ResolveNotFound
  <2>2. /\ row'[o].req = row[o].req
        /\ \A p \in Orders \ {o} : row'[p] = row[p]
    BY <1>14, <2>1 DEF ResolveNotFound, TypeOK, Rows
  <2>3. \A p \in Orders : row'[p].req = row[p].req
    BY <2>1, <2>2, RequestKept
  <2>4. QED
    BY <1>14, <2>3, Elsewhere DEF ResolveNotFound, Idle
<1>15. CASE ResolveFails \/ CancelPersistFails \/ ReconcileFails
  BY <1>15, Elsewhere DEF ResolveFails, CancelPersistFails, ReconcileFails, Idle
<1>23. CASE BeginReconcile
  BY <1>23, Elsewhere DEF BeginReconcile, Idle
<1>16. ASSUME NEW o \in Orders, BeginCancel(o)
      PROVE  PaperInv'
  <2>1. /\ row[o] \in Rows /\ row'[o].req = row[o].req
        /\ \A p \in Orders \ {o} : row'[p] = row[p]
    BY <1>16 DEF BeginCancel, TypeOK, Rows
  <2>2. \A p \in Orders : row'[p].req = row[p].req
    BY <2>1, RequestKept
  <2>3. QED
    BY <1>16, <2>2, Elsewhere DEF BeginCancel, Idle
<1>17. CASE CancelAnswered
  <2>1. call'.at = "cancel_persist"
    BY <1>17 DEF CancelAnswered, TypeOK, Calls
  <2>2. QED
    BY <1>17, <2>1, Elsewhere DEF CancelAnswered
<1>18. CASE CancelPersist
  <2>1. PICK o \in Orders : o = call.o /\ row[o] \in Rows
    BY <1>18, RunningCall DEF CancelPersist
  <2>2. /\ row'[o].req = row[o].req
        /\ \A p \in Orders \ {o} : row'[p] = row[p]
    BY <1>18, <2>1 DEF CancelPersist, TypeOK, Rows
  <2>3. \A p \in Orders : row'[p].req = row[p].req
    BY <2>1, <2>2, RequestKept
  <2>4. QED
    BY <1>18, <2>3, Elsewhere DEF CancelPersist, Idle
<1>19. CASE ReconcileCommit
  <2> DEFINE start == IF Paper /\ cursor > 0 THEN cursor - 1 ELSE 0
  <2>1. PICK n \in Listings :
          fills' = Ingest(fills, {<<i, trades[i].qty>> : i \in (base + start + 1)..n})
    BY <1>19 DEF ReconcileCommit
  <2>2. (base + start + 1)..n \subseteq 1..Len(trades)
    BY <2>1, ListingType DEF TypeOK
  <2>3. BookInv'
    BY <1>19, <2>1, <2>2, PageBooks DEF ReconcileCommit, PaperInv
  <2>4. QED
    BY <1>19, <2>3 DEF ReconcileCommit, Idle, PaperInv, ExecInv, AnswerInv
<1>20. CASE PlaceRaises \/ CancelRaises \/ ExternalTrade \/ \E o \in Orders : BrokerExecute(o)
  BY <1>20 DEF PlaceRaises, CancelRaises, ExternalTrade, BrokerExecute
<1>21. CASE UNCHANGED vars
  BY <1>21, Untouched DEF vars
<1>22. QED
  BY <1>1, <1>2, <1>3, <1>4, <1>5, <1>6, <1>7, <1>8, <1>9, <1>10, <1>11, <1>12,
     <1>13, <1>14, <1>15, <1>16, <1>17, <1>18, <1>19, <1>20, <1>21, <1>23
     DEF Next, Submit, Resolve, Cancel, Reconcile, Broker

\* On paper the ledger stays one of executions, each of an order of its own.
THEOREM PaperLedger == ASSUME Paper PROVE Spec => []PaperInv
<1>1. Init => PaperInv
  BY DEF Init, Idle, PaperInv, ExecInv, BookInv, AnswerInv
<1>2. TypeOK /\ IInv /\ PaperInv /\ [Next]_vars => PaperInv'
  BY PaperStep
<1>3. QED
  BY <1>1, <1>2, InvariantHolds, PTL DEF Spec

\* What an order has in the ledger is nothing, or the one execution it had.
LEMMA BookedOfOrder ==
  ASSUME TypeOK, PaperInv, OneRowPerExecution, NEW o \in Orders
  PROVE  /\ Traded(o) \in Nat
         /\ \/ Booked(o) = 0
            \/ Booked(o) = Traded(o) /\ Traded(o) <= row[o].req.qty
<1> DEFINE Mine == {f \in fills : f[1] \in 1..Len(trades) /\ trades[f[1]].o = o}
           Execs == {i \in 1..Len(trades) : trades[i].o = o}
<1>1. Booked(o) = BookedIn(Mine) + 0
  <2>1. {f \in localFills : f[1] = o} = {}
    BY DEF PaperInv, BookInv
  <2>2. QED
    BY <2>1, BookedInFew DEF Booked
<1>2. \A i \in Execs : trades[i].qty \in Nat /\ Execs = {i}
  <2> SUFFICES ASSUME NEW i \in Execs PROVE trades[i].qty \in Nat /\ Execs = {i}
    OBVIOUS
  <2>1. trades[i] \in Trades
    BY ElementOfSeq DEF TypeOK
  <2>2. QED
    BY <2>1 DEF Trades, PaperInv, ExecInv
<1>3. Traded(o) \in Nat
  <2>1. Traded(o) = TradedIn(Execs)
    BY DEF Traded
  <2> HIDE DEF Execs
  <2>2. CASE Execs = {}
    BY <2>1, <2>2, TradedInFew
  <2>3. ASSUME NEW i \in Execs PROVE Traded(o) \in Nat
    <3>1. trades[i].qty \in Nat /\ Execs = {i}
      BY <1>2
    <3>2. TradedIn({i}) = trades[i].qty
      BY <3>1, TradedInFew
    <3>3. QED
      BY <2>1, <3>1, <3>2
  <2>4. QED
    BY <2>2, <2>3
<1>4. CASE Mine = {}
  BY <1>1, <1>3, <1>4, BookedInFew
<1>5. ASSUME NEW f \in Mine
      PROVE  Booked(o) = Traded(o) /\ Traded(o) <= row[o].req.qty
  <2>1. Mine = {f}
    BY <1>2 DEF OneRowPerExecution
  <2>2. f[1] \in Execs /\ f[2] = trades[f[1]].qty
    BY DEF PaperInv, BookInv
  <2>3. BookedIn(Mine) = trades[f[1]].qty /\ trades[f[1]].qty \in Nat
    BY <1>2, <2>1, <2>2, BookedInFew
  <2>4. Traded(o) = trades[f[1]].qty
    BY <1>2, <2>2, TradedInFew DEF Traded
  <2>5. trades[f[1]].qty <= row[o].req.qty
    BY <2>2 DEF PaperInv, ExecInv
  <2>6. QED
    BY <1>1, <2>3, <2>4, <2>5
<1>6. QED
  BY <1>3, <1>4, <1>5

\* On paper no order is booked for more than it asked, whichever of submit,
\* resolve and reconcile booked it, over any number of crashes.  At the exchange
\* the code does not keep this: run double_booking.
THEOREM PaperNeverDoubleBooks == ASSUME Paper PROVE Spec => []NoDoubleBooking
<1>1. TypeOK /\ PaperInv /\ OneRowPerExecution => NoDoubleBooking
  <2> SUFFICES ASSUME TypeOK, PaperInv, OneRowPerExecution, NEW o \in Orders
               PROVE  Booked(o) <= row[o].req.qty
    BY DEF NoDoubleBooking
  <2>1. row[o].req.qty \in Nat
    BY RequestFields DEF TypeOK, Rows, NoReq
  <2>2. QED
    BY <2>1, BookedOfOrder
<1>2. QED
  BY <1>1, PaperLedger, TypeCorrect, ExecutionsBookedOnce, PTL

\* On paper the ledger books of an order only what the broker traded of it.
THEOREM PaperBooksWhatTraded == ASSUME Paper PROVE Spec => []BookedWasTraded
<1>1. TypeOK /\ PaperInv /\ OneRowPerExecution => BookedWasTraded
  <2> SUFFICES ASSUME TypeOK, PaperInv, OneRowPerExecution, NEW o \in Orders
               PROVE  Booked(o) <= Traded(o)
    BY DEF BookedWasTraded
  <2>1. QED
    BY BookedOfOrder
<1>2. QED
  BY <1>1, PaperLedger, TypeCorrect, ExecutionsBookedOnce, PTL

=============================================================================

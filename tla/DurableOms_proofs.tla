-------------------------- MODULE DurableOms_proofs --------------------------
(* Theorems about DurableOms, for every value of its constants. *)
EXTENDS DurableOms, SequenceTheorems, TLAPS

(***************************************************************************)
(* Facts about the initial values and the helpers                          *)
(***************************************************************************)

\* The values an idle program, an unknown order and a missing answer have are
\* values of their types.
LEMMA Values ==
  /\ Idle \in Calls
  /\ NoAns \in Answers
  /\ NoRow \in Rows
  /\ NoBrokerOrder \in BrokerOrders
BY DEF Idle, Calls, Stages, NoAns, Answers, NoRow, Rows, NoReq, NoBrokerOrder,
       BrokerOrders, IntentState, DeliveryCertainty

\* What a caller may ask for has a positive quantity.
LEMMA RequestFields ==
  \A r \in Requests : r.qty \in Nat \ {0} /\ r.side \in {"buy", "sell"} /\ r # NoReq
BY RequestsAssumption DEF NoReq

\* An adapter's view of a broker order is an answer, and never "no answer".
LEMMA NormalizeType ==
  ASSUME NEW b \in BrokerOrders
  PROVE  /\ Normalize(b) \in Answers
         /\ Normalize(b) # NoAns
         /\ Normalize(b).state = "CANCELED" <=> b.st = "canceled"
<1>1. b.filled \in Nat /\ b.req.qty \in Nat
  BY RequestFields DEF BrokerOrders, NoReq
<1>2. QED
  BY <1>1 DEF Normalize, Answers, NoAns

\* The signed quantity of a trade is an integer.
LEMMA SignedType ==
  ASSUME NEW side, NEW qty \in Nat
  PROVE  Signed(side, qty) \in Int
BY DEF Signed

\* An accepted order leaves the broker's tables well typed and sits there.
LEMMA AcceptType ==
  ASSUME TypeOK, NEW o \in Orders, NEW req \in Requests \union {NoReq},
         NEW fill \in 0..req.qty,
         Accept(o, req, fill)
  PROVE  /\ border' \in [Orders -> BrokerOrders]
         /\ trades' \in Seq(Trades)
         /\ Len(trades) <= Len(trades')
         /\ posBroker' \in Int
         /\ border'[o].st \in {"open", "closed"}
<1>1. fill \in Nat
  BY RequestFields DEF NoReq
<1>2. border' \in [Orders -> BrokerOrders] /\ border'[o].st \in {"open", "closed"}
  BY <1>1 DEF Accept, TypeOK, BrokerOrders
<1>3. [o |-> o, qty |-> fill] \in Trades
  BY <1>1 DEF Trades
<1>4. trades' \in Seq(Trades) /\ Len(trades) <= Len(trades')
  BY <1>3, AppendProperties DEF Accept, TypeOK
<1>5. posBroker' \in Int
  BY <1>1, SignedType DEF Accept, TypeOK
<1>6. QED
  BY <1>2, <1>4, <1>5

\* A placement that raised was accepted, or lost and changed nothing.
LEMMA AcceptOrLost ==
  ASSUME TypeOK, NEW o \in Orders, NEW req \in Requests \union {NoReq},
         \/ UNCHANGED <<border, trades, posBroker>>
         \/ \E fill \in 0..req.qty : Accept(o, req, fill)
  PROVE  /\ border' \in [Orders -> BrokerOrders]
         /\ trades' \in Seq(Trades) /\ Len(trades) <= Len(trades')
         /\ posBroker' \in Int
         /\ border'[o].st # "none" \/ border'[o] = border[o]
<1>1. CASE UNCHANGED <<border, trades, posBroker>>
  BY <1>1, LenProperties DEF TypeOK
<1>2. CASE \E fill \in 0..req.qty : Accept(o, req, fill)
  BY <1>2, AcceptType
<1>3. QED
  BY <1>1, <1>2

\* A listing ends between what the paper broker has forgotten and the newest
\* execution, and every execution in it has a quantity.
LEMMA ListingType ==
  ASSUME TypeOK, NEW n \in Listings
  PROVE  /\ n \in Nat /\ n - base \in Nat /\ n <= Len(trades)
         /\ \A i \in (base + 1)..n : i \in Nat /\ trades[i].qty \in Nat
<1>1. Len(trades) \in Nat
  BY LenProperties DEF TypeOK
<1>2. n \in Nat /\ n - base \in Nat /\ n <= Len(trades)
  BY <1>1 DEF Listings, TypeOK
<1>3. ASSUME NEW i \in (base + 1)..n
      PROVE  i \in Nat /\ trades[i].qty \in Nat
  <2>1. i \in 1..Len(trades)
    BY <1>1, <1>2 DEF TypeOK
  <2>2. trades[i] \in Trades
    BY <2>1, ElementOfSeq DEF TypeOK
  <2>3. QED
    BY <2>1, <2>2 DEF Trades
<1>4. QED
  BY <1>2, <1>3

(***************************************************************************)
(* Type correctness                                                        *)
(***************************************************************************)

\* A running call that is about an order is about one of Orders.
LEMMA RunningCall ==
  ASSUME TypeOK, call.at \notin {"idle", "reconcile"}
  PROVE  call.o \in Orders /\ row[call.o] \in Rows /\ border[call.o] \in BrokerOrders
BY DEF TypeOK, Calls

\* Every step of the order path keeps every variable in its type.
LEMMA TypeStep == TypeOK /\ [Next]_vars => TypeOK'
<1> SUFFICES ASSUME TypeOK, [Next]_vars
             PROVE  TypeOK'
  OBVIOUS
<1>1. CASE Startup
  BY <1>1
     DEF Startup, TypeOK, procVars, tableVars, alarmVars, brokerVars, histVars,
         Recover, Statuses
<1>2. CASE SoakResume
  BY <1>2
     DEF SoakResume, TypeOK, procVars, tableVars, alarmVars, brokerVars,
         histVars, Recover, Statuses
<1>3. CASE OpenPipeline
  BY <1>3
     DEF OpenPipeline, TypeOK, procVars, tableVars, alarmVars, brokerVars,
         histVars, Statuses
<1>4. CASE Disconnect
  BY <1>4
     DEF Disconnect, TypeOK, procVars, tableVars, alarmVars, brokerVars,
         histVars
<1>5. CASE Crash
  <2>1. call' \in Calls /\ (call'.o = NoOrder <=> call'.at \in {"idle", "reconcile"})
    BY <1>5, Values DEF Crash, Idle
  <2>2. border' \in [Orders -> BrokerOrders]
    BY <1>5, Values DEF Crash, TypeOK
  <2>3. base' \in Nat /\ base' <= Len(trades') /\ posBroker' \in Int
    BY <1>5, LenProperties DEF Crash, TypeOK
  <2>4. UNCHANGED <<row, fills, localFills, posLocal, cursor, openBreak, ks, trades,
                  sends, cancels>>
    BY <1>5 DEF Crash, tableVars, alarmVars
  <2>5. /\ up' \in BOOLEAN /\ conn' \in BOOLEAN /\ gate' \in Statuses
         /\ held' \subseteq Orders /\ prot' \subseteq Orders
    BY <1>5 DEF Crash, TypeOK, Statuses
  <2>6. crashes' \in Nat
    BY <1>5 DEF Crash, TypeOK
  <2>7. QED
    BY <2>1, <2>2, <2>3, <2>4, <2>5, <2>6 DEF TypeOK
<1>6. ASSUME NEW o \in Orders, NEW req \in Requests, BeginSubmit(o, req)
      PROVE  TypeOK'
  <2>1. call' \in Calls /\ (call'.o = NoOrder <=> call'.at \in {"idle", "reconcile"})
    BY <1>6, Values, OrdersAssumption DEF BeginSubmit, TypeOK, Calls, Stages, Idle
  <2>2. QED
    BY <1>6, <2>1
       DEF BeginSubmit, TypeOK, procVars, tableVars, alarmVars, brokerVars,
           histVars
<1>7. CASE CommitIntent
  <2>1. row' \in [Orders -> Rows]
    BY <1>7 DEF CommitIntent, TypeOK, Rows, IntentState, DeliveryCertainty, Calls
  <2>2. call' \in Calls /\ (call'.o = NoOrder <=> call'.at \in {"idle", "reconcile"})
    BY <1>7, Values, OrdersAssumption DEF CommitIntent, TypeOK, Calls, Stages
  <2>3. QED
    BY <1>7, <2>1, <2>2
       DEF CommitIntent, TypeOK, procVars, tableVars, alarmVars, brokerVars,
           histVars
<1>8. CASE CommitFails
  <2>1. call' \in Calls /\ (call'.o = NoOrder <=> call'.at \in {"idle", "reconcile"})
    BY <1>8, Values DEF CommitFails, Idle
  <2>2. QED
    BY <1>8, <2>1
       DEF CommitFails, TypeOK, procVars, tableVars, alarmVars, brokerVars,
           histVars, Statuses
<1>9. ASSUME NEW hook \in BOOLEAN, NotSent(hook)
      PROVE  TypeOK'
  <2>1. [row[call.o] EXCEPT !.intent = "SUBMITTING", !.order = IF hook THEN "SUBMITTING"
                                                          ELSE row[call.o].order] \in Rows
    BY <1>9, RunningCall DEF NotSent, TypeOK, Rows, IntentState, DeliveryCertainty
  <2>2. row' \in [Orders -> Rows]
    BY <1>9, <2>1, RunningCall DEF NotSent, TypeOK
  <2>3. call' \in Calls /\ (call'.o = NoOrder <=> call'.at \in {"idle", "reconcile"})
    BY <1>9, Values DEF NotSent, Idle
  <2>4. QED
    BY <1>9, <2>1, <2>2, <2>3
       DEF NotSent, TypeOK, procVars, tableVars, alarmVars, brokerVars, histVars
<1>10. CASE MarkBeforeSend
  <2>1. [row[call.o] EXCEPT !.intent = "UNKNOWN", !.order = "UNKNOWN",
                   !.delivery = "MAY_HAVE_BEEN_ACCEPTED"] \in Rows
    BY <1>10, RunningCall
       DEF MarkBeforeSend, TypeOK, Rows, IntentState, DeliveryCertainty,
           MarkedUnknown
  <2>2. row' \in [Orders -> Rows]
    BY <1>10, <2>1, RunningCall DEF MarkBeforeSend, TypeOK, MarkedUnknown
  <2>3. call' \in Calls /\ (call'.o = NoOrder <=> call'.at \in {"idle", "reconcile"})
    BY <1>10, Values, OrdersAssumption DEF MarkBeforeSend, TypeOK, Calls, Stages
  <2>4. QED
    BY <1>10, <2>1, <2>2, <2>3
       DEF MarkBeforeSend, TypeOK, procVars, tableVars, alarmVars, brokerVars,
           histVars
<1>11. CASE MarkBeforeSendFails
  <2>1. call' \in Calls /\ (call'.o = NoOrder <=> call'.at \in {"idle", "reconcile"})
    BY <1>11, Values, OrdersAssumption
       DEF MarkBeforeSendFails, TypeOK, Calls, Stages
  <2>2. QED
    BY <1>11, <2>1
       DEF MarkBeforeSendFails, TypeOK, procVars, tableVars, alarmVars,
           brokerVars, histVars
<1>12. CASE PlaceAnswered
  <2>1. call.o \in Orders /\ call.req \in Requests \union {NoReq}
    BY <1>12, RunningCall DEF PlaceAnswered, TypeOK, Calls
  <2>2. /\ border' \in [Orders -> BrokerOrders]
         /\ trades' \in Seq(Trades) /\ Len(trades) <= Len(trades')
         /\ posBroker' \in Int
    BY <1>12, AcceptType, <2>1 DEF PlaceAnswered
  <2>3. Normalize(border'[call.o]) \in Answers
    BY <2>1, <2>2, NormalizeType
  <2>4. call' = [call EXCEPT !.at = IF call.at = "send" THEN "finalize" ELSE "query",
                          !.ans = Normalize(border'[call.o])]
    BY <1>12 DEF PlaceAnswered
  <2>5. call' \in Calls /\ (call'.o = NoOrder <=> call'.at \in {"idle", "reconcile"})
    BY <1>12, <2>3, <2>4, <2>1, OrdersAssumption
       DEF PlaceAnswered, TypeOK, Calls, Stages
  <2>6. sends' = [sends EXCEPT ![call.o] = sends[call.o] + 1]
    BY <1>12 DEF PlaceAnswered
  <2>7. sends' \in [Orders -> Nat]
    BY <1>12, <2>6, RunningCall DEF PlaceAnswered, TypeOK
  <2>8. Len(trades) \in Nat /\ Len(trades') \in Nat
    BY <1>12, <2>2, LenProperties DEF PlaceAnswered, TypeOK
  <2>9. UNCHANGED <<procVars, tableVars, alarmVars, base, prot, cancels, crashes>>
    BY <1>12 DEF PlaceAnswered
  <2>10. QED
    BY <2>2, <2>5, <2>7, <2>8, <2>9
       DEF TypeOK, procVars, tableVars, alarmVars
<1>13. CASE PlaceRaises
  <2>1. call.o \in Orders /\ call.req \in Requests \union {NoReq}
    BY <1>13, RunningCall DEF PlaceRaises, TypeOK, Calls
  <2>2. /\ border' \in [Orders -> BrokerOrders]
         /\ trades' \in Seq(Trades) /\ Len(trades) <= Len(trades')
         /\ posBroker' \in Int
    BY <1>13, AcceptOrLost, <2>1 DEF PlaceRaises
  <2>3. call' \in Calls /\ (call'.o = NoOrder <=> call'.at \in {"idle", "reconcile"})
    BY <1>13, Values, OrdersAssumption DEF PlaceRaises, TypeOK, Calls, Stages
  <2>4. sends' = [sends EXCEPT ![call.o] = sends[call.o] + 1]
    BY <1>13 DEF PlaceRaises
  <2>5. sends' \in [Orders -> Nat]
    BY <1>13, <2>4, RunningCall DEF PlaceRaises, TypeOK
  <2>6. Len(trades) \in Nat /\ Len(trades') \in Nat
    BY <1>13, <2>2, LenProperties DEF PlaceRaises, TypeOK
  <2>7. QED
    BY <1>13, <2>1, <2>2, <2>3, <2>4, <2>5, <2>6
       DEF PlaceRaises, TypeOK, procVars, tableVars, alarmVars, brokerVars,
           histVars
<1>14. CASE Finalize
  <2>1. call.o \in Orders
    BY <1>14, RunningCall DEF Finalize
  <2>2. [row[call.o] EXCEPT !.intent = "FILLED", !.order = "FILLED",
                   !.delivery = "CONFIRMED", !.bid = TRUE,
                   !.resv = "CONSUMED"] \in Rows
    BY <1>14, RunningCall
       DEF Finalize, TypeOK, Rows, IntentState, DeliveryCertainty, Settled
  <2>3. row' \in [Orders -> Rows]
    BY <1>14, <2>2, RunningCall DEF Finalize, TypeOK, Settled
  <2>4. call' \in Calls /\ (call'.o = NoOrder <=> call'.at \in {"idle", "reconcile"})
    BY <1>14, Values DEF Finalize, Idle
  <2>5. call.ans.filled \in Nat
    BY <1>14 DEF Finalize, TypeOK, Calls, Answers
  <2>6. \E n \in Listings : cursor' = IF Paper THEN n - base ELSE 0
    BY <1>14 DEF Finalize
  <2>7. cursor' \in Nat
    BY <1>14, <2>6, ListingType DEF Finalize, TypeOK
  <2>8. fills' \subseteq Nat \X Nat
    BY <1>14, <2>5, ListingType DEF Finalize, TypeOK, Ingest, TradesOf
  <2>9. localFills' \subseteq Orders \X Nat
    BY <1>14, <2>1, <2>5 DEF Finalize, TypeOK, Ingest
  <2>10. held' \subseteq Orders /\ prot' \subseteq Orders /\ gate' \in Statuses
    BY <1>14, <2>1 DEF Finalize, TypeOK, Protect, Statuses
  <2>11. QED
    BY <1>14, <2>1, <2>2, <2>3, <2>4, <2>5, <2>6, <2>7, <2>8, <2>9, <2>10
       DEF Finalize, TypeOK, procVars, tableVars, alarmVars, brokerVars,
           histVars
<1>15. CASE FinalizeFails
  <2>1. call.o \in Orders
    BY <1>15, RunningCall DEF FinalizeFails
  <2>2. call' \in Calls /\ (call'.o = NoOrder <=> call'.at \in {"idle", "reconcile"})
    BY <1>15, Values, OrdersAssumption DEF FinalizeFails, TypeOK, Calls, Stages
  <2>3. held' \subseteq Orders /\ prot' \subseteq Orders /\ gate' \in Statuses
    BY <1>15, <2>1 DEF FinalizeFails, TypeOK, Protect, Statuses
  <2>4. QED
    BY <1>15, <2>1, <2>2, <2>3
       DEF FinalizeFails, TypeOK, procVars, tableVars, alarmVars, brokerVars,
           histVars
<1>16. CASE MarkUnknown
  <2>1. [row[call.o] EXCEPT !.intent = "UNKNOWN", !.order = "UNKNOWN",
                   !.delivery = "MAY_HAVE_BEEN_ACCEPTED"] \in Rows
    BY <1>16, RunningCall
       DEF MarkUnknown, TypeOK, Rows, IntentState, DeliveryCertainty,
           MarkedUnknown
  <2>2. row' \in [Orders -> Rows]
    BY <1>16, <2>1, RunningCall DEF MarkUnknown, TypeOK, MarkedUnknown
  <2>3. call' \in Calls /\ (call'.o = NoOrder <=> call'.at \in {"idle", "reconcile"})
    BY <1>16, Values DEF MarkUnknown, Idle
  <2>4. QED
    BY <1>16, <2>1, <2>2, <2>3
       DEF MarkUnknown, TypeOK, procVars, tableVars, alarmVars, brokerVars,
           histVars
<1>17. CASE MarkUnknownFails
  <2>1. call' \in Calls /\ (call'.o = NoOrder <=> call'.at \in {"idle", "reconcile"})
    BY <1>17, Values DEF MarkUnknownFails, Idle
  <2>2. QED
    BY <1>17, <2>1
       DEF MarkUnknownFails, TypeOK, procVars, tableVars, alarmVars, brokerVars,
           histVars
<1>35. CASE NotSentFails
  <2>1. call' \in Calls /\ (call'.o = NoOrder <=> call'.at \in {"idle", "reconcile"})
    BY <1>35, Values DEF NotSentFails, Idle
  <2>2. QED
    BY <1>35, <2>1
       DEF NotSentFails, TypeOK, procVars, tableVars, alarmVars, brokerVars,
           histVars
<1>18. ASSUME NEW o \in Orders, BeginResolve(o)
      PROVE  TypeOK'
  <2>1. call' \in Calls /\ (call'.o = NoOrder <=> call'.at \in {"idle", "reconcile"})
    BY <1>18, Values, OrdersAssumption
       DEF BeginResolve, TypeOK, Calls, Stages, Idle, Rows
  <2>2. QED
    BY <1>18, <2>1
       DEF BeginResolve, TypeOK, procVars, tableVars, alarmVars, brokerVars,
           histVars
<1>19. CASE QueryFinds
  <2>1. call.o \in Orders
    BY <1>19, RunningCall DEF QueryFinds
  <2>2. Normalize(border[call.o]) \in Answers
    BY <1>19, <2>1, NormalizeType DEF QueryFinds, TypeOK
  <2>3. call' \in Calls /\ (call'.o = NoOrder <=> call'.at \in {"idle", "reconcile"})
    BY <1>19, Values, OrdersAssumption, <2>2 DEF QueryFinds, TypeOK, Calls, Stages
  <2>4. QED
    BY <1>19, <2>1, <2>2, <2>3
       DEF QueryFinds, TypeOK, procVars, tableVars, alarmVars, brokerVars,
           histVars
<1>20. CASE QueryMisses
  <2>1. call' \in Calls /\ (call'.o = NoOrder <=> call'.at \in {"idle", "reconcile"})
    BY <1>20, Values, OrdersAssumption DEF QueryMisses, TypeOK, Calls, Stages
  <2>2. QED
    BY <1>20, <2>1
       DEF QueryMisses, TypeOK, procVars, tableVars, alarmVars, brokerVars,
           histVars
<1>21. CASE ResolveFound
  <2>1. row' = Settled(call.o, "FILLED") \/ row' = Settled(call.o, "ACKNOWLEDGED")
    BY <1>21 DEF ResolveFound
  <2>2. \A new \in {"FILLED", "ACKNOWLEDGED"} :
           [row[call.o] EXCEPT !.intent = new, !.order = new,
                     !.delivery = "CONFIRMED", !.bid = TRUE,
                     !.resv = "CONSUMED"] \in Rows
    BY <1>21, RunningCall
       DEF ResolveFound, TypeOK, Rows, IntentState, DeliveryCertainty
  <2>3. row' \in [Orders -> Rows]
    BY <1>21, <2>1, <2>2 DEF ResolveFound, TypeOK, Settled
  <2>4. call' \in Calls /\ (call'.o = NoOrder <=> call'.at \in {"idle", "reconcile"})
    BY <1>21, Values DEF ResolveFound, Idle
  <2>5. fills' \subseteq Nat \X Nat
    BY <1>21, ListingType DEF ResolveFound, TypeOK, Ingest, TradesOf
  <2>6. QED
    BY <1>21, <2>1, <2>2, <2>3, <2>4, <2>5
       DEF ResolveFound, TypeOK, procVars, tableVars, alarmVars, brokerVars,
           histVars
<1>22. CASE ResolveNotFound
  <2>1. [row[call.o] EXCEPT !.intent = "UNKNOWN",
                   !.delivery = "MAY_HAVE_BEEN_ACCEPTED"] \in Rows
    BY <1>22, RunningCall
       DEF ResolveNotFound, TypeOK, Rows, IntentState, DeliveryCertainty
  <2>2. row' \in [Orders -> Rows]
    BY <1>22, <2>1, RunningCall DEF ResolveNotFound, TypeOK
  <2>3. call' \in Calls /\ (call'.o = NoOrder <=> call'.at \in {"idle", "reconcile"})
    BY <1>22, Values DEF ResolveNotFound, Idle
  <2>4. QED
    BY <1>22, <2>1, <2>2, <2>3
       DEF ResolveNotFound, TypeOK, procVars, tableVars, alarmVars, brokerVars,
           histVars
<1>23. CASE ResolveFails
  <2>1. call' \in Calls /\ (call'.o = NoOrder <=> call'.at \in {"idle", "reconcile"})
    BY <1>23, Values DEF ResolveFails, Idle
  <2>2. QED
    BY <1>23, <2>1
       DEF ResolveFails, TypeOK, procVars, tableVars, alarmVars, brokerVars,
           histVars
<1>24. ASSUME NEW o \in Orders, BeginCancel(o)
      PROVE  TypeOK'
  <2>1. [row[o] EXCEPT !.intent = "CANCEL_REQUESTED", !.order = "CANCEL_REQUESTED"] \in Rows
    BY <1>24, RunningCall
       DEF BeginCancel, TypeOK, Rows, IntentState, DeliveryCertainty
  <2>2. row' \in [Orders -> Rows]
    BY <1>24, <2>1, RunningCall DEF BeginCancel, TypeOK
  <2>3. call' \in Calls /\ (call'.o = NoOrder <=> call'.at \in {"idle", "reconcile"})
    BY <1>24, Values, OrdersAssumption
       DEF BeginCancel, TypeOK, Calls, Stages, Idle, Rows
  <2>4. QED
    BY <1>24, <2>1, <2>2, <2>3
       DEF BeginCancel, TypeOK, procVars, tableVars, alarmVars, brokerVars,
           histVars
<1>25. CASE CancelAnswered
  <2>1. call.o \in Orders
    BY <1>25, RunningCall DEF CancelAnswered
  <2>2. [border[call.o] EXCEPT !.st = "canceled"] \in BrokerOrders
    BY <1>25, <2>1 DEF CancelAnswered, TypeOK, BrokerOrders
  <2>3. border' \in [Orders -> BrokerOrders]
    BY <1>25, <2>1, <2>2 DEF CancelAnswered, TypeOK
  <2>4. [state |-> "NOT_FOUND", filled |-> 0] \in Answers
    BY DEF Answers
  <2>5. Normalize(border[call.o]) \in Answers /\ Normalize(border'[call.o]) \in Answers
    BY <2>1, <2>3, NormalizeType DEF TypeOK
  <2>6. call' \in Calls /\ (call'.o = NoOrder <=> call'.at \in {"idle", "reconcile"})
    BY <1>25, Values, OrdersAssumption, <2>5, <2>4
       DEF CancelAnswered, TypeOK, Calls, Stages
  <2>7. cancels' = [cancels EXCEPT ![call.o] = cancels[call.o] + 1]
    BY <1>25 DEF CancelAnswered
  <2>8. cancels' \in [Orders -> Nat]
    BY <2>1, <2>7 DEF TypeOK
  <2>9. QED
    BY <1>25, <2>1, <2>2, <2>3, <2>4, <2>5, <2>6, <2>7, <2>8
       DEF CancelAnswered, TypeOK, procVars, tableVars, alarmVars, brokerVars,
           histVars
<1>26. CASE CancelRaises
  <2>1. call' \in Calls /\ (call'.o = NoOrder <=> call'.at \in {"idle", "reconcile"})
    BY <1>26, Values, OrdersAssumption DEF CancelRaises, TypeOK, Calls, Stages
  <2>2. call.o \in Orders
    BY <1>26, RunningCall DEF CancelRaises
  <2>3. [border[call.o] EXCEPT !.st = "canceled"] \in BrokerOrders
    BY <1>26, <2>2 DEF CancelRaises, TypeOK, BrokerOrders
  <2>4. border' \in [Orders -> BrokerOrders]
    BY <1>26, <2>2, <2>3 DEF CancelRaises, TypeOK
  <2>5. cancels' = [cancels EXCEPT ![call.o] = cancels[call.o] + 1]
    BY <1>26 DEF CancelRaises
  <2>6. cancels' \in [Orders -> Nat]
    <3>1. cancels \in [Orders -> Nat]
      BY DEF TypeOK
    <3>2. cancels[call.o] + 1 \in Nat
      BY <2>2, <3>1
    <3>3. QED
      BY <2>5, <3>1, <3>2
  <2>7. QED
    BY <1>26, <2>1, <2>2, <2>3, <2>4, <2>5, <2>6
       DEF CancelRaises, TypeOK, procVars, tableVars, alarmVars, brokerVars,
           histVars
<1>27. CASE CancelPersist
  <2>1. CancelOutcome(call.ans) \in IntentState
    BY <1>27 DEF CancelPersist, CancelOutcome, IntentState
  <2>2. \A new \in IntentState, d \in DeliveryCertainty :
           [row[call.o] EXCEPT !.intent = new, !.order = new, !.delivery = d] \in Rows
    BY <1>27, RunningCall DEF CancelPersist, TypeOK, Rows
  <2>3. row' \in [Orders -> Rows]
    BY <1>27, <2>1, <2>2 DEF CancelPersist, TypeOK, DeliveryCertainty
  <2>4. call' \in Calls /\ (call'.o = NoOrder <=> call'.at \in {"idle", "reconcile"})
    BY <1>27, Values DEF CancelPersist, Idle
  <2>5. QED
    BY <1>27, <2>1, <2>2, <2>3, <2>4
       DEF CancelPersist, TypeOK, procVars, tableVars, alarmVars, brokerVars,
           histVars
<1>28. CASE CancelPersistFails
  <2>1. call' \in Calls /\ (call'.o = NoOrder <=> call'.at \in {"idle", "reconcile"})
    BY <1>28, Values DEF CancelPersistFails, Idle
  <2>2. QED
    BY <1>28, <2>1
       DEF CancelPersistFails, TypeOK, procVars, tableVars, alarmVars,
           brokerVars, histVars
<1>29. CASE BeginReconcile
  <2>1. call' \in Calls /\ (call'.o = NoOrder <=> call'.at \in {"idle", "reconcile"})
    BY <1>29, Values, OrdersAssumption
       DEF BeginReconcile, TypeOK, Calls, Stages, Idle
  <2>2. QED
    BY <1>29, <2>1
       DEF BeginReconcile, TypeOK, procVars, tableVars, alarmVars, brokerVars,
           histVars
<1>30. CASE ReconcileCommit
  <2>1. call' \in Calls /\ (call'.o = NoOrder <=> call'.at \in {"idle", "reconcile"})
    BY <1>30, Values DEF ReconcileCommit, Idle
  <2>2. \E n \in Listings : cursor' = IF Paper THEN n - base ELSE 0
    BY <1>30 DEF ReconcileCommit
  <2>3. cursor' \in Nat
    BY <1>30, <2>2, ListingType DEF ReconcileCommit, TypeOK
  <2>4. \A n \in Listings, start \in Nat : \A i \in (base + start + 1)..n :
           i \in Nat /\ trades[i].qty \in Nat
    BY ListingType DEF TypeOK
  <2>5. (IF Paper /\ cursor > 0 THEN cursor - 1 ELSE 0) \in Nat
    BY DEF TypeOK
  <2>6. \E n \in Listings, start \in Nat :
           fills' = Ingest(fills, {<<i, trades[i].qty>> : i \in (base + start + 1)..n})
    BY <1>30, <2>5 DEF ReconcileCommit
  <2>7. \A n \in Listings, start \in Nat :
           {<<i, trades[i].qty>> : i \in (base + start + 1)..n} \subseteq Nat \X Nat
    BY <2>4
  <2>8. fills' \subseteq Nat \X Nat
    BY <1>30, <2>6, <2>7 DEF ReconcileCommit, TypeOK, Ingest
  <2>9. ReconScope \in Scopes /\ ks[ReconScope] \in 0..4
    BY ScopeAssumption DEF TypeOK
  <2>10. \/ ks' = ks
         \/ ks' = [ks EXCEPT ![ReconScope] = IF ks[ReconScope] < 2 THEN 2 ELSE ks[ReconScope]]
    BY <1>30 DEF ReconcileCommit
  <2>11. ks' \in [Scopes -> 0..4]
    BY <2>9, <2>10 DEF TypeOK
  <2>12. gate' \in Statuses /\ openBreak' \in BOOLEAN
    BY <1>30 DEF ReconcileCommit, TypeOK, Statuses
  <2>13. posLocal' \in Int
    BY <1>30 DEF ReconcileCommit, TypeOK, Calls
  <2>14. QED
    BY <1>30, <2>1, <2>2, <2>3, <2>4, <2>5, <2>6, <2>7, <2>8, <2>9, <2>10,
       <2>11, <2>12, <2>13
       DEF ReconcileCommit, TypeOK, procVars, tableVars, alarmVars, brokerVars,
           histVars
<1>31. CASE ReconcileFails
  <2>1. call' \in Calls /\ (call'.o = NoOrder <=> call'.at \in {"idle", "reconcile"})
    BY <1>31, Values DEF ReconcileFails, Idle
  <2>2. QED
    BY <1>31, <2>1
       DEF ReconcileFails, TypeOK, Statuses, procVars, tableVars, alarmVars,
           brokerVars, histVars
<1>32. ASSUME NEW o \in Orders, BrokerExecute(o)
      PROVE  TypeOK'
  <2>1. border[o] \in BrokerOrders
    BY DEF TypeOK
  <2>2. border[o].filled + 1 \in Nat
    BY <2>1 DEF BrokerOrders
  <2>3. [border[o] EXCEPT !.filled = border[o].filled + 1] \in BrokerOrders
    BY <2>1, <2>2 DEF BrokerOrders
  <2>4. \A b \in BrokerOrders, s \in {"closed", "open"} : [b EXCEPT !.st = s] \in BrokerOrders
    BY DEF BrokerOrders
  <2>5. \E s \in {"closed", "open"} :
           border' = [border EXCEPT ![o] =
             [[border[o] EXCEPT !.filled = border[o].filled + 1] EXCEPT !.st = s]]
    BY <1>32 DEF BrokerExecute
  <2>6. border' \in [Orders -> BrokerOrders]
    BY <2>3, <2>4, <2>5 DEF TypeOK
  <2>7. Signed(border[o].req.side, 1) \in Int
    BY SignedType
  <2>8. posBroker' \in Int
    BY <1>32, <2>7 DEF BrokerExecute, TypeOK
  <2>9. trades' \in Seq(Trades) /\ base' <= Len(trades')
    BY <1>32, AppendProperties, LenProperties DEF BrokerExecute, TypeOK, Trades
  <2>10. QED
    BY <1>32, <2>1, <2>2, <2>3, <2>4, <2>5, <2>6, <2>7, <2>8, <2>9
       DEF BrokerExecute, TypeOK, procVars, tableVars, alarmVars, brokerVars,
           histVars
<1>33. CASE ExternalTrade
  <2>1. posBroker' \in Int
    BY <1>33, SignedType DEF ExternalTrade, TypeOK
  <2>2. trades' \in Seq(Trades) /\ base' <= Len(trades')
    BY <1>33, AppendProperties, LenProperties DEF ExternalTrade, TypeOK, Trades
  <2>3. QED
    BY <1>33, <2>1, <2>2
       DEF ExternalTrade, TypeOK, procVars, tableVars, alarmVars, brokerVars,
           histVars
<1>34. CASE UNCHANGED vars
  BY <1>34 DEF vars, TypeOK, procVars, tableVars, alarmVars, brokerVars, histVars
<1>36. QED
  BY <1>1, <1>2, <1>3, <1>4, <1>5, <1>6, <1>7, <1>8, <1>9, <1>10, <1>11, <1>12,
     <1>13, <1>14, <1>15, <1>16, <1>17, <1>18, <1>19, <1>20, <1>21, <1>22,
     <1>23, <1>24, <1>25, <1>26, <1>27, <1>28, <1>29, <1>30, <1>31, <1>32,
     <1>33, <1>34, <1>35
     DEF Next, Lifetime, Submit, Resolve, Cancel, Reconcile, Broker

\* TypeOK holds of every reachable state, whatever the constants.
THEOREM TypeCorrect == Spec => []TypeOK
<1>1. Init => TypeOK
  <2> SUFFICES ASSUME Init PROVE TypeOK
    OBVIOUS
  <2>1. call \in Calls /\ call.o = NoOrder /\ call.at = "idle"
    BY Values DEF Init, Idle
  <2>2. row \in [Orders -> Rows] /\ border \in [Orders -> BrokerOrders]
    BY Values DEF Init
  <2>3. trades \in Seq(Trades) /\ Len(trades) = 0
    BY EmptySeq DEF Init
  <2>4. ks \in [Scopes -> 0..4] /\ gate \in Statuses
    BY DEF Init, Statuses
  <2>5. held \subseteq Orders /\ prot \subseteq Orders /\ fills \subseteq Nat \X Nat
    BY DEF Init
  <2>6. sends \in [Orders -> Nat] /\ cancels \in [Orders -> Nat]
    BY DEF Init
  <2>7. localFills \subseteq Orders \X Nat /\ up \in BOOLEAN /\ conn \in BOOLEAN
        /\ openBreak \in BOOLEAN
    BY DEF Init
  <2>8. /\ posLocal \in Int /\ cursor \in Nat
        /\ base \in Nat /\ base <= 0 /\ posBroker \in Int /\ crashes \in Nat
    BY DEF Init
  <2>9. QED
    BY <2>1, <2>2, <2>3, <2>4, <2>5, <2>6, <2>7, <2>8 DEF TypeOK
<1>2. QED
  BY <1>1, TypeStep, PTL DEF Spec

(***************************************************************************)
(* The inductive invariant                                                 *)
(***************************************************************************)

\* The part of RowsAgree that is about one order.
Agrees(o) ==
  /\ row[o].order = row[o].intent
     \/ (row[o].intent = "SUBMITTING" /\ row[o].order = "RESERVED")
  /\ row[o].delivery = "CONFIRMED" =>
       row[o].intent \in {"FILLED", "ACKNOWLEDGED", "CANCEL_REQUESTED", "CANCELED"}
  /\ row[o].delivery = "MAY_HAVE_BEEN_ACCEPTED" =>
       row[o].intent \in {"UNKNOWN", "CANCEL_UNKNOWN"}

\* The part of the invariant that is about the orders, not the running call.
OrdersInv == \A o \in Orders : RowInv(o) /\ Agrees(o)

\* A step that touches one order only has that order's part to show.
LEMMA OneOrder ==
  ASSUME OrdersInv, NEW o,
         \A p \in Orders \ {o} :
           /\ row'[p] = row[p] /\ border'[p] = border[p]
           /\ sends'[p] = sends[p] /\ cancels'[p] = cancels[p],
         o \in Orders => RowInv(o)' /\ Agrees(o)'
  PROVE  OrdersInv'
<1>1. ASSUME NEW p \in Orders PROVE RowInv(p)' /\ Agrees(p)'
  <2>1. CASE p = o
    BY <2>1
  <2>2. CASE p # o
    <3>1. /\ row'[p] = row[p] /\ border'[p] = border[p]
          /\ sends'[p] = sends[p] /\ cancels'[p] = cancels[p]
      BY <2>2
    <3>2. RowInv(p) /\ Agrees(p)
      BY DEF OrdersInv
    <3>3. QED
      BY <3>1, <3>2 DEF RowInv, Agrees
  <2>3. QED
    BY <2>1, <2>2
<1>2. QED
  BY <1>1 DEF OrdersInv

\* A step that leaves the rows, the broker's orders and the counts alone.
LEMMA NoOrderTouched ==
  ASSUME OrdersInv, UNCHANGED <<row, border, sends, cancels>>
  PROVE  OrdersInv'
BY DEF OrdersInv, RowInv, Agrees

\* An idle program satisfies its part of the invariant.
LEMMA IdleInv == ASSUME call' = Idle PROVE CallInv'
BY DEF CallInv, Idle, NoAns

\* Every step keeps the inductive invariant.  One step per action: what the
\* action does to the one order it is about, then to the running call.
LEMMA IInvStep == TypeOK /\ TypeOK' /\ IInv /\ [Next]_vars => IInv'
<1> SUFFICES ASSUME TypeOK, TypeOK', OrdersInv, CallInv, [Next]_vars
             PROVE  OrdersInv' /\ CallInv'
  BY DEF IInv, OrdersInv, RowsAgree, Agrees
<1>1. CASE Startup
  <2>1. UNCHANGED <<row, border, sends, cancels, call>>
    BY <1>1 DEF Startup, Recover, tableVars, brokerVars, histVars
  <2>2. QED
    BY <2>1, NoOrderTouched DEF CallInv
<1>2. CASE SoakResume
  <2>1. UNCHANGED <<row, border, sends, cancels, call>>
    BY <1>2 DEF SoakResume, Recover, tableVars, brokerVars, histVars
  <2>2. QED
    BY <2>1, NoOrderTouched DEF CallInv
<1>3. CASE OpenPipeline
  <2>1. UNCHANGED <<row, border, sends, cancels, call>>
    BY <1>3 DEF OpenPipeline, tableVars, brokerVars, histVars
  <2>2. QED
    BY <2>1, NoOrderTouched DEF CallInv
<1>4. CASE Disconnect
  <2>1. UNCHANGED <<row, border, sends, cancels, call>>
    BY <1>4 DEF Disconnect, tableVars, brokerVars, histVars
  <2>2. QED
    BY <2>1, NoOrderTouched DEF CallInv
<1>5. CASE Crash
  <2>1. CallInv'
    BY <1>5, IdleInv DEF Crash
  <2>2. /\ UNCHANGED <<row, sends, cancels>>
        /\ \A o \in Orders : border'[o] = border[o] \/ (Paper /\ border'[o].st = "none")
    BY <1>5 DEF Crash, tableVars, NoBrokerOrder
  <2>3. OrdersInv'
    BY <2>2 DEF OrdersInv, RowInv, Agrees
  <2>4. QED
    BY <2>1, <2>3
<1>6. ASSUME NEW o \in Orders, NEW req \in Requests, BeginSubmit(o, req)
      PROVE  OrdersInv' /\ CallInv'
  <2>1. OrdersInv'
    BY <1>6, NoOrderTouched DEF BeginSubmit, tableVars, brokerVars, histVars
  <2>2. /\ call'.at = "commit" /\ call'.o = o /\ row'[o] = NoRow
    BY <1>6 DEF BeginSubmit, tableVars, Idle
  <2>3. CallInv'
    BY <2>2 DEF CallInv
  <2>4. QED
    BY <2>1, <2>3
<1>7. CASE CommitIntent
  <2>1. PICK o \in Orders : o = call.o
    BY <1>7, RunningCall DEF CommitIntent
  <2>2. RowInv(o) /\ Agrees(o) /\ row[o] = NoRow
    BY <1>7, <2>1 DEF CommitIntent, OrdersInv, CallInv
  <2>3. row[o] \in Rows
    BY DEF TypeOK
  <2>4. row'[o] = [req |-> call.req, intent |-> "RESERVED", order |-> "RESERVED",
                     delivery |-> "NOT_SENT", bid |-> FALSE, resv |-> "HELD"]
    BY <1>7, <2>1 DEF CommitIntent, TypeOK
  <2>5. /\ \A p \in Orders \ {o} : row'[p] = row[p]
        /\ UNCHANGED <<border, sends, cancels>>
    BY <1>7, <2>1 DEF CommitIntent, brokerVars, histVars, TypeOK
  <2>6. /\ row'[o].intent = "RESERVED" /\ row'[o].order = "RESERVED"
        /\ row'[o].delivery = "NOT_SENT"
        /\ row'[o].bid = FALSE /\ row'[o].resv = "HELD"
    BY <2>3, <2>4 DEF Rows
  <2>7. RowInv(o)' /\ Agrees(o)'
    <3>1. row'[o] # NoRow
      BY <2>6 DEF NoRow
    <3>2. RowInv(o)'
      BY <2>2, <2>5, <2>6, <3>1 DEF RowInv, Pending, Known, NoRow
    <3>3. Agrees(o)'
      BY <2>2, <2>6 DEF Agrees
    <3>4. QED
      BY <3>2, <3>3
  <2>8. OrdersInv'
    BY <2>5, <2>7, OneOrder
  <2>9. call'.o = o /\ call'.at = "send"
    BY <1>7, <2>1 DEF CommitIntent, TypeOK, Calls
  <2>10. sends[o] = 0
    BY <2>2 DEF RowInv, NoRow
  <2>11. CallInv'
    BY <2>5, <2>6, <2>9, <2>10 DEF CallInv
  <2>12. QED
    BY <2>8, <2>11
<1>8. CASE CommitFails
  BY <1>8, NoOrderTouched, IdleInv DEF CommitFails, tableVars, brokerVars, histVars
<1>9. ASSUME NEW hook \in BOOLEAN, NotSent(hook)
      PROVE  OrdersInv' /\ CallInv'
  <2>1. PICK o \in Orders : o = call.o
    BY <1>9, RunningCall DEF NotSent
  <2>2. RowInv(o) /\ Agrees(o) /\ row[o].intent = "RESERVED" /\ sends[o] = 0
    BY <1>9, <2>1 DEF NotSent, OrdersInv, CallInv
  <2>3. row[o] \in Rows
    BY DEF TypeOK
  <2>4. row'[o] = [row[o] EXCEPT !.intent = "SUBMITTING",
                               !.order = IF hook THEN "SUBMITTING" ELSE row[o].order]
    BY <1>9, <2>1 DEF NotSent, TypeOK
  <2>5. /\ \A p \in Orders \ {o} : row'[p] = row[p]
        /\ UNCHANGED <<border, sends, cancels>>
    BY <1>9, <2>1 DEF NotSent, brokerVars, histVars, TypeOK
  <2>6. /\ row'[o].intent = "SUBMITTING"
        /\ row'[o].order = (IF hook THEN "SUBMITTING" ELSE row[o].order)
        /\ row'[o].delivery = row[o].delivery
        /\ row'[o].bid = row[o].bid /\ row'[o].resv = row[o].resv
    BY <2>3, <2>4 DEF Rows
  <2>7. RowInv(o)' /\ Agrees(o)'
    <3>1. row'[o] # NoRow
      BY <2>6 DEF NoRow
    <3>2. RowInv(o)'
      BY <2>2, <2>5, <2>6, <3>1 DEF RowInv, Pending, Known
    <3>3. Agrees(o)'
      BY <2>2, <2>6 DEF Agrees
    <3>4. QED
      BY <3>2, <3>3
  <2>8. OrdersInv'
    BY <2>5, <2>7, OneOrder
  <2>9. CallInv'
    BY <1>9, IdleInv DEF NotSent
  <2>10. QED
    BY <2>8, <2>9
<1>10. CASE MarkBeforeSend
  <2>1. PICK o \in Orders : o = call.o
    BY <1>10, RunningCall DEF MarkBeforeSend
  <2>2. RowInv(o) /\ Agrees(o) /\ row[o].intent = "RESERVED" /\ sends[o] = 0
    BY <1>10, <2>1 DEF MarkBeforeSend, OrdersInv, CallInv
  <2>3. row[o] \in Rows
    BY DEF TypeOK
  <2>4. row'[o] = [row[o] EXCEPT !.intent = "UNKNOWN", !.order = "UNKNOWN",
                               !.delivery = "MAY_HAVE_BEEN_ACCEPTED"]
    BY <1>10, <2>1 DEF MarkBeforeSend, TypeOK, MarkedUnknown
  <2>5. /\ \A p \in Orders \ {o} : row'[p] = row[p]
        /\ UNCHANGED <<border, sends, cancels>>
    BY <1>10, <2>1 DEF MarkBeforeSend, brokerVars, histVars, TypeOK, MarkedUnknown
  <2>6. /\ row'[o].intent = "UNKNOWN" /\ row'[o].order = "UNKNOWN"
        /\ row'[o].delivery = "MAY_HAVE_BEEN_ACCEPTED"
        /\ row'[o].bid = row[o].bid /\ row'[o].resv = row[o].resv
    BY <2>3, <2>4 DEF Rows
  <2>7. RowInv(o)' /\ Agrees(o)'
    <3>1. row'[o] # NoRow
      BY <2>6 DEF NoRow
    <3>2. RowInv(o)'
      BY <2>2, <2>5, <2>6, <3>1 DEF RowInv, Pending, Known
    <3>3. Agrees(o)'
      BY <2>2, <2>6 DEF Agrees
    <3>4. QED
      BY <3>2, <3>3
  <2>8. OrdersInv'
    BY <2>5, <2>7, OneOrder
  <2>9. call'.o = o /\ call'.at = "hook_place"
    BY <1>10, <2>1 DEF MarkBeforeSend, TypeOK, Calls
  <2>10. sends[o] = 0
    BY <2>2 DEF RowInv, NoRow
  <2>11. CallInv'
    BY <2>5, <2>6, <2>9, <2>10 DEF CallInv
  <2>12. QED
    BY <2>8, <2>11
<1>11. CASE MarkBeforeSendFails
  <2>1. OrdersInv'
    BY <1>11, NoOrderTouched
       DEF MarkBeforeSendFails, tableVars, brokerVars, histVars
  <2>2. /\ call'.at = "mark" /\ call'.o = call.o
        /\ row'[call'.o].intent = "RESERVED" /\ Hooks
    BY <1>11 DEF MarkBeforeSendFails, tableVars, CallInv, TypeOK, Calls
  <2>3. CallInv'
    BY <2>2 DEF CallInv
  <2>4. QED
    BY <2>1, <2>3
<1>12. CASE PlaceAnswered
  <2>1. PICK o \in Orders : o = call.o
    BY <1>12, RunningCall DEF PlaceAnswered
  <2>2. /\ RowInv(o) /\ Agrees(o) /\ sends[o] = 0
        /\ call.at = "send" => row[o].intent = "RESERVED"
        /\ call.at = "hook_place" => row[o].intent = "UNKNOWN"
    BY <1>12, <2>1 DEF PlaceAnswered, OrdersInv, CallInv
  <2>3. UNCHANGED <<row, cancels>> /\ sends' = [sends EXCEPT ![o] = sends[o] + 1]
    BY <1>12, <2>1 DEF PlaceAnswered, tableVars
  <2>4. call.req \in Requests \union {NoReq}
    BY DEF TypeOK, Calls
  <2>5. PICK fill \in (IF Paper THEN 1 ELSE 0)..call.req.qty : Accept(o, call.req, fill)
    BY <1>12, <2>1 DEF PlaceAnswered
  <2>6. call.req.qty \in Nat
    BY <2>4, RequestFields DEF NoReq
  <2>7. fill \in 0..call.req.qty
    BY <2>6
  <2>8. border'[o].st \in {"open", "closed"}
    BY <2>4, <2>5, <2>7, AcceptType
  <2>9. \A p \in Orders \ {o} : border'[p] = border[p]
    BY <2>5 DEF Accept, TypeOK
  <2>10. sends'[o] = 1 /\ \A p \in Orders \ {o} : sends'[p] = sends[p]
    BY <2>2, <2>3 DEF TypeOK
  <2>11. RowInv(o)' /\ Agrees(o)'
    BY <2>2, <2>3, <2>8, <2>10, <1>12
       DEF RowInv, Agrees, PlaceAnswered, Pending, Known
  <2>12. OrdersInv'
    BY <2>3, <2>9, <2>10, <2>11, OneOrder
  <2>13. /\ call'.o = o
         /\ call'.at = IF call.at = "send" THEN "finalize" ELSE "query"
    BY <1>12, <2>1 DEF PlaceAnswered, TypeOK, Calls
  <2>14. CallInv'
    BY <1>12, <2>2, <2>3, <2>8, <2>10, <2>13 DEF CallInv, PlaceAnswered
  <2>15. QED
    BY <2>12, <2>14
<1>13. CASE PlaceRaises
  <2>1. PICK o \in Orders : o = call.o
    BY <1>13, RunningCall DEF PlaceRaises
  <2>2. /\ RowInv(o) /\ Agrees(o) /\ sends[o] = 0
        /\ call.at = "send" => row[o].intent = "RESERVED"
        /\ call.at = "hook_place" => row[o].intent = "UNKNOWN"
    BY <1>13, <2>1 DEF PlaceRaises, OrdersInv, CallInv
  <2>3. UNCHANGED <<row, cancels>> /\ sends' = [sends EXCEPT ![o] = sends[o] + 1]
    BY <1>13, <2>1 DEF PlaceRaises, tableVars
  <2>4. call.req \in Requests \union {NoReq}
    BY DEF TypeOK, Calls
  <2>5. \/ UNCHANGED <<border, trades, posBroker>>
        \/ \E fill \in 0..call.req.qty : Accept(o, call.req, fill)
    BY <1>13, <2>1 DEF PlaceRaises
  <2>6. border'[o].st # "none" \/ border'[o] = border[o]
    BY <2>4, <2>5, AcceptOrLost
  <2>7. \A p \in Orders \ {o} : border'[p] = border[p]
    BY <2>5 DEF Accept, TypeOK
  <2>8. sends'[o] = 1 /\ \A p \in Orders \ {o} : sends'[p] = sends[p]
    BY <2>2, <2>3 DEF TypeOK
  <2>9. RowInv(o)' /\ Agrees(o)'
    BY <2>2, <2>3, <2>6, <2>8, <1>13 DEF RowInv, Agrees, PlaceRaises, Pending, Known
  <2>10. OrdersInv'
    BY <2>3, <2>7, <2>8, <2>9, OneOrder
  <2>11. call'.o = o /\ call'.at = "mark"
    BY <1>13, <2>1 DEF PlaceRaises, TypeOK, Calls
  <2>12. CallInv'
    BY <1>13, <2>2, <2>3, <2>8, <2>11 DEF CallInv, PlaceRaises
  <2>13. QED
    BY <2>10, <2>12
<1>14. CASE Finalize
  <2>1. PICK o \in Orders : o = call.o
    BY <1>14, RunningCall DEF Finalize
  <2>2. RowInv(o) /\ Agrees(o) /\ row[o].intent = "RESERVED" /\ sends[o] = 1
        /\ border[o].st # "none"
    BY <1>14, <2>1 DEF Finalize, OrdersInv, CallInv
  <2>3. row[o] \in Rows
    BY DEF TypeOK
  <2>4. row'[o] = [row[o] EXCEPT !.intent = "FILLED", !.order = "FILLED",
                               !.delivery = "CONFIRMED", !.bid = TRUE,
                               !.resv = "CONSUMED"]
    BY <1>14, <2>1 DEF Finalize, TypeOK, Settled
  <2>5. /\ \A p \in Orders \ {o} : row'[p] = row[p]
        /\ UNCHANGED <<border, sends, cancels>>
    BY <1>14, <2>1 DEF Finalize, brokerVars, histVars, TypeOK, Settled
  <2>6. /\ row'[o].intent = "FILLED" /\ row'[o].order = "FILLED"
        /\ row'[o].delivery = "CONFIRMED"
        /\ row'[o].bid = TRUE /\ row'[o].resv = "CONSUMED"
    BY <2>3, <2>4 DEF Rows
  <2>7. RowInv(o)' /\ Agrees(o)'
    <3>1. row'[o] # NoRow
      BY <2>6 DEF NoRow
    <3>2. RowInv(o)'
      BY <2>2, <2>5, <2>6, <3>1 DEF RowInv, Pending, Known
    <3>3. Agrees(o)'
      BY <2>2, <2>6 DEF Agrees
    <3>4. QED
      BY <3>2, <3>3
  <2>8. OrdersInv'
    BY <2>5, <2>7, OneOrder
  <2>9. CallInv'
    BY <1>14, IdleInv DEF Finalize
  <2>10. QED
    BY <2>8, <2>9
<1>15. CASE FinalizeFails
  <2>1. OrdersInv'
    BY <1>15, NoOrderTouched DEF FinalizeFails, tableVars, brokerVars, histVars
  <2>2. /\ call'.at = "mark" /\ call'.o = call.o
        /\ row'[call'.o].intent = "RESERVED" /\ sends'[call'.o] = 1
    BY <1>15 DEF FinalizeFails, tableVars, histVars, CallInv, TypeOK, Calls
  <2>3. CallInv'
    BY <2>2 DEF CallInv
  <2>4. QED
    BY <2>1, <2>3
<1>16. CASE MarkUnknown
  <2>1. PICK o \in Orders : o = call.o
    BY <1>16, RunningCall DEF MarkUnknown
  <2>2. RowInv(o) /\ Agrees(o) /\ row[o].intent \in {"RESERVED", "UNKNOWN"}
    BY <1>16, <2>1 DEF MarkUnknown, OrdersInv, CallInv
  <2>3. row[o] \in Rows
    BY DEF TypeOK
  <2>4. row'[o] = [row[o] EXCEPT !.intent = "UNKNOWN", !.order = "UNKNOWN",
                               !.delivery = "MAY_HAVE_BEEN_ACCEPTED"]
    BY <1>16, <2>1 DEF MarkUnknown, TypeOK, MarkedUnknown
  <2>5. /\ \A p \in Orders \ {o} : row'[p] = row[p]
        /\ UNCHANGED <<border, sends, cancels>>
    BY <1>16, <2>1 DEF MarkUnknown, brokerVars, histVars, TypeOK, MarkedUnknown
  <2>6. /\ row'[o].intent = "UNKNOWN" /\ row'[o].order = "UNKNOWN"
        /\ row'[o].delivery = "MAY_HAVE_BEEN_ACCEPTED"
        /\ row'[o].bid = row[o].bid /\ row'[o].resv = row[o].resv
    BY <2>3, <2>4 DEF Rows
  <2>7. RowInv(o)' /\ Agrees(o)'
    <3>1. row'[o] # NoRow
      BY <2>6 DEF NoRow
    <3>2. RowInv(o)'
      BY <2>2, <2>5, <2>6, <3>1 DEF RowInv, Pending, Known
    <3>3. Agrees(o)'
      BY <2>2, <2>6 DEF Agrees
    <3>4. QED
      BY <3>2, <3>3
  <2>8. OrdersInv'
    BY <2>5, <2>7, OneOrder
  <2>9. CallInv'
    BY <1>16, IdleInv DEF MarkUnknown
  <2>10. QED
    BY <2>8, <2>9
<1>17. CASE MarkUnknownFails
  BY <1>17, NoOrderTouched, IdleInv
     DEF MarkUnknownFails, tableVars, brokerVars, histVars
<1>35. CASE NotSentFails
  BY <1>35, NoOrderTouched, IdleInv
     DEF NotSentFails, tableVars, brokerVars, histVars
<1>18. ASSUME NEW o \in Orders, BeginResolve(o)
      PROVE  OrdersInv' /\ CallInv'
  <2>1. OrdersInv'
    BY <1>18, NoOrderTouched DEF BeginResolve, tableVars, brokerVars, histVars
  <2>2. call'.at = "query" /\ call'.o = o /\ row'[o].intent = "UNKNOWN"
    BY <1>18 DEF BeginResolve, tableVars, Idle
  <2>3. CallInv'
    BY <2>2 DEF CallInv
  <2>4. QED
    BY <2>1, <2>3
<1>19. CASE QueryFinds
  <2>1. PICK o \in Orders : o = call.o
    BY <1>19, RunningCall DEF QueryFinds
  <2>2. OrdersInv' /\ UNCHANGED <<row, border, sends>>
    BY <1>19, NoOrderTouched DEF QueryFinds, tableVars, brokerVars, histVars
  <2>3. row[o].intent = "UNKNOWN" /\ border[o].st # "none" /\ sends[o] = 1
    BY <1>19, <2>1 DEF QueryFinds, CallInv, OrdersInv, RowInv
  <2>4. call'.at = "resolve" /\ call'.o = o
    BY <1>19, <2>1 DEF QueryFinds, TypeOK, Calls
  <2>5. CallInv'
    BY <2>2, <2>3, <2>4 DEF CallInv
  <2>6. QED
    BY <2>2, <2>5
<1>20. CASE QueryMisses
  <2>1. PICK o \in Orders : o = call.o
    BY <1>20, RunningCall DEF QueryMisses
  <2>2. OrdersInv' /\ UNCHANGED row
    BY <1>20, NoOrderTouched DEF QueryMisses, tableVars, brokerVars, histVars
  <2>3. row[o].intent = "UNKNOWN"
    BY <1>20, <2>1 DEF QueryMisses, CallInv
  <2>4. call'.at = "resolve" /\ call'.o = o /\ call'.ans = NoAns
    BY <1>20, <2>1 DEF QueryMisses, TypeOK, Calls
  <2>5. CallInv'
    BY <2>2, <2>3, <2>4 DEF CallInv
  <2>6. QED
    BY <2>2, <2>5
<1>21. CASE ResolveFound
  <2>1. PICK o \in Orders : o = call.o
    BY <1>21, RunningCall DEF ResolveFound
  <2>2. /\ RowInv(o) /\ Agrees(o) /\ row[o].intent = "UNKNOWN"
        /\ sends[o] = 1 /\ border[o].st # "none"
    BY <1>21, <2>1 DEF ResolveFound, OrdersInv, CallInv
  <2>3. PICK new \in {"FILLED", "ACKNOWLEDGED"} : row' = Settled(o, new)
    BY <1>21, <2>1 DEF ResolveFound
  <2>4. row'[o] = [row[o] EXCEPT !.intent = new, !.order = new,
                               !.delivery = "CONFIRMED", !.bid = TRUE,
                               !.resv = "CONSUMED"]
    BY <2>3 DEF Settled, TypeOK
  <2>5. \A p \in Orders \ {o} : row'[p] = row[p]
    BY <2>3 DEF Settled, TypeOK
  <2>6. UNCHANGED <<border, sends, cancels>>
    BY <1>21 DEF ResolveFound, brokerVars, histVars
  <2>7. row[o] \in Rows
    BY DEF TypeOK
  <2>8. /\ row'[o].intent = new /\ row'[o].order = new
        /\ row'[o].delivery = "CONFIRMED"
        /\ row'[o].bid = TRUE /\ row'[o].resv = "CONSUMED"
    BY <2>4, <2>7 DEF Rows
  <2>9. RowInv(o)' /\ Agrees(o)'
    <3>1. row'[o] # NoRow
      BY <2>2, <2>3, <2>6, <2>8 DEF NoRow
    <3>2. RowInv(o)'
      BY <2>2, <2>3, <2>6, <2>8, <3>1 DEF RowInv, Pending, Known
    <3>3. Agrees(o)'
      BY <2>2, <2>3, <2>6, <2>8 DEF Agrees
    <3>4. QED
      BY <3>2, <3>3
  <2>10. OrdersInv'
    BY <2>5, <2>6, <2>9, OneOrder
  <2>11. CallInv'
    BY <1>21, IdleInv DEF ResolveFound
  <2>12. QED
    BY <2>10, <2>11
<1>22. CASE ResolveNotFound
  <2>1. PICK o \in Orders : o = call.o
    BY <1>22, RunningCall DEF ResolveNotFound
  <2>2. RowInv(o) /\ Agrees(o) /\ row[o].intent = "UNKNOWN"
    BY <1>22, <2>1 DEF ResolveNotFound, OrdersInv, CallInv
  <2>3. row[o] \in Rows
    BY DEF TypeOK
  <2>4. row'[o] = [row[o] EXCEPT !.intent = "UNKNOWN", !.delivery = "MAY_HAVE_BEEN_ACCEPTED"]
    BY <1>22, <2>1 DEF ResolveNotFound, TypeOK
  <2>5. /\ \A p \in Orders \ {o} : row'[p] = row[p]
        /\ UNCHANGED <<border, sends, cancels>>
    BY <1>22, <2>1 DEF ResolveNotFound, brokerVars, histVars, TypeOK
  <2>6. /\ row'[o].intent = "UNKNOWN" /\ row'[o].order = row[o].order
        /\ row'[o].delivery = "MAY_HAVE_BEEN_ACCEPTED"
        /\ row'[o].bid = row[o].bid /\ row'[o].resv = row[o].resv
    BY <2>3, <2>4 DEF Rows
  <2>7. RowInv(o)' /\ Agrees(o)'
    <3>1. row'[o] # NoRow
      BY <2>6 DEF NoRow
    <3>2. RowInv(o)'
      BY <2>2, <2>5, <2>6, <3>1 DEF RowInv, Pending, Known
    <3>3. Agrees(o)'
      BY <2>2, <2>6 DEF Agrees
    <3>4. QED
      BY <3>2, <3>3
  <2>8. OrdersInv'
    BY <2>5, <2>7, OneOrder
  <2>9. CallInv'
    BY <1>22, IdleInv DEF ResolveNotFound
  <2>10. QED
    BY <2>8, <2>9
<1>23. CASE ResolveFails
  BY <1>23, NoOrderTouched, IdleInv
     DEF ResolveFails, tableVars, brokerVars, histVars
<1>24. ASSUME NEW o \in Orders, BeginCancel(o)
      PROVE  OrdersInv' /\ CallInv'
  <2>1. /\ RowInv(o) /\ Agrees(o) /\ row[o].intent = "ACKNOWLEDGED"
    BY <1>24 DEF BeginCancel, OrdersInv
  <2>2. row[o] \in Rows
    BY DEF TypeOK
  <2>3. row'[o] = [row[o] EXCEPT !.intent = "CANCEL_REQUESTED",
                               !.order = "CANCEL_REQUESTED"]
    BY <1>24 DEF BeginCancel, TypeOK
  <2>4. /\ \A p \in Orders \ {o} : row'[p] = row[p]
        /\ UNCHANGED <<border, sends, cancels>>
    BY <1>24 DEF BeginCancel, brokerVars, histVars, TypeOK
  <2>5. /\ row'[o].intent = "CANCEL_REQUESTED" /\ row'[o].order = "CANCEL_REQUESTED"
        /\ row'[o].delivery = row[o].delivery
        /\ row'[o].bid = row[o].bid /\ row'[o].resv = row[o].resv
    BY <2>2, <2>3 DEF Rows
  <2>6. RowInv(o)' /\ Agrees(o)'
    <3>1. row'[o] # NoRow
      BY <2>1, <2>4, <2>5 DEF NoRow
    <3>2. RowInv(o)'
      BY <2>1, <2>4, <2>5, <3>1 DEF RowInv, Pending, Known
    <3>3. Agrees(o)'
      BY <2>1, <2>4, <2>5 DEF Agrees
    <3>4. QED
      BY <3>2, <3>3
  <2>7. OrdersInv'
    BY <2>4, <2>6, OneOrder
  <2>8. call'.at = "cancel" /\ call'.o = o /\ call'.ans = NoAns
    BY <1>24 DEF BeginCancel, Idle
  <2>9. cancels[o] = 0
    BY <2>1 DEF RowInv, TypeOK
  <2>10. CallInv'
    BY <2>2, <2>3, <2>4, <2>8, <2>9 DEF CallInv, Rows
  <2>11. QED
    BY <2>7, <2>10
<1>25. CASE CancelAnswered
  <2>1. PICK o \in Orders : o = call.o
    BY <1>25, RunningCall DEF CancelAnswered
  <2>2. RowInv(o) /\ Agrees(o) /\ cancels[o] = 0 /\ row[o].intent = "CANCEL_REQUESTED"
    BY <1>25, <2>1 DEF CancelAnswered, OrdersInv, CallInv
  <2>3. UNCHANGED <<row, sends>> /\ cancels' = [cancels EXCEPT ![o] = cancels[o] + 1]
    BY <1>25, <2>1 DEF CancelAnswered, tableVars
  <2>4. \/ border' = border
        \/ /\ border[o].st = "open"
           /\ border' = [border EXCEPT ![o] = [border[o] EXCEPT !.st = "canceled"]]
    BY <1>25, <2>1 DEF CancelAnswered
  <2>5. border[o] \in BrokerOrders
    BY DEF TypeOK
  <2>6. \/ border'[o] = border[o]
        \/ border[o].st = "open" /\ border'[o].st = "canceled"
    BY <2>4, <2>5 DEF TypeOK, BrokerOrders
  <2>7. \A p \in Orders \ {o} : border'[p] = border[p]
    BY <2>4 DEF TypeOK
  <2>8. cancels'[o] = 1 /\ \A p \in Orders \ {o} : cancels'[p] = cancels[p]
    BY <2>2, <2>3 DEF TypeOK
  <2>9. RowInv(o)' /\ Agrees(o)'
    BY <2>2, <2>3, <2>6, <2>8 DEF RowInv, Agrees, Pending, Known
  <2>10. OrdersInv'
    BY <2>3, <2>7, <2>8, <2>9, OneOrder
  <2>11. call'.o = o /\ call'.at = "cancel_persist"
    BY <1>25, <2>1 DEF CancelAnswered, TypeOK, Calls
  <2>12. \/ call' = [call EXCEPT !.at = "cancel_persist", !.ans = Normalize(border'[o])]
         \/ call' = [call EXCEPT !.at = "cancel_persist",
                                 !.ans = [state |-> "NOT_FOUND", filled |-> 0]]
    BY <1>25, <2>1 DEF CancelAnswered
  <2>13. border'[o] \in BrokerOrders
    BY DEF TypeOK
  <2>14. call'.ans.state = "CANCELED" => border'[o].st # "open"
    <3>1. \/ call'.ans = Normalize(border'[o])
          \/ call'.ans = [state |-> "NOT_FOUND", filled |-> 0]
      BY <2>12 DEF TypeOK, Calls
    <3>2. Normalize(border'[o]).state = "CANCELED" <=> border'[o].st = "canceled"
      BY <2>13, NormalizeType
    <3>3. QED
      BY <3>1, <3>2
  <2>15. CallInv'
    BY <2>2, <2>3, <2>11, <2>14 DEF CallInv
  <2>16. QED
    BY <2>10, <2>15
<1>26. CASE CancelRaises
  <2>1. PICK o \in Orders : o = call.o
    BY <1>26, RunningCall DEF CancelRaises
  <2>2. RowInv(o) /\ Agrees(o) /\ cancels[o] = 0 /\ row[o].intent = "CANCEL_REQUESTED"
    BY <1>26, <2>1 DEF CancelRaises, OrdersInv, CallInv
  <2>3. UNCHANGED <<row, sends>> /\ cancels' = [cancels EXCEPT ![o] = cancels[o] + 1]
    BY <1>26, <2>1 DEF CancelRaises, tableVars
  <2>4. \/ border' = border
        \/ /\ border[o].st = "open"
           /\ border' = [border EXCEPT ![o] = [border[o] EXCEPT !.st = "canceled"]]
    BY <1>26, <2>1 DEF CancelRaises
  <2>5. border[o] \in BrokerOrders
    BY DEF TypeOK
  <2>6. \/ border'[o] = border[o]
        \/ border[o].st = "open" /\ border'[o].st = "canceled"
    BY <2>4, <2>5 DEF TypeOK, BrokerOrders
  <2>7. \A p \in Orders \ {o} : border'[p] = border[p]
    BY <2>4 DEF TypeOK
  <2>8. cancels'[o] = 1 /\ \A p \in Orders \ {o} : cancels'[p] = cancels[p]
    BY <2>2, <2>3 DEF TypeOK
  <2>9. RowInv(o)' /\ Agrees(o)'
    BY <2>2, <2>3, <2>6, <2>8 DEF RowInv, Agrees, Pending, Known
  <2>10. OrdersInv'
    BY <2>3, <2>7, <2>8, <2>9, OneOrder
  <2>11. call'.o = o /\ call'.at = "cancel_persist"
    BY <1>26, <2>1 DEF CancelRaises, TypeOK, Calls
  <2>12. call'.ans = NoAns
    BY <1>26 DEF CancelRaises, CallInv, TypeOK, Calls
  <2>13. CallInv'
    BY <2>2, <2>3, <2>11, <2>12 DEF CallInv, NoAns
  <2>14. QED
    BY <2>10, <2>13
<1>27. CASE CancelPersist
  <2>1. PICK o \in Orders : o = call.o
    BY <1>27, RunningCall DEF CancelPersist
  <2>2. /\ RowInv(o) /\ Agrees(o) /\ row[o].intent = "CANCEL_REQUESTED"
        /\ call.ans.state = "CANCELED" => border[o].st # "open"
    BY <1>27, <2>1 DEF CancelPersist, OrdersInv, CallInv
  <2>3. PICK new \in {"FILLED", "CANCELED", "CANCEL_UNKNOWN"} : new = CancelOutcome(call.ans)
    BY DEF CancelOutcome
  <2>4. row[o] \in Rows
    BY DEF TypeOK
  <2>5. row'[o] = [row[o] EXCEPT !.intent = new, !.order = new,
                               !.delivery = IF new = "CANCEL_UNKNOWN"
                                            THEN "MAY_HAVE_BEEN_ACCEPTED" ELSE "CONFIRMED"]
    BY <1>27, <2>1, <2>3 DEF CancelPersist, TypeOK
  <2>6. /\ \A p \in Orders \ {o} : row'[p] = row[p]
        /\ UNCHANGED <<border, sends, cancels>>
    BY <1>27, <2>1 DEF CancelPersist, brokerVars, histVars, TypeOK
  <2>7. new = "CANCELED" => border[o].st # "open"
    BY <2>2, <2>3 DEF CancelOutcome
  <2>8. /\ row'[o].intent = new /\ row'[o].order = new
        /\ row'[o].delivery = (IF new = "CANCEL_UNKNOWN"
                                THEN "MAY_HAVE_BEEN_ACCEPTED" ELSE "CONFIRMED")
        /\ row'[o].bid = row[o].bid /\ row'[o].resv = row[o].resv
    BY <2>4, <2>5 DEF Rows
  <2>9. RowInv(o)' /\ Agrees(o)'
    <3>1. row'[o] # NoRow
      BY <2>2, <2>3, <2>6, <2>7, <2>8 DEF NoRow
    <3>2. RowInv(o)'
      BY <2>2, <2>3, <2>6, <2>7, <2>8, <3>1 DEF RowInv, Pending, Known
    <3>3. Agrees(o)'
      BY <2>2, <2>3, <2>6, <2>7, <2>8 DEF Agrees
    <3>4. QED
      BY <3>2, <3>3
  <2>10. OrdersInv'
    BY <2>6, <2>9, OneOrder
  <2>11. CallInv'
    BY <1>27, IdleInv DEF CancelPersist
  <2>12. QED
    BY <2>10, <2>11
<1>28. CASE CancelPersistFails
  BY <1>28, NoOrderTouched, IdleInv
     DEF CancelPersistFails, tableVars, brokerVars, histVars
<1>29. CASE BeginReconcile
  <2>1. OrdersInv'
    BY <1>29, NoOrderTouched DEF BeginReconcile, tableVars, brokerVars, histVars
  <2>2. call'.at = "reconcile"
    BY <1>29 DEF BeginReconcile, Idle
  <2>3. CallInv'
    BY <2>2 DEF CallInv
  <2>4. QED
    BY <2>1, <2>3
<1>30. CASE ReconcileCommit
  BY <1>30, NoOrderTouched, IdleInv
     DEF ReconcileCommit, tableVars, brokerVars, histVars
<1>31. CASE ReconcileFails
  BY <1>31, NoOrderTouched, IdleInv
     DEF ReconcileFails, tableVars, brokerVars, histVars
<1>32. ASSUME NEW o \in Orders, BrokerExecute(o)
      PROVE  OrdersInv' /\ CallInv'
  <2>1. UNCHANGED <<row, sends, cancels, call>>
    BY <1>32 DEF BrokerExecute, tableVars, histVars
  <2>2. border[o] \in BrokerOrders /\ border[o].st = "open"
    BY <1>32 DEF TypeOK, BrokerExecute
  <2>3. /\ border'[o].st \in {"open", "closed"}
        /\ \A p \in Orders \ {o} : border'[p] = border[p]
    BY <1>32, <2>2 DEF BrokerExecute, TypeOK, BrokerOrders
  <2>4. RowInv(o)' /\ Agrees(o)'
    BY <2>1, <2>2, <2>3 DEF OrdersInv, RowInv, Agrees
  <2>5. OrdersInv'
    BY <2>1, <2>3, <2>4, OneOrder
  <2>6. call.at \in {"finalize", "resolve", "cancel_persist"} => call.o \in Orders
    BY RunningCall
  <2>7. CallInv'
    BY <2>1, <2>2, <2>3, <2>6 DEF CallInv
  <2>8. QED
    BY <2>5, <2>7
<1>33. CASE ExternalTrade
  <2>1. UNCHANGED <<row, border, sends, cancels, call>>
    BY <1>33 DEF ExternalTrade, tableVars, brokerVars, histVars
  <2>2. QED
    BY <2>1, NoOrderTouched DEF CallInv
<1>34. CASE UNCHANGED vars
  BY <1>34, NoOrderTouched DEF vars, tableVars, brokerVars, histVars, CallInv
<1>36. QED
  BY <1>1, <1>2, <1>3, <1>4, <1>5, <1>6, <1>7, <1>8, <1>9, <1>10, <1>11,
     <1>12, <1>13, <1>14, <1>15, <1>16, <1>17, <1>18, <1>19, <1>20, <1>21,
     <1>22, <1>23, <1>24, <1>25, <1>26, <1>27, <1>28, <1>29, <1>30, <1>31,
     <1>32, <1>33, <1>34, <1>35
     DEF Next, Lifetime, Submit, Resolve, Cancel, Reconcile, Broker

\* The inductive invariant holds of every reachable state.
THEOREM InvariantHolds == Spec => [](TypeOK /\ IInv)
<1>1. Init => IInv
  <2> SUFFICES ASSUME Init PROVE IInv
    OBVIOUS
  <2>1. CallInv
    BY DEF Init, Idle, NoAns, CallInv
  <2>2. ASSUME NEW o \in Orders PROVE RowInv(o) /\ Agrees(o)
    <3>1. row[o] = NoRow /\ sends[o] = 0 /\ cancels[o] = 0 /\ border[o].st = "none"
      BY DEF Init, NoBrokerOrder
    <3>2. QED
      BY <3>1 DEF RowInv, Agrees, NoRow, Pending, Known
  <2>3. QED
    BY <2>1, <2>2 DEF IInv, RowsAgree, Agrees
<1>2. TypeOK /\ TypeOK' /\ IInv /\ [Next]_vars => IInv'
  BY IInvStep
<1>3. QED
  BY <1>1, <1>2, TypeCorrect, PTL DEF Spec

(***************************************************************************)
(* The safety properties                                                   *)
(***************************************************************************)

\* Nothing reaches the adapter, or sits at the broker, before its intent and
\* its reservation are committed.
THEOREM CommitBeforeSend == Spec => []SentAfterCommit
<1>1. TypeOK /\ IInv => SentAfterCommit
  BY DEF TypeOK, IInv, RowInv, SentAfterCommit
<1>2. QED
  BY <1>1, InvariantHolds, PTL

\* Over any number of crashes, failed transactions and unknown outcomes an
\* order is placed at most once and cancelled at most once.
THEOREM NoBlindRetry == Spec => []AtMostOnce
<1>1. IInv => AtMostOnce
  BY DEF IInv, RowInv, AtMostOnce
<1>2. QED
  BY <1>1, InvariantHolds, PTL

\* A sent order is covered by its reservation until the broker's id is on file.
THEOREM SentIsCovered == Spec => []ExposureCovered
<1>1. TypeOK /\ IInv => ExposureCovered
  BY DEF TypeOK, IInv, RowInv, ExposureCovered, Pending, Known
<1>2. QED
  BY <1>1, InvariantHolds, PTL

\* A stored SUBMITTING means that no broker has the order or will get it.
THEOREM SubmittingMeansNotSent == Spec => []SubmittingNeverSent
<1>1. TypeOK /\ IInv => SubmittingNeverSent
  BY DEF TypeOK, IInv, RowInv, SubmittingNeverSent, Known
<1>2. QED
  BY <1>1, InvariantHolds, PTL

\* What is stored as CONFIRMED the exchange has, and what is stored as CANCELED
\* can no longer trade.
THEOREM ConfirmedOrdersExist == Spec => []ConfirmedIsReal
<1>1. IInv => ConfirmedIsReal
  <2> SUFFICES ASSUME IInv, NEW o \in Orders
               PROVE  /\ ~Paper /\ row[o].delivery = "CONFIRMED" => border[o].st # "none"
                      /\ row[o].intent = "CANCELED" => border[o].st # "open"
    BY DEF ConfirmedIsReal
  <2>1. RowInv(o) /\ Agrees(o)
    BY DEF IInv, RowsAgree, Agrees
  <2>2. row[o].delivery = "CONFIRMED" => row[o].intent \in Known
    BY <2>1 DEF Agrees, Known
  <2>3. QED
    BY <2>1, <2>2 DEF RowInv
<1>2. QED
  BY <1>1, InvariantHolds, PTL

\* The intent row, the order row and the delivery axis never contradict.
THEOREM RowsNeverContradict == Spec => []RowsAgree
<1>1. IInv => RowsAgree
  BY DEF IInv
<1>2. QED
  BY <1>1, InvariantHolds, PTL

(***************************************************************************)
(* What a step may do to an order                                          *)
(***************************************************************************)

OnlyOrder(o) ==
  \A p \in Orders \ {o} : row'[p] = row[p] /\ sends'[p] = sends[p]

Commits(o) == /\ row[o].intent = "CREATED" /\ row[o].resv = "NONE"
              /\ row'[o].intent = "RESERVED" /\ row'[o].resv = "HELD"
              /\ sends[o] = 0 /\ UNCHANGED sends
Defers(o) == /\ row[o].resv = "HELD" /\ row'[o].resv = "HELD"
             /\ \/ /\ row[o].intent = "RESERVED" /\ row'[o].intent = "SUBMITTING"
                   /\ sends[o] = 0
                \/ /\ row[o].intent = "RESERVED" /\ row'[o].intent = "UNKNOWN"
                   /\ sends[o] = 1 \/ Hooks
                \/ row[o].intent = "UNKNOWN" /\ row'[o].intent = "UNKNOWN"
             /\ UNCHANGED sends
Places(o) == /\ row[o].resv = "HELD" /\ UNCHANGED row
             /\ sends[o] = 0 /\ sends'[o] = 1
Settles(o) == /\ \/ row[o].intent = "RESERVED" /\ row'[o].intent = "FILLED"
                 \/ /\ row[o].intent = "UNKNOWN"
                    /\ row'[o].intent \in {"ACKNOWLEDGED", "FILLED"}
              /\ row[o].resv = "HELD" /\ row'[o].resv = "CONSUMED"
              /\ sends[o] = 1 /\ UNCHANGED sends
Advances(o) == /\ \/ /\ row[o].intent = "ACKNOWLEDGED"
                     /\ row'[o].intent = "CANCEL_REQUESTED"
                  \/ /\ row[o].intent = "CANCEL_REQUESTED"
                     /\ row'[o].intent \in {"FILLED", "CANCELED", "CANCEL_UNKNOWN"}
               /\ row'[o].resv = row[o].resv
               /\ UNCHANGED sends

Move ==
  \/ UNCHANGED <<row, sends>>
  \/ \E o \in Orders :
       /\ OnlyOrder(o)
       /\ Commits(o) \/ Defers(o) \/ Places(o) \/ Settles(o) \/ Advances(o)

\* Every step of the program moves at most one order, along one of five edges.
LEMMA StepMoves == TypeOK /\ IInv /\ [Next]_vars => Move
<1> SUFFICES ASSUME TypeOK, IInv, [Next]_vars
             PROVE  Move
  OBVIOUS
<1>1. CASE Startup
  BY <1>1 DEF Startup, Recover, Move, tableVars, histVars
<1>2. CASE SoakResume
  BY <1>2 DEF SoakResume, Recover, Move, tableVars, histVars
<1>3. CASE OpenPipeline
  BY <1>3 DEF OpenPipeline, Move, tableVars, histVars
<1>4. CASE Disconnect
  BY <1>4 DEF Disconnect, Move, tableVars, histVars
<1>5. CASE Crash
  BY <1>5 DEF Crash, Move, tableVars, histVars
<1>6. ASSUME NEW o \in Orders, NEW req \in Requests, BeginSubmit(o, req)
      PROVE  Move
  BY <1>6 DEF BeginSubmit, Move, tableVars, histVars
<1>7. CASE CommitIntent
  <2>1. PICK o \in Orders : o = call.o
    BY <1>7, RunningCall DEF CommitIntent
  <2>2. row[o] \in Rows /\ RowInv(o) /\ row[o] = NoRow
    BY <1>7, <2>1 DEF CommitIntent, TypeOK, IInv, CallInv
  <2>3. OnlyOrder(o) /\ UNCHANGED sends
    BY <1>7, <2>1 DEF CommitIntent, OnlyOrder, TypeOK, histVars
  <2>4. Commits(o)
    BY <1>7, <2>1, <2>2, <2>3
       DEF CommitIntent, Commits, RowInv, Pending, Known, NoRow, Rows, TypeOK
  <2>5. QED
    BY <2>3, <2>4 DEF Move
<1>8. CASE CommitFails
  BY <1>8 DEF CommitFails, Move, tableVars, histVars
<1>9. ASSUME NEW hook \in BOOLEAN, NotSent(hook)
      PROVE  Move
  <2>1. PICK o \in Orders : o = call.o
    BY <1>9, RunningCall DEF NotSent
  <2>2. row[o] \in Rows /\ RowInv(o) /\ row[o].intent = "RESERVED" /\ sends[o] = 0
    BY <1>9, <2>1 DEF NotSent, TypeOK, IInv, CallInv
  <2>3. OnlyOrder(o) /\ UNCHANGED sends
    BY <1>9, <2>1 DEF NotSent, OnlyOrder, TypeOK, histVars
  <2>4. Defers(o)
    BY <1>9, <2>1, <2>2, <2>3
       DEF NotSent, Defers, RowInv, Pending, Known, NoRow, Rows, TypeOK
  <2>5. QED
    BY <2>3, <2>4 DEF Move
<1>10. CASE MarkBeforeSend
  <2>1. PICK o \in Orders : o = call.o
    BY <1>10, RunningCall DEF MarkBeforeSend
  <2>2. row[o] \in Rows /\ RowInv(o) /\ row[o].intent = "RESERVED" /\ Hooks
    BY <1>10, <2>1 DEF MarkBeforeSend, TypeOK, IInv, CallInv
  <2>3. OnlyOrder(o) /\ UNCHANGED sends
    BY <1>10, <2>1 DEF MarkBeforeSend, OnlyOrder, TypeOK, histVars, MarkedUnknown
  <2>4. Defers(o)
    BY <1>10, <2>1, <2>2, <2>3
       DEF MarkBeforeSend, Defers, RowInv, Pending, Known, NoRow, Rows, TypeOK,
           MarkedUnknown
  <2>5. QED
    BY <2>3, <2>4 DEF Move
<1>11. CASE MarkBeforeSendFails
  BY <1>11 DEF MarkBeforeSendFails, Move, tableVars, histVars
<1>12. CASE PlaceAnswered
  <2>1. PICK o \in Orders : o = call.o
    BY <1>12, RunningCall DEF PlaceAnswered
  <2>2. RowInv(o) /\ row[o].intent \in Pending /\ sends[o] = 0
    BY <1>12, <2>1 DEF PlaceAnswered, IInv, CallInv, Pending
  <2>3. UNCHANGED row /\ sends' = [sends EXCEPT ![o] = sends[o] + 1]
    BY <1>12, <2>1 DEF PlaceAnswered, tableVars
  <2>4. OnlyOrder(o) /\ sends'[o] = 1
    BY <2>2, <2>3 DEF OnlyOrder, TypeOK
  <2>5. Places(o)
    BY <2>2, <2>3, <2>4 DEF Places, RowInv
  <2>6. QED
    BY <2>4, <2>5 DEF Move
<1>13. CASE PlaceRaises
  <2>1. PICK o \in Orders : o = call.o
    BY <1>13, RunningCall DEF PlaceRaises
  <2>2. RowInv(o) /\ row[o].intent \in Pending /\ sends[o] = 0
    BY <1>13, <2>1 DEF PlaceRaises, IInv, CallInv, Pending
  <2>3. UNCHANGED row /\ sends' = [sends EXCEPT ![o] = sends[o] + 1]
    BY <1>13, <2>1 DEF PlaceRaises, tableVars
  <2>4. OnlyOrder(o) /\ sends'[o] = 1
    BY <2>2, <2>3 DEF OnlyOrder, TypeOK
  <2>5. Places(o)
    BY <2>2, <2>3, <2>4 DEF Places, RowInv
  <2>6. QED
    BY <2>4, <2>5 DEF Move
<1>14. CASE Finalize
  <2>1. PICK o \in Orders : o = call.o
    BY <1>14, RunningCall DEF Finalize
  <2>2. row[o] \in Rows /\ RowInv(o) /\ row[o].intent = "RESERVED" /\ sends[o] = 1
    BY <1>14, <2>1 DEF Finalize, TypeOK, IInv, CallInv
  <2>3. OnlyOrder(o) /\ UNCHANGED sends
    BY <1>14, <2>1 DEF Finalize, OnlyOrder, TypeOK, histVars, Settled
  <2>4. Settles(o)
    BY <1>14, <2>1, <2>2, <2>3
       DEF Finalize, Settles, RowInv, Pending, Known, NoRow, Rows, TypeOK,
           Settled
  <2>5. QED
    BY <2>3, <2>4 DEF Move
<1>15. CASE FinalizeFails
  BY <1>15 DEF FinalizeFails, Move, tableVars, histVars
<1>16. CASE MarkUnknown
  <2>1. PICK o \in Orders : o = call.o
    BY <1>16, RunningCall DEF MarkUnknown
  <2>2. /\ row[o] \in Rows /\ RowInv(o) /\ row[o].intent \in {"RESERVED", "UNKNOWN"}
        /\ sends[o] = 1 \/ Hooks
    BY <1>16, <2>1 DEF MarkUnknown, TypeOK, IInv, CallInv
  <2>3. OnlyOrder(o) /\ UNCHANGED sends
    BY <1>16, <2>1 DEF MarkUnknown, OnlyOrder, TypeOK, histVars, MarkedUnknown
  <2>4. Defers(o)
    BY <1>16, <2>1, <2>2, <2>3
       DEF MarkUnknown, Defers, RowInv, Pending, Known, NoRow, Rows, TypeOK,
           MarkedUnknown
  <2>5. QED
    BY <2>3, <2>4 DEF Move
<1>17. CASE MarkUnknownFails
  BY <1>17 DEF MarkUnknownFails, Move, tableVars, histVars
<1>35. CASE NotSentFails
  BY <1>35 DEF NotSentFails, Move, tableVars, histVars
<1>18. ASSUME NEW o \in Orders, BeginResolve(o)
      PROVE  Move
  BY <1>18 DEF BeginResolve, Move, tableVars, histVars
<1>19. CASE QueryFinds
  BY <1>19 DEF QueryFinds, Move, tableVars, histVars
<1>20. CASE QueryMisses
  BY <1>20 DEF QueryMisses, Move, tableVars, histVars
<1>21. CASE ResolveFound
  <2>1. PICK o \in Orders : o = call.o
    BY <1>21, RunningCall DEF ResolveFound
  <2>2. row[o] \in Rows /\ RowInv(o) /\ row[o].intent = "UNKNOWN" /\ sends[o] = 1
    BY <1>21, <2>1 DEF ResolveFound, TypeOK, IInv, CallInv
  <2>3. OnlyOrder(o) /\ UNCHANGED sends
    BY <1>21, <2>1 DEF ResolveFound, OnlyOrder, TypeOK, histVars, Settled
  <2>4. Settles(o)
    BY <1>21, <2>1, <2>2, <2>3
       DEF ResolveFound, Settles, RowInv, Pending, Known, NoRow, Rows, TypeOK,
           Settled
  <2>5. QED
    BY <2>3, <2>4 DEF Move
<1>22. CASE ResolveNotFound
  <2>1. PICK o \in Orders : o = call.o
    BY <1>22, RunningCall DEF ResolveNotFound
  <2>2. row[o] \in Rows /\ RowInv(o) /\ row[o].intent = "UNKNOWN"
    BY <1>22, <2>1 DEF ResolveNotFound, TypeOK, IInv, CallInv
  <2>3. OnlyOrder(o) /\ UNCHANGED sends
    BY <1>22, <2>1 DEF ResolveNotFound, OnlyOrder, TypeOK, histVars
  <2>4. Defers(o)
    BY <1>22, <2>1, <2>2, <2>3
       DEF ResolveNotFound, Defers, RowInv, Pending, Known, NoRow, Rows, TypeOK
  <2>5. QED
    BY <2>3, <2>4 DEF Move
<1>23. CASE ResolveFails
  BY <1>23 DEF ResolveFails, Move, tableVars, histVars
<1>24. ASSUME NEW o \in Orders, BeginCancel(o)
      PROVE  Move
  <2>2. row[o] \in Rows /\ RowInv(o) /\ row[o].intent = "ACKNOWLEDGED"
    BY <1>24 DEF BeginCancel, TypeOK, IInv, CallInv
  <2>3. OnlyOrder(o) /\ UNCHANGED sends
    BY <1>24 DEF BeginCancel, OnlyOrder, TypeOK, histVars
  <2>4. Advances(o)
    BY <1>24, <2>2, <2>3
       DEF BeginCancel, Advances, RowInv, Pending, Known, NoRow, Rows, TypeOK
  <2>5. QED
    BY <2>3, <2>4 DEF Move
<1>25. CASE CancelAnswered
  BY <1>25 DEF CancelAnswered, Move, tableVars, histVars
<1>26. CASE CancelRaises
  BY <1>26 DEF CancelRaises, Move, tableVars, histVars
<1>27. CASE CancelPersist
  <2>1. PICK o \in Orders : o = call.o
    BY <1>27, RunningCall DEF CancelPersist
  <2>2. row[o] \in Rows /\ RowInv(o) /\ row[o].intent = "CANCEL_REQUESTED"
    BY <1>27, <2>1 DEF CancelPersist, TypeOK, IInv, CallInv
  <2>3. OnlyOrder(o) /\ UNCHANGED sends
    BY <1>27, <2>1 DEF CancelPersist, OnlyOrder, TypeOK, histVars, CancelOutcome
  <2>4. Advances(o)
    BY <1>27, <2>1, <2>2, <2>3
       DEF CancelPersist, Advances, RowInv, Pending, Known, NoRow, Rows, TypeOK,
           CancelOutcome
  <2>5. QED
    BY <2>3, <2>4 DEF Move
<1>28. CASE CancelPersistFails
  BY <1>28 DEF CancelPersistFails, Move, tableVars, histVars
<1>29. CASE BeginReconcile
  BY <1>29 DEF BeginReconcile, Move, tableVars, histVars
<1>30. CASE ReconcileCommit
  BY <1>30 DEF ReconcileCommit, Move, tableVars, histVars
<1>31. CASE ReconcileFails
  BY <1>31 DEF ReconcileFails, Move, tableVars, histVars
<1>32. ASSUME NEW o \in Orders, BrokerExecute(o)
      PROVE  Move
  BY <1>32 DEF BrokerExecute, Move, tableVars, histVars
<1>33. CASE ExternalTrade
  BY <1>33 DEF ExternalTrade, Move, tableVars, histVars
<1>34. CASE UNCHANGED vars
  BY <1>34 DEF vars, Move, tableVars, histVars
<1>36. QED
  BY <1>1, <1>2, <1>3, <1>4, <1>5, <1>6, <1>7, <1>8, <1>9, <1>10, <1>11,
     <1>12, <1>13, <1>14, <1>15, <1>16, <1>17, <1>18, <1>19, <1>20, <1>21,
     <1>22, <1>23, <1>24, <1>25, <1>26, <1>27, <1>28, <1>29, <1>30, <1>31,
     <1>32, <1>33, <1>34, <1>35
     DEF Next, Lifetime, Submit, Resolve, Cancel, Reconcile, Broker

\* A late or repeated answer never lowers an intent that has moved further.
THEOREM NeverFallsBack == Spec => StateNeverFallsBack
<1>1. TypeOK /\ IInv /\ [Next]_vars =>
        \A o \in Orders : row'[o].intent # row[o].intent =>
          Progress(row'[o].intent) > Progress(row[o].intent)
  <2> SUFFICES ASSUME TypeOK, IInv, [Next]_vars, NEW o \in Orders,
                      row'[o].intent # row[o].intent
               PROVE  Progress(row'[o].intent) > Progress(row[o].intent)
    OBVIOUS
  <2>1. Commits(o) \/ Defers(o) \/ Settles(o) \/ Advances(o)
    BY StepMoves DEF Move, OnlyOrder, Places
  <2>2. QED
    BY <2>1 DEF Commits, Defers, Settles, Advances, Progress
<1>2. QED
  BY <1>1, InvariantHolds, PTL DEF Spec, StateNeverFallsBack

\* Every edge of the table climbs, so an order that follows it never comes back
\* to a state it has left, and a terminal state is never left.
THEOREM TableClimbs ==
  \A s, t \in IntentState :
    CanTransition(s, t) =>
      Progress(s) < Progress(t)
      /\ s \notin {"RISK_REJECTED", "FILLED", "REJECTED", "CANCELED"}
BY DEF IntentState, CanTransition, Allowed, Progress

\* submit and resolve_unknown write rows without asking fsm.py; they leave its
\* table only out of RESERVED, to FILLED or UNKNOWN, and only for an order that
\* was sent, but for the simulated timeout.
THEOREM StatesLeaveTableOnceSent == Spec => LeavesTableOnceSent
<1> DEFINE Allows(o) ==
      \/ CanTransition(row[o].intent, row'[o].intent)
      \/ row[o].intent = "RESERVED" /\ row'[o].intent = "FILLED" /\ sends[o] = 1
      \/ row[o].intent = "RESERVED" /\ row'[o].intent = "UNKNOWN"
         /\ (sends[o] = 1 \/ Hooks)
<1>1. TypeOK /\ IInv /\ [Next]_vars =>
        \A o \in Orders : row'[o].intent # row[o].intent => Allows(o)
  <2> SUFFICES ASSUME TypeOK, IInv, [Next]_vars, NEW o \in Orders,
                      row'[o].intent # row[o].intent
               PROVE  Allows(o)
    OBVIOUS
  <2>1. Commits(o) \/ Defers(o) \/ Settles(o) \/ Advances(o)
    BY StepMoves DEF Move, OnlyOrder, Places
  <2>2. CASE Commits(o)
    BY <2>2 DEF Commits, CanTransition, Allowed, IntentState
  <2>3. CASE Defers(o)
    BY <2>3 DEF Defers, CanTransition, Allowed, IntentState
  <2>4. CASE Settles(o)
    BY <2>4 DEF Settles, CanTransition, Allowed, IntentState
  <2>5. CASE Advances(o)
    BY <2>5 DEF Advances, CanTransition, Allowed, IntentState
  <2>6. QED
    BY <2>1, <2>2, <2>3, <2>4, <2>5
<1>2. QED
  BY <1>1, InvariantHolds, PTL DEF Spec, LeavesTableOnceSent

\* The order path keeps the promise of OrderDelivery: an order is durable before
\* it is placed, placed once, and settled only when it was placed.
THEOREM KeepsDeliveryPromise == Spec => DeliverySpec
<1>1. Init => Delivery!Init
  BY DEF Init, Delivery!Init, phaseBar, NoRow
<1>2. TypeOK /\ TypeOK' /\ IInv /\ [Next]_vars => [Delivery!Next]_(Delivery!vars)
  <2> SUFFICES ASSUME TypeOK, TypeOK', IInv, [Next]_vars
               PROVE  [Delivery!Next]_(Delivery!vars)
    OBVIOUS
  <2>1. CASE UNCHANGED <<row, sends>>
    BY <2>1 DEF phaseBar, Delivery!vars
  <2>2. ASSUME NEW o \in Orders, OnlyOrder(o),
               Commits(o) \/ Defers(o) \/ Places(o) \/ Settles(o) \/ Advances(o)
        PROVE  [Delivery!Next]_(Delivery!vars)
    <3>1. /\ phaseBar \in [Orders -> {"new", "durable", "settled"}]
          /\ phaseBar' \in [Orders -> {"new", "durable", "settled"}]
          /\ \A p \in Orders \ {o} : phaseBar'[p] = phaseBar[p]
      BY <2>2 DEF phaseBar, OnlyOrder
    <3>2. CASE Commits(o)
      <4>1. phaseBar[o] = "new" /\ phaseBar' = [phaseBar EXCEPT ![o] = "durable"]
        BY <3>1, <3>2 DEF Commits, phaseBar
      <4>2. QED
        BY <3>2, <4>1 DEF Commits, Delivery!Next, Delivery!Commit
    <3>3. CASE Defers(o) \/ Advances(o)
      BY <3>1, <3>3 DEF Defers, Advances, phaseBar, Delivery!vars
    <3>4. CASE Places(o)
      <4>1. phaseBar[o] = "durable" /\ UNCHANGED phaseBar
        BY <3>4 DEF Places, phaseBar
      <4>2. sends' = [sends EXCEPT ![o] = 1]
        <5>1. sends' \in [Orders -> Nat] /\ sends \in [Orders -> Nat]
          BY DEF TypeOK
        <5>2. QED
          BY <2>2, <3>4, <5>1 DEF Places, OnlyOrder
      <4>3. QED
        BY <3>4, <4>1, <4>2 DEF Places, Delivery!Next, Delivery!Place
    <3>5. CASE Settles(o)
      <4>1. phaseBar[o] = "durable" /\ phaseBar' = [phaseBar EXCEPT ![o] = "settled"]
        BY <3>1, <3>5 DEF Settles, phaseBar
      <4>2. QED
        BY <3>5, <4>1 DEF Settles, Delivery!Next, Delivery!Settle
    <3>6. QED
      BY <2>2, <3>2, <3>3, <3>4, <3>5
  <2>3. QED
    BY <2>1, <2>2, StepMoves DEF Move
<1>3. QED
  BY <1>1, <1>2, InvariantHolds, PTL DEF Spec, DeliverySpec, Delivery!Spec

=============================================================================

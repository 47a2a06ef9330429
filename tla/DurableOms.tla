----------------------------- MODULE DurableOms -----------------------------
(***************************************************************************)
(* The durable order path: DurableSubmitter.submit, resolve_unknown,       *)
(* cancel_intent, reconcile and run_startup_recovery over one SQLite       *)
(* database, one broker account and one symbol.                            *)
(*                                                                         *)
(* The program is sequential: one call runs at a time, and `call` is where *)
(* it stands between two of its database transactions and broker calls.    *)
(* The broker moves on by itself, and the process may die between any two  *)
(* steps.  A transaction (one `with uow.session()`) is one step, and may   *)
(* fail.  What is in the database survives a crash; the gate, the held     *)
(* reservations and the adapter object do not.                             *)
(*                                                                         *)
(* A definition named X_Slip is X with one plausible coding slip; Next     *)
(* never uses it.  It shows that some property would notice the slip.      *)
(***************************************************************************)
EXTENDS Integers, Sequences, FiniteSetsExt, OrderFsm

CONSTANTS
  Orders,       \* client order ids the factory may hand out
  NoOrder,      \* no order: an external trade, or an idle program
  Requests,     \* the [side, qty, stop, reduce] a caller may submit
  Paper,        \* TRUE: PaperAdapter; FALSE: CcxtDemoAdapter
  Hooks,        \* resolve_unknown and the submitter's test hooks are called
  ReconScope,   \* kill-switch scope reconcile() is given by its caller
  MaxCrashes,   \* bound on process deaths
  External      \* whether one trade is made outside the program

Scopes == {"global", "account"}

ASSUME OrdersAssumption == NoOrder \notin Orders
ASSUME RequestsAssumption ==
  Requests \subseteq [side : {"buy", "sell"}, qty : Nat \ {0},
                      stop : BOOLEAN, reduce : BOOLEAN]
ASSUME FlagsAssumption ==
  Paper \in BOOLEAN /\ Hooks \in BOOLEAN /\ External \in BOOLEAN
ASSUME ScopeAssumption == ReconScope \in Scopes
ASSUME BoundsAssumption == MaxCrashes \in Nat

VARIABLES
  up,          \* the process is running
  conn,        \* adapter.connected
  gate,        \* AccountGate.status
  held,        \* RiskEngine._held, by client order
  call,        \* where the running call stands
  row,         \* order_intents + orders + risk_reservations, by client order
  fills,       \* fills recorded under a broker execution id: <<trade, qty>>
  localFills,  \* fills recorded under "local-<client id>": <<order, qty>>
  posLocal,    \* positions_local.qty
  cursor,      \* execution_cursors.cursor (0 at the exchange, which ignores it)
  openBreak,   \* an open row of recon_breaks
  ks,          \* kill_switch_state.level by scope
  border,      \* the broker's orders
  trades,      \* every execution the broker ever made, oldest first
  base,        \* how many of them the in-memory paper broker has forgotten
  posBroker,   \* the broker's position
  prot,        \* orders whose stop the adapter keeps
  sends,       \* history: place_order calls per order
  cancels,     \* history: cancel_order calls per order
  crashes      \* history: process deaths

procVars   == <<up, conn, gate, held>>
tableVars  == <<row, fills, localFills, posLocal, cursor>>
alarmVars  == <<openBreak, ks>>
brokerVars == <<border, trades, base, posBroker>>
histVars   == <<sends, cancels, crashes>>
vars == <<procVars, call, tableVars, alarmVars, brokerVars, prot, histVars>>

-----------------------------------------------------------------------------
(* Types and initial state *)

Statuses == {"NEW", "RECOVERING", "READY", "SAFE_LOCK"}

NoReq == [side |-> "none", qty |-> 0, stop |-> FALSE, reduce |-> FALSE]
NoAns == [state |-> "NONE", filled |-> 0]
NoRow == [req |-> NoReq, intent |-> "CREATED", order |-> "CREATED",
          delivery |-> "NOT_SENT", bid |-> FALSE, resv |-> "NONE"]

Answers == [state : {"NONE", "FILLED", "PARTIAL", "CANCELED", "NOT_FOUND"},
            filled : Nat]
Rows == [req : Requests \union {NoReq}, intent : IntentState,
         order : IntentState, delivery : DeliveryCertainty, bid : BOOLEAN,
         resv : {"NONE", "HELD", "CONSUMED"}]
Stages == {"idle", "commit", "send", "hook_place", "finalize", "mark", "query",
           "resolve", "cancel", "cancel_persist", "reconcile"}
Calls == [at : Stages, o : Orders \union {NoOrder},
          req : Requests \union {NoReq}, ans : Answers, pos : Int]

BrokerOrders == [st : {"none", "open", "closed", "canceled"}, filled : Nat,
                 req : Requests \union {NoReq}]
Trades == [o : Orders \union {NoOrder}, qty : Nat]

Idle == [at |-> "idle", o |-> NoOrder, req |-> NoReq, ans |-> NoAns, pos |-> 0]

TypeOK ==
  /\ up \in BOOLEAN /\ conn \in BOOLEAN
  /\ gate \in Statuses
  /\ held \subseteq Orders
  /\ call \in Calls
  /\ call.o = NoOrder <=> call.at \in {"idle", "reconcile"}
  /\ row \in [Orders -> Rows]
  /\ fills \subseteq (Nat \X Nat)
  /\ localFills \subseteq (Orders \X Nat)
  /\ posLocal \in Int /\ posBroker \in Int
  /\ cursor \in Nat /\ base \in Nat
  /\ openBreak \in BOOLEAN
  /\ ks \in [Scopes -> 0..4]
  /\ border \in [Orders -> BrokerOrders]
  /\ trades \in Seq(Trades)
  /\ base <= Len(trades)
  /\ prot \subseteq Orders
  /\ sends \in [Orders -> Nat] /\ cancels \in [Orders -> Nat]
  /\ crashes \in Nat

NoBrokerOrder == [st |-> "none", filled |-> 0, req |-> NoReq]

Init ==
  /\ up = FALSE /\ conn = FALSE
  /\ gate = "NEW"
  /\ held = {}
  /\ call = Idle
  /\ row = [o \in Orders |-> NoRow]
  /\ fills = {} /\ localFills = {}
  /\ posLocal = 0 /\ cursor = 0
  /\ openBreak = FALSE
  /\ ks = [s \in Scopes |-> 0]
  /\ border = [o \in Orders |-> NoBrokerOrder]
  /\ trades = <<>> /\ base = 0 /\ posBroker = 0
  /\ prot = {}
  /\ sends = [o \in Orders |-> 0]
  /\ cancels = [o \in Orders |-> 0]
  /\ crashes = 0

-----------------------------------------------------------------------------
(* The broker, as the adapters show it *)

Signed(side, qty) == IF side = "buy" THEN qty ELSE -qty

\* Variant of Normalize that reports the ordered quantity as filled.
Normalize_Requested(b) ==
  [state  |-> IF b.st = "canceled" THEN "CANCELED"
              ELSE IF b.st = "closed" THEN "FILLED" ELSE "PARTIAL",
   filled |-> b.req.qty]

\* CcxtDemoAdapter._normalize_order: `filled or amount` reads a filled quantity
\* of zero as the whole amount.  PaperAdapter's own dict agrees with it, since
\* a paper order always has a fill.
Normalize(b) ==
  LET filled == IF b.filled = 0 THEN b.req.qty ELSE b.filled
  IN  [state  |-> IF b.st = "canceled" THEN "CANCELED"
                  ELSE IF b.st = "closed" /\ filled = b.req.qty THEN "FILLED"
                  ELSE "PARTIAL",
       filled |-> filled]

\* Variant of Listings whose cursor is the last index, not the length.
Listings_LastIndex ==
  IF Paper THEN {Len(trades) - 1} ELSE base..Len(trades)

\* How many executions a listing may return: PaperAdapter lists all it has; the
\* exchange's trade listing may lag behind its matching engine.
Listings == IF Paper THEN {Len(trades)} ELSE base..Len(trades)

\* The broker accepts order o and fills `fill` of it at once.
Accept(o, req, fill) ==
  /\ border' = [border EXCEPT ![o] =
       [st |-> IF fill = req.qty THEN "closed" ELSE "open",
        filled |-> fill, req |-> req]]
  /\ trades' = IF fill = 0 THEN trades
               ELSE Append(trades, [o |-> o, qty |-> fill])
  /\ posBroker' = posBroker + Signed(req.side, fill)

\* An order resting at the exchange trades one more lot.
BrokerExecute(o) ==
  /\ ~Paper
  /\ border[o].st = "open"
  /\ border' = [border EXCEPT ![o] =
       [@ EXCEPT !.filled = border[o].filled + 1,
                 !.st = IF border[o].filled + 1 = border[o].req.qty
                        THEN "closed" ELSE "open"]]
  /\ trades' = Append(trades, [o |-> o, qty |-> 1])
  /\ posBroker' = posBroker + Signed(border[o].req.side, 1)
  /\ UNCHANGED <<procVars, call, tableVars, alarmVars, base, prot, histVars>>

\* The account is traded from somewhere else (an orphan position for recon).
ExternalTrade ==
  /\ External /\ ~Paper
  /\ \A n \in 1..Len(trades) : trades[n].o # NoOrder
  /\ \E side \in {"buy", "sell"} : posBroker' = posBroker + Signed(side, 1)
  /\ trades' = Append(trades, [o |-> NoOrder, qty |-> 1])
  /\ UNCHANGED <<procVars, call, tableVars, alarmVars, border, base, prot, histVars>>

-----------------------------------------------------------------------------
(* Process lifetime *)

\* The process dies between any two steps.  PaperAdapter's book dies with it,
\* and so do the stops, which both adapters keep in a local dict only.
Crash ==
  /\ up /\ crashes < MaxCrashes
  /\ up' = FALSE /\ conn' = FALSE /\ gate' = "NEW" /\ held' = {} /\ prot' = {}
  /\ call' = Idle
  /\ IF Paper THEN /\ border' = [o \in Orders |-> NoBrokerOrder]
                   /\ base' = Len(trades) /\ posBroker' = 0
              ELSE UNCHANGED <<border, base, posBroker>>
  /\ crashes' = crashes + 1
  /\ UNCHANGED <<tableVars, alarmVars, trades, sends, cancels>>

\* run_startup_recovery.  `connects`, `complete`, `fresh` and `unresolved` are
\* what the adapter and the caller report; a listing (or, for any adapter, the
\* kill-switch transaction) that raises leaves the gate as the caller puts it.
\* The switch is restored with max(), which the fresh in-memory one leaves as it
\* was stored.
Recover(connects, complete, fresh, unresolved, onError) ==
  /\ up' = TRUE
  /\ \/ /\ conn' = (conn \/ connects)
        /\ gate' = IF (conn \/ connects) /\ complete /\ fresh /\ ~unresolved
                   THEN "READY" ELSE "SAFE_LOCK"
     \/ /\ conn' = (conn \/ (connects /\ ~Paper))
        /\ gate' = onError
  /\ UNCHANGED <<held, call, tableVars, alarmVars, brokerVars, prot, histVars>>

\* run_startup_recovery_for_active_account passes the open recon breaks and locks
\* on an error or a clock jump.
Startup ==
  /\ ~up
  /\ \E connects, complete, fresh \in BOOLEAN :
       Recover(connects, complete, fresh, openBreak, "SAFE_LOCK")

\* The soak runner recovers after a sleep gap and passes no break.
SoakResume ==
  /\ up /\ call = Idle
  /\ \E connects, complete \in BOOLEAN :
       Recover(connects, complete, TRUE, FALSE, "RECOVERING")

\* What precedes a submit in the trading loop and the flatten button: connect,
\* a gate built anew from the stored kill switch, a risk engine that holds
\* nothing.  The lifecycle runner builds its gate READY.
OpenPipeline ==
  /\ up /\ call = Idle
  /\ conn' = TRUE
  /\ \/ gate' = IF ks["global"] < 1 THEN "READY" ELSE "SAFE_LOCK"
     \/ gate' = "READY"
  /\ held' = {}
  /\ UNCHANGED <<up, call, tableVars, alarmVars, brokerVars, prot, histVars>>

\* adapter.disconnect().
Disconnect ==
  /\ up /\ conn /\ call.at \in {"idle", "commit", "send"}
  /\ conn' = FALSE
  /\ UNCHANGED <<up, gate, held, call, tableVars, alarmVars, brokerVars, prot, histVars>>

-----------------------------------------------------------------------------
(* DurableSubmitter.submit *)

\* Variant of BeginSubmit that reuses a client order id.
BeginSubmit_ReusesId(o, req) ==
  /\ up /\ call = Idle
  /\ gate = "READY" \/ (req.side = "sell" /\ req.reduce)
  /\ held' = held \union {o}
  /\ call' = [Idle EXCEPT !.at = "commit", !.o = o, !.req = req]
  /\ UNCHANGED <<up, conn, gate, tableVars, alarmVars, brokerVars, prot, histVars>>

\* The gate refuses buys and the risk engine refuses entries unless READY; a
\* refusal changes no state, so only the accepted submit is a step.
BeginSubmit(o, req) ==
  /\ up /\ call = Idle
  /\ row[o] = NoRow
  /\ gate = "READY" \/ (req.side = "sell" /\ req.reduce)
  /\ held' = held \union {o}
  /\ call' = [Idle EXCEPT !.at = "commit", !.o = o, !.req = req]
  /\ UNCHANGED <<up, conn, gate, tableVars, alarmVars, brokerVars, prot, histVars>>

\* _persist_pre_submit: check, reservation, intent, order and audit in one
\* transaction.
CommitIntent ==
  LET o == call.o IN
  /\ call.at = "commit"
  /\ row' = [row EXCEPT ![o] =
       [req |-> call.req, intent |-> "RESERVED", order |-> "RESERVED",
        delivery |-> "NOT_SENT", bid |-> FALSE, resv |-> "HELD"]]
  /\ call' = [call EXCEPT !.at = "send"]
  /\ UNCHANGED <<procVars, fills, localFills, posLocal, cursor, alarmVars,
                 brokerVars, prot, histVars>>

\* Variant of CommitFails that swallows the error and sends.
CommitFails_Sends ==
  /\ call.at = "commit"
  /\ call' = [call EXCEPT !.at = "send"]
  /\ UNCHANGED <<procVars, tableVars, alarmVars, brokerVars, prot, histVars>>

CommitFails ==
  /\ call.at = "commit"
  /\ gate' = "SAFE_LOCK"
  /\ held' = held \ {call.o}
  /\ call' = Idle
  /\ UNCHANGED <<up, conn, tableVars, alarmVars, brokerVars, prot, histVars>>

\* Nothing was handed to the adapter: the on_before_adapter hook raised, or the
\* adapter is not connected.  Only the hook's branch also moves the order row.
NotSent(hook) ==
  LET o == call.o IN
  /\ call.at = "send"
  /\ IF hook THEN Hooks ELSE ~conn
  /\ row' = [row EXCEPT ![o] =
       [@ EXCEPT !.intent = "SUBMITTING",
                 !.order = IF hook THEN "SUBMITTING" ELSE row[o].order]]
  /\ call' = Idle
  /\ UNCHANGED <<procVars, fills, localFills, posLocal, cursor, alarmVars,
                 brokerVars, prot, histVars>>

\* That transaction rolls back and the error leaves submit.
NotSentFails ==
  /\ call.at = "send"
  /\ Hooks \/ ~conn
  /\ call' = Idle
  /\ UNCHANGED <<procVars, tableVars, alarmVars, brokerVars, prot, histVars>>

\* Variants of MarkedUnknown: the reservation is given up; only the intent row
\* is written.
MarkedUnknown_Releases(o) ==
  [row EXCEPT ![o] = [@ EXCEPT !.intent = "UNKNOWN", !.order = "UNKNOWN",
                               !.delivery = "MAY_HAVE_BEEN_ACCEPTED",
                               !.resv = "CONSUMED"]]
MarkedUnknown_IntentOnly(o) ==
  [row EXCEPT ![o] = [@ EXCEPT !.intent = "UNKNOWN",
                               !.delivery = "MAY_HAVE_BEEN_ACCEPTED"]]

MarkedUnknown(o) ==
  [row EXCEPT ![o] = [@ EXCEPT !.intent = "UNKNOWN", !.order = "UNKNOWN",
                               !.delivery = "MAY_HAVE_BEEN_ACCEPTED"]]

\* simulate_timeout_after_send: UNKNOWN is committed before the one place.
MarkBeforeSend ==
  /\ Hooks
  /\ call.at = "send" /\ conn
  /\ row' = MarkedUnknown(call.o)
  /\ call' = [call EXCEPT !.at = "hook_place"]
  /\ UNCHANGED <<procVars, fills, localFills, posLocal, cursor, alarmVars,
                 brokerVars, prot, histVars>>

MarkBeforeSendFails ==
  /\ Hooks
  /\ call.at = "send" /\ conn
  /\ call' = [call EXCEPT !.at = "mark"]
  /\ UNCHANGED <<procVars, tableVars, alarmVars, brokerVars, prot, histVars>>

\* adapter.place_order answers.  On paper an order trades at once, wholly or in
\* part; at the exchange it may also rest untraded.
PlaceAnswered ==
  LET o == call.o IN
  /\ call.at \in {"send", "hook_place"} /\ conn
  /\ sends' = [sends EXCEPT ![o] = @ + 1]
  /\ \E fill \in (IF Paper THEN 1 ELSE 0)..call.req.qty :
       Accept(o, call.req, fill)
  /\ call' = [call EXCEPT !.at = IF call.at = "send" THEN "finalize" ELSE "query",
                          !.ans = Normalize(border'[o])]
  /\ UNCHANGED <<procVars, tableVars, alarmVars, base, prot, cancels, crashes>>

\* Variant of PlaceRaises that tries the send again.
PlaceRaises_Retries ==
  LET o == call.o IN
  /\ ~Paper
  /\ call.at \in {"send", "hook_place"} /\ conn /\ sends[o] < 2
  /\ sends' = [sends EXCEPT ![o] = @ + 1]
  /\ \E fill \in 0..call.req.qty : Accept(o, call.req, fill)
  /\ UNCHANGED <<procVars, call, tableVars, alarmVars, base, prot, cancels, crashes>>

\* place_order raises: the request was lost, or accepted and the answer lost.
PlaceRaises ==
  LET o == call.o IN
  /\ ~Paper
  /\ call.at \in {"send", "hook_place"} /\ conn
  /\ sends' = [sends EXCEPT ![o] = @ + 1]
  /\ \/ UNCHANGED <<border, trades, posBroker>>
     \/ \E fill \in 0..call.req.qty : Accept(o, call.req, fill)
  /\ call' = [call EXCEPT !.at = "mark"]
  /\ UNCHANGED <<procVars, tableVars, alarmVars, base, prot, cancels, crashes>>

\* Variant of TradesOf that starts one execution late.
TradesOf_SkipsFirst(o, n) == {i \in (base + 2)..n : trades[i].o = o}

\* The executions of order o among the first n the broker lists.
TradesOf(o, n) == {i \in (base + 1)..n : trades[i].o = o}

\* Variant of Ingest without the look-up by execution id.
Ingest_Unchecked(ledger, new) == ledger \union new

\* ingest_fill: a broker execution id already in the ledger is left alone.
Ingest(ledger, new) ==
  ledger \union {f \in new : \A g \in ledger : g[1] # f[1]}

\* sync_protection: the stop is placed, or the gate is locked.
Protect(o) ==
  IF call.req.stop
  THEN \/ prot' = prot \union {o} /\ UNCHANGED gate
       \/ gate' = "SAFE_LOCK" /\ UNCHANGED prot
  ELSE UNCHANGED <<gate, prot>>

\* The rows of an order the broker answered for: its id is on file and its
\* reservation is given up.
Settled(o, new) ==
  [row EXCEPT ![o] = [@ EXCEPT !.intent = new, !.order = new,
                               !.delivery = "CONFIRMED", !.bid = TRUE,
                               !.resv = "CONSUMED"]]

\* _finalize_fill.  Whatever state the answer carries the intent is FILLED.  The
\* whole filled quantity is booked under the order's first listed execution, or
\* under "local-<client id>" when none is listed.  The cursor jumps to the end
\* of the listing.
Finalize ==
  LET o == call.o IN
  /\ call.at = "finalize"
  /\ row' = Settled(o, "FILLED")
  /\ \E n \in Listings :
       /\ IF TradesOf(o, n) = {}
          THEN /\ localFills' = Ingest(localFills, {<<o, call.ans.filled>>})
               /\ UNCHANGED fills
          ELSE /\ \E i \in TradesOf(o, n) :
                    /\ \A j \in TradesOf(o, n) : i <= j
                    /\ fills' = Ingest(fills, {<<i, call.ans.filled>>})
               /\ UNCHANGED localFills
       /\ cursor' = IF Paper THEN n - base ELSE 0
  /\ posLocal' = posBroker
  /\ held' = held \ {o}
  /\ Protect(o)
  /\ call' = Idle
  /\ UNCHANGED <<up, conn, alarmVars, brokerVars, histVars>>

\* The finalize transaction rolls back: before the in-memory release, or after
\* it and after the stop was synced.
FinalizeFails ==
  /\ call.at = "finalize"
  /\ \/ UNCHANGED <<held, gate, prot>>
     \/ held' = held \ {call.o} /\ Protect(call.o)
  /\ call' = [call EXCEPT !.at = "mark"]
  /\ UNCHANGED <<up, conn, tableVars, alarmVars, brokerVars, histVars>>

\* Variant of MarkUnknown that takes the order for one never sent.
MarkUnknown_AsUnsent ==
  /\ call.at = "mark"
  /\ row' = [row EXCEPT ![call.o] =
       [@ EXCEPT !.intent = "SUBMITTING", !.order = "SUBMITTING"]]
  /\ call' = Idle
  /\ UNCHANGED <<procVars, fills, localFills, posLocal, cursor, alarmVars,
                 brokerVars, prot, histVars>>

\* _mark_unknown after an exception that followed the send.
MarkUnknown ==
  /\ call.at = "mark"
  /\ row' = MarkedUnknown(call.o)
  /\ call' = Idle
  /\ UNCHANGED <<procVars, fills, localFills, posLocal, cursor, alarmVars,
                 brokerVars, prot, histVars>>

MarkUnknownFails ==
  /\ call.at = "mark"
  /\ call' = Idle
  /\ UNCHANGED <<procVars, tableVars, alarmVars, brokerVars, prot, histVars>>

-----------------------------------------------------------------------------
(* resolve_unknown *)

BeginResolve(o) ==
  /\ Hooks
  /\ up /\ call = Idle
  /\ row[o].intent = "UNKNOWN"
  /\ call' = [Idle EXCEPT !.at = "query", !.o = o, !.req = row[o].req]
  /\ UNCHANGED <<procVars, tableVars, alarmVars, brokerVars, prot, histVars>>

\* query_order_by_client_id finds the order, or does not: it is not there, or
\* the exchange's order listing failed, which the adapter reports the same way.
QueryFinds ==
  /\ call.at = "query"
  /\ border[call.o].st # "none"
  /\ call' = [call EXCEPT !.at = "resolve", !.ans = Normalize(border[call.o])]
  /\ UNCHANGED <<procVars, tableVars, alarmVars, brokerVars, prot, histVars>>

QueryMisses ==
  /\ call.at = "query"
  /\ border[call.o].st = "none" \/ ~Paper
  /\ call' = [call EXCEPT !.at = "resolve", !.ans = NoAns]
  /\ UNCHANGED <<procVars, tableVars, alarmVars, brokerVars, prot, histVars>>

\* An order that was found is FILLED or ACKNOWLEDGED, its listed executions are
\* booked and its reservation is consumed; positions_local is not touched.
ResolveFound ==
  LET o   == call.o
      new == IF call.ans.state = "FILLED" THEN "FILLED" ELSE "ACKNOWLEDGED"
  IN
  /\ call.at = "resolve" /\ call.ans # NoAns
  /\ row' = Settled(o, new)
  /\ \E n \in Listings :
       fills' = Ingest(fills, {<<i, trades[i].qty>> : i \in TradesOf(o, n)})
  /\ held' = held \ {o}
  /\ call' = Idle
  /\ UNCHANGED <<up, conn, gate, localFills, posLocal, cursor, alarmVars,
                 brokerVars, prot, histVars>>

\* Variant of ResolveNotFound that takes "not found" for "never accepted".
ResolveNotFound_Releases ==
  /\ call.at = "resolve" /\ call.ans = NoAns
  /\ row' = [row EXCEPT ![call.o] = [@ EXCEPT !.resv = "CONSUMED"]]
  /\ held' = held \ {call.o}
  /\ call' = Idle
  /\ UNCHANGED <<up, conn, gate, fills, localFills, posLocal, cursor, alarmVars,
                 brokerVars, prot, histVars>>

ResolveNotFound ==
  /\ call.at = "resolve" /\ call.ans = NoAns
  /\ row' = [row EXCEPT ![call.o] =
       [@ EXCEPT !.intent = "UNKNOWN", !.delivery = "MAY_HAVE_BEEN_ACCEPTED"]]
  /\ call' = Idle
  /\ UNCHANGED <<procVars, fills, localFills, posLocal, cursor, alarmVars,
                 brokerVars, prot, histVars>>

\* The transaction rolls back; under the hook the UNKNOWN mark is written again.
ResolveFails ==
  /\ call.at = "resolve"
  /\ held' \in {held, held \ {call.o}}
  /\ call' = Idle
  /\ UNCHANGED <<up, conn, gate, tableVars, alarmVars, brokerVars, prot, histVars>>

-----------------------------------------------------------------------------
(* cancel_intent *)

\* Variant of BeginCancel that tries a cancel of unknown outcome again.
BeginCancel_Again(o) ==
  /\ up /\ call = Idle
  /\ row[o].intent \in {"ACKNOWLEDGED", "CANCEL_UNKNOWN"} /\ row[o].bid
  /\ row' = [row EXCEPT ![o] =
       [@ EXCEPT !.intent = "CANCEL_REQUESTED", !.order = "CANCEL_REQUESTED"]]
  /\ call' = [Idle EXCEPT !.at = "cancel", !.o = o, !.req = row[o].req]
  /\ UNCHANGED <<procVars, fills, localFills, posLocal, cursor, alarmVars,
                 brokerVars, prot, histVars>>

\* CANCEL_REQUESTED is committed before the broker hears of the cancel.
BeginCancel(o) ==
  /\ up /\ call = Idle
  /\ row[o].intent = "ACKNOWLEDGED" /\ row[o].bid
  /\ CanTransition("ACKNOWLEDGED", "CANCEL_REQUESTED")
  /\ row' = [row EXCEPT ![o] =
       [@ EXCEPT !.intent = "CANCEL_REQUESTED", !.order = "CANCEL_REQUESTED"]]
  /\ call' = [Idle EXCEPT !.at = "cancel", !.o = o, !.req = row[o].req]
  /\ UNCHANGED <<procVars, fills, localFills, posLocal, cursor, alarmVars,
                 brokerVars, prot, histVars>>

\* PaperAdapter answers NOT_FOUND after a restart and TOO_LATE (the FILLED
\* order) when there is nothing left to cancel; the exchange raises on both.
CancelAnswered ==
  LET o == call.o IN
  /\ call.at = "cancel"
  /\ cancels' = [cancels EXCEPT ![o] = @ + 1]
  /\ \/ /\ border[o].st = "open"
        /\ border' = [border EXCEPT ![o] = [@ EXCEPT !.st = "canceled"]]
        /\ call' = [call EXCEPT !.at = "cancel_persist",
                                !.ans = Normalize(border'[o])]
     \/ /\ Paper /\ border[o].st = "closed"
        /\ call' = [call EXCEPT !.at = "cancel_persist",
                                !.ans = Normalize(border[o])]
        /\ UNCHANGED border
     \/ /\ Paper /\ border[o].st = "none"
        /\ call' = [call EXCEPT !.at = "cancel_persist",
                                !.ans = [state |-> "NOT_FOUND", filled |-> 0]]
        /\ UNCHANGED border
  /\ UNCHANGED <<procVars, tableVars, alarmVars, trades, base, posBroker, prot,
                 sends, crashes>>

CancelRaises ==
  LET o == call.o IN
  /\ ~Paper
  /\ call.at = "cancel"
  /\ cancels' = [cancels EXCEPT ![o] = @ + 1]
  /\ \/ UNCHANGED border
     \/ /\ border[o].st = "open"
        /\ border' = [border EXCEPT ![o] = [@ EXCEPT !.st = "canceled"]]
  /\ call' = [call EXCEPT !.at = "cancel_persist"]
  /\ UNCHANGED <<procVars, tableVars, alarmVars, trades, base, posBroker, prot,
                 sends, crashes>>

\* Variant of CancelOutcome that takes every failed cancel for a done one.
CancelOutcome_Optimistic(ans) ==
  IF ans.state = "FILLED" THEN "FILLED" ELSE "CANCELED"

\* _interpret_cancel_response
CancelOutcome(ans) ==
  IF ans.state \in {"FILLED", "CANCELED"} THEN ans.state ELSE "CANCEL_UNKNOWN"

\* Variant of CancelPersist that reverts an unconfirmed cancel.
CancelPersist_Reverts ==
  LET o   == call.o
      out == CancelOutcome(call.ans)
      new == IF out = "CANCEL_UNKNOWN" THEN "ACKNOWLEDGED" ELSE out
  IN
  /\ call.at = "cancel_persist"
  /\ row' = [row EXCEPT ![o] = [@ EXCEPT !.intent = new, !.order = new]]
  /\ call' = Idle
  /\ UNCHANGED <<procVars, fills, localFills, posLocal, cursor, alarmVars,
                 brokerVars, prot, histVars>>

\* _persist_terminal
CancelPersist ==
  LET o   == call.o
      new == CancelOutcome(call.ans)
  IN
  /\ call.at = "cancel_persist"
  /\ CanTransition("CANCEL_REQUESTED", new)
  /\ row' = [row EXCEPT ![o] =
       [@ EXCEPT !.intent = new, !.order = new,
                 !.delivery = IF new = "CANCEL_UNKNOWN"
                              THEN "MAY_HAVE_BEEN_ACCEPTED" ELSE "CONFIRMED"]]
  /\ call' = Idle
  /\ UNCHANGED <<procVars, fills, localFills, posLocal, cursor, alarmVars,
                 brokerVars, prot, histVars>>

CancelPersistFails ==
  /\ call.at = "cancel_persist"
  /\ call' = Idle
  /\ UNCHANGED <<procVars, tableVars, alarmVars, brokerVars, prot, histVars>>

-----------------------------------------------------------------------------
(* reconcile *)

\* The broker's positions are read before the transaction opens.
BeginReconcile ==
  /\ up /\ conn /\ call = Idle
  /\ call' = [Idle EXCEPT !.at = "reconcile", !.pos = posBroker]
  /\ UNCHANGED <<procVars, tableVars, alarmVars, brokerVars, prot, histVars>>

\* A position with no intent behind it.
Orphan == call.pos # 0 /\ \A o \in Orders : row[o] = NoRow

\* Executions from the cursor, one overlapping (the exchange adapter ignores the
\* cursor); positions_local only for a symbol the broker lists, and it lists no
\* flat one; an orphan is a break, raises the switch to L2 under the caller's
\* scope and locks the gate.
ReconcileCommit ==
  LET start == IF Paper /\ cursor > 0 THEN cursor - 1 ELSE 0 IN
  /\ call.at = "reconcile"
  /\ \E n \in Listings :
       /\ fills' = Ingest(fills, {<<i, trades[i].qty>> : i \in (base + start + 1)..n})
       /\ cursor' = IF Paper THEN n - base ELSE 0
  /\ posLocal' = IF call.pos # 0 THEN call.pos ELSE posLocal
  /\ IF Orphan
     THEN /\ openBreak' = TRUE
          /\ ks' = [ks EXCEPT ![ReconScope] = IF @ < 2 THEN 2 ELSE @]
          /\ gate' = "SAFE_LOCK"
     ELSE UNCHANGED <<openBreak, ks, gate>>
  /\ call' = Idle
  /\ UNCHANGED <<up, conn, held, row, localFills, brokerVars, prot, histVars>>

\* The transaction rolls back; the in-memory lock of an orphan stays.
ReconcileFails ==
  /\ call.at = "reconcile"
  /\ UNCHANGED gate \/ (Orphan /\ gate' = "SAFE_LOCK")
  /\ call' = Idle
  /\ UNCHANGED <<up, conn, held, tableVars, alarmVars, brokerVars, prot, histVars>>

-----------------------------------------------------------------------------
(* Specification *)

Submit ==
  \/ \E o \in Orders, req \in Requests : BeginSubmit(o, req)
  \/ CommitIntent \/ CommitFails
  \/ (\E hook \in BOOLEAN : NotSent(hook)) \/ NotSentFails
  \/ MarkBeforeSend \/ MarkBeforeSendFails
  \/ PlaceAnswered \/ PlaceRaises
  \/ Finalize \/ FinalizeFails
  \/ MarkUnknown \/ MarkUnknownFails

Resolve ==
  \/ \E o \in Orders : BeginResolve(o)
  \/ QueryFinds \/ QueryMisses
  \/ ResolveFound \/ ResolveNotFound \/ ResolveFails

Cancel ==
  \/ \E o \in Orders : BeginCancel(o)
  \/ CancelAnswered \/ CancelRaises
  \/ CancelPersist \/ CancelPersistFails

Reconcile == BeginReconcile \/ ReconcileCommit \/ ReconcileFails

Lifetime == Startup \/ SoakResume \/ OpenPipeline \/ Disconnect \/ Crash

Broker == (\E o \in Orders : BrokerExecute(o)) \/ ExternalTrade

Next == Lifetime \/ Submit \/ Resolve \/ Cancel \/ Reconcile \/ Broker

Spec == Init /\ [][Next]_vars

\* What the shipped program keeps doing: it runs its calls to their end, is
\* started again when it died, opens pipelines and, as the soak runner does at
\* every beat, reconciles.  Nobody is made to call resolve_unknown: no shipped
\* code does outside submit's own simulated timeout.
Fairness ==
  /\ WF_vars(call # Idle /\ (Submit \/ Resolve \/ Cancel \/ Reconcile))
  /\ WF_vars(Startup)
  /\ SF_vars(OpenPipeline)
  /\ SF_vars(BeginReconcile) /\ SF_vars(ReconcileCommit)

FairSpec == Spec /\ Fairness

-----------------------------------------------------------------------------
(* Safety *)

\* Commit before send: whatever reached the adapter, or sits at the broker, has
\* its intent, order and reservation on disk (submit.py, module docstring).
SentAfterCommit ==
  \A o \in Orders :
    sends[o] > 0 \/ border[o].st # "none" => row[o].intent # "CREATED"

\* No blind retry: over all crashes, failed transactions, unknown outcomes and
\* resolutions an order is placed at most once and cancelled at most once.
AtMostOnce == \A o \in Orders : sends[o] <= 1 /\ cancels[o] <= 1

\* A sent order stays covered by its durable reservation until the broker's own
\* id for it is on file (unknown.py: "hold reservation").
ExposureCovered ==
  \A o \in Orders : sends[o] > 0 => row[o].resv = "HELD" \/ row[o].bid

\* SUBMITTING is only ever stored for an order that no broker has or will get,
\* so it may be read as "not sent" (tests/fault/test_crash_after_commit.py).
SubmittingNeverSent ==
  \A o \in Orders :
    row[o].intent = "SUBMITTING" => sends[o] = 0 /\ border[o].st = "none"

\* What the database calls CONFIRMED the exchange does have, and an intent it
\* calls CANCELED can trade no more, whatever raced with the answer.
ConfirmedIsReal ==
  \A o \in Orders :
    /\ ~Paper /\ row[o].delivery = "CONFIRMED" => border[o].st # "none"
    /\ row[o].intent = "CANCELED" => border[o].st # "open"

\* The intent row, the order row and the delivery axis, written in different
\* branches, never contradict each other.
RowsAgree ==
  \A o \in Orders :
    /\ row[o].order = row[o].intent
       \/ (row[o].intent = "SUBMITTING" /\ row[o].order = "RESERVED")
    /\ row[o].delivery = "CONFIRMED" =>
         row[o].intent \in {"FILLED", "ACKNOWLEDGED", "CANCEL_REQUESTED", "CANCELED"}
    /\ row[o].delivery = "MAY_HAVE_BEEN_ACCEPTED" =>
         row[o].intent \in {"UNKNOWN", "CANCEL_UNKNOWN"}

\* ingest_fill is idempotent: one execution id has one row in the ledger.
OneRowPerExecution ==
  /\ \A f, g \in fills : f[1] = g[1] => f = g
  /\ \A f, g \in localFills : f[1] = g[1] => f = g

\* A late or repeated answer never lowers an intent that has moved further, and
\* an intent in a terminal state is never rewritten.
StateNeverFallsBack ==
  [][\A o \in Orders :
       row'[o].intent # row[o].intent =>
         Progress(row'[o].intent) > Progress(row[o].intent)]_vars

\* submit and resolve_unknown write states without asking the table of fsm.py.
\* Over crashes, rollbacks, late answers and cancels the stored state leaves the
\* table in two ways only, both out of RESERVED: to FILLED once the order was
\* sent, and to UNKNOWN once it was sent or, by the simulated timeout (a test
\* hook), is about to be.
LeavesTableOnceSent ==
  [][\A o \in Orders :
       LET old == row[o].intent
           new == row'[o].intent
       IN  new # old =>
             \/ CanTransition(old, new)
             \/ old = "RESERVED" /\ new = "FILLED" /\ sends[o] = 1
             \/ old = "RESERVED" /\ new = "UNKNOWN" /\ (sends[o] = 1 \/ Hooks)]_vars

\* An order is handed to the adapter out of a stored SUBMITTING (submit.py:160;
\* Kien-truc section 11.1, item 3).  The code sends out of RESERVED.
SentFromSubmitting ==
  [][\A o \in Orders :
       sends'[o] > sends[o] => row[o].intent = "SUBMITTING"]_vars

-----------------------------------------------------------------------------
(* The inductive invariant behind the safety properties *)

Pending == {"RESERVED", "SUBMITTING", "UNKNOWN"}
Known   == {"ACKNOWLEDGED", "FILLED", "CANCEL_REQUESTED", "CANCEL_UNKNOWN", "CANCELED"}

\* How far an order has come fixes its reservation, the broker's id for it and
\* how often the broker was called for it.
RowInv(o) ==
  LET r == row[o] IN
  /\ r.intent \in {"CREATED"} \union Pending \union Known
  /\ r.intent = "CREATED" <=> r = NoRow
  /\ r.resv = "NONE" <=> r.intent = "CREATED"
  /\ r.resv = "HELD" <=> r.intent \in Pending
  /\ r.bid <=> r.intent \in Known
  /\ sends[o] <= 1 /\ cancels[o] <= 1
  /\ r.intent \in {"CREATED", "SUBMITTING"} => sends[o] = 0
  /\ r.intent \in Known \/ border[o].st # "none" => sends[o] = 1
  /\ ~Paper /\ r.intent \in Known => border[o].st # "none"
  /\ cancels[o] > 0 => r.intent \in {"CANCEL_REQUESTED", "CANCEL_UNKNOWN",
                                   "FILLED", "CANCELED"}
  /\ r.intent = "CANCELED" => border[o].st # "open"

\* Where the running call stands fixes the row of its order.
CallInv ==
  LET o == call.o
      r == row[o]
  IN
  /\ call.at = "idle" => call = Idle
  /\ call.at = "commit" => r = NoRow
  /\ call.at = "send" => r.intent = "RESERVED" /\ sends[o] = 0
  /\ call.at = "hook_place" => r.intent = "UNKNOWN" /\ sends[o] = 0
  /\ call.at = "finalize" =>
       r.intent = "RESERVED" /\ sends[o] = 1 /\ border[o].st # "none"
  /\ call.at = "mark" =>
       r.intent \in {"RESERVED", "UNKNOWN"} /\ (sends[o] = 1 \/ Hooks)
  /\ call.at \in {"query", "resolve"} => r.intent = "UNKNOWN"
  /\ call.at = "resolve" /\ call.ans # NoAns => sends[o] = 1 /\ border[o].st # "none"
  /\ call.at = "cancel" =>
       r.intent = "CANCEL_REQUESTED" /\ cancels[o] = 0 /\ call.ans = NoAns
  /\ call.at = "cancel_persist" =>
       /\ r.intent = "CANCEL_REQUESTED"
       /\ call.ans.state = "CANCELED" => border[o].st # "open"

IInv == /\ \A o \in Orders : RowInv(o)
        /\ CallInv
        /\ RowsAgree

-----------------------------------------------------------------------------
(* The abstract promise: OrderDelivery, read off the durable rows *)

phaseBar == [o \in Orders |->
  IF row[o].resv = "NONE" THEN "new"
  ELSE IF row[o].resv = "HELD" THEN "durable" ELSE "settled"]

Delivery == INSTANCE OrderDelivery WITH phase <- phaseBar, places <- sends

\* submit, resolve_unknown and cancel_intent keep the promise of OrderDelivery.
DeliverySpec == Delivery!Spec

-----------------------------------------------------------------------------
(* Agreement with the broker *)

\* Quantities of a set of ledger rows, and of a set of executions.
BookedIn(rows) == MapThenSumSet(LAMBDA f : f[2], rows)
TradedIn(S) == MapThenSumSet(LAMBDA i : trades[i].qty, S)

Booked(o) ==
  BookedIn({f \in fills : f[1] \in 1..Len(trades) /\ trades[f[1]].o = o})
    + BookedIn({f \in localFills : f[1] = o})

Traded(o) == TradedIn({i \in 1..Len(trades) : trades[i].o = o})

\* The ledger never books more of an order than was ordered, whichever of submit,
\* resolve and reconcile booked it (specs/001: "fills idempotent by identity").
NoDoubleBooking == \A o \in Orders : Booked(o) <= row[o].req.qty

\* What the ledger books of an order the broker traded of it.
BookedWasTraded == \A o \in Orders : Booked(o) <= Traded(o)

\* After a reconcile the local position is the broker's (recon.py: "broker wins
\* exposure"; specs/001 SC-005).
ReconcileConverges ==
  [][ReconcileCommit /\ Paper => posLocal' = posBroker']_vars

\* After a reconcile no execution of the broker is missing from the ledger.
ReconcileFindsMissedFills ==
  [][ReconcileCommit /\ Paper =>
       \A i \in (base + 1)..Len(trades) : \E f \in fills' : f[1] = i]_vars

\* A filled order has nothing left at the broker that can still trade.
FilledIsDone ==
  \A o \in Orders : row[o].intent = "FILLED" => border[o].st # "open"

\* A filled entry that asked for a stop has one, or the account is locked.
ProtectedOrLocked ==
  \A o \in Orders :
    up /\ row[o].intent = "FILLED" /\ row[o].req.stop =>
      o \in prot \/ gate # "READY"

-----------------------------------------------------------------------------
(* Liveness *)

\* An intent left UNKNOWN whose order is at the broker is resolved in the end
\* (specs/001 data-model.md: "UNKNOWN -> (via recon) terminal broker-aligned
\* states").  The shipped program does not: reconcile rewrites no intent.
UnknownConverges ==
  \A o \in Orders :
    (row[o].intent = "UNKNOWN" /\ border[o].st # "none")
      ~> row[o].intent # "UNKNOWN"
=============================================================================

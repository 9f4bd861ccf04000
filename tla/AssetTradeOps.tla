--------------------------- MODULE AssetTradeOps ---------------------------
(***************************************************************************)
(* The spot trade of SIIS (strategy/trade/strategyassettrade.py) as pure   *)
(* operators: what one signal of the exchange, or one answer of the REST   *)
(* API, does to the fields of a StrategyAssetTrade.                        *)
(*                                                                         *)
(* The three legs of a trade are its entry order, its limit (take-profit)  *)
(* order and its stop (stop-loss or closing) order.  Prices, fees in quote *)
(* and statistics are left out; quantities are in lots.                    *)
(***************************************************************************)
EXTENDS Integers

CONSTANT MaxOrders      \* bound: the orders one trade may place

ASSUME MaxOrdersAssumption == MaxOrders \in Nat \ {0}

Legs == {"entry", "limit", "stop"}
ExitLegs == {"limit", "stop"}

(***************************************************************************)
(* Identifiers.  The n-th order placed has the exchange identifier n and   *)
(* the client reference Ref(n); None is the missing identifier.  RawId(n)  *)
(* is the exchange identifier n as the Binance REST client returns it, an  *)
(* int where the streams and order_info compare strings.                   *)
(***************************************************************************)
None == 0
Ref(n) == -n
RawId(n) == n + MaxOrders
OrderOf(id) == IF id > MaxOrders THEN id - MaxOrders ELSE id

EntryState == {"new", "rejected", "canceled", "opened", "partially_filled", "filled"}
ExitState == {"new", "canceled", "opened", "partially_filled", "filled", "error"}

Trade ==
  [entryState : EntryState, exitState : ExitState,
   oq : Nat, e : Int, x : Nat,              \* ordered, entered and exited quantity
   closing : BOOLEAN, dirty : BOOLEAN,
   tp : BOOLEAN, sl : BOOLEAN,              \* a take-profit, a stop-loss price is set
   managed : BOOLEAN,                       \* trade_type is one update_trades handles
   oid : [Legs -> 0 .. 2 * MaxOrders], ref : [Legs -> -MaxOrders .. 0],
   qty : [Legs -> Int], exec : [Legs -> Nat]]

NewTrade ==
  [entryState |-> "new", exitState |-> "new", oq |-> 0, e |-> 0, x |-> 0,
   closing |-> FALSE, dirty |-> FALSE, tp |-> FALSE, sl |-> FALSE, managed |-> TRUE,
   oid |-> [l \in Legs |-> None], ref |-> [l \in Legs |-> None],
   qty |-> [l \in Legs |-> 0], exec |-> [l \in Legs |-> 0]]

---------------------------------------------------------------------------
\* State predicates of StrategyTrade

CanDelete(t) ==
  \/ t.entryState = "filled" /\ t.exitState = "filled"
  \/ t.entryState = "rejected"
  \/ t.entryState = "canceled" /\ t.e <= 0

IsError(t) == t.exitState = "error"

IsActive(t) == t.exitState # "filled" /\ t.entryState \in {"partially_filled", "filled"}

IsOpened(t) == t.entryState = "opened"

IsClosed(t) == t.exitState = "filled"

IsClosing(t) == t.closing /\ t.exitState # "filled"

HasOrder(t, l) == t.oid[l] # None

\* Mutant: the quantity already exited is sold again
WholeEntry(t) == t.e

\* The quantity every exit order is placed for
Remaining(t) == t.e - t.x

---------------------------------------------------------------------------
\* __reset_entry, __reset_stop and __reset_limit
ResetLeg(t, l) ==
  [t EXCEPT !.oid[l] = None, !.ref[l] = None, !.qty[l] = 0, !.exec[l] = 0]

(***************************************************************************)
(* Signals.  id is data[1]['id'], or data[1] itself for the kinds whose    *)
(* payload is a bare identifier; ref is data[2], None when absent.  A      *)
(* "rejected" signal is (market, client reference): the reference travels  *)
(* as data[1] and there is no data[2].  cum, filled, full and fee are      *)
(* 'cumulative-filled', 'filled', 'fully-filled' and the commission taken  *)
(* in the bought asset.  "connected" is the watcher's own signal, about no *)
(* order.                                                                  *)
(***************************************************************************)
SignalKind == {"opened", "traded", "deleted", "canceled", "rejected", "connected"}

SignalData ==
  [kind : SignalKind, id : -MaxOrders .. MaxOrders, ref : -MaxOrders .. 0,
   cum : Nat, filled : Nat, full : BOOLEAN, fee : Nat]

ById(t, l, id) == id # None /\ t.oid[l] = id
ByRef(t, l, ref) == ref # None /\ t.ref[l] = ref

IsTargetOrder(t, d) == \E l \in Legs : ById(t, l, d.id) \/ ByRef(t, l, d.ref)

\* Mutant: the error goes to the entry
EntryOutOfFunds(t, l) == [ResetLeg(t, l) EXCEPT !.entryState = "error"]

\* create_order refused an exit order for lack of funds
OutOfFunds(t, l) == [ResetLeg(t, l) EXCEPT !.exitState = "error"]

\* ORDER_OPENED: the leg is found by its reference only
Opened(t, l, d) ==
  IF l = "entry"
  THEN [t EXCEPT !.oid[l] = d.id, !.entryState = "opened"]
  ELSE [t EXCEPT !.oid[l] = d.id, !.exitState = "opened"]

\* ORDER_TRADED on the entry order; cum is never zero in an execution report
EntryTraded(t, d) ==
  LET e == d.cum - d.fee
      u == [t EXCEPT !.e = e, !.dirty = @ \/ d.cum > t.e]
  IN  IF e >= t.oq \/ d.full
      THEN [ResetLeg(u, "entry") EXCEPT !.entryState = "filled"]
      ELSE [u EXCEPT !.entryState = "partially_filled"]

\* update_exit_qty: cumulative when it grows, else the relative field
ExitFilled(t, l, d) == IF d.cum > t.exec[l] THEN d.cum - t.exec[l] ELSE d.filled

\* Mutant: compares with > and ignores that the order is fully filled
LateExitState(t, x, d) ==
  IF t.entryState = "filled" /\ x <= t.e THEN "partially_filled" ELSE "filled"

\* update_exit_state
ExitStateAfter(t, x, d) ==
  IF t.entryState = "filled"
  THEN IF x >= t.e \/ d.full THEN "filled" ELSE "partially_filled"
  ELSE IF HasOrder(t, "entry") /\ t.e < t.oq THEN "partially_filled" ELSE "filled"

\* Mutant: any execution resets the leg, a partial one too
ForgetfulExitTraded(t, l, d) ==
  LET filled == ExitFilled(t, l, d)
  IN  ResetLeg([t EXCEPT !.x = @ + filled,
                         !.exitState = ExitStateAfter(t, t.x + filled, d)], l)

\* ORDER_TRADED on the limit or the stop order
ExitTraded(t, l, d) ==
  LET filled == ExitFilled(t, l, d)
      exec == t.exec[l] + filled
      u == [t EXCEPT !.x = @ + filled, !.exec[l] = exec,
                     !.exitState = ExitStateAfter(t, t.x + filled, d)]
  IN  IF exec >= t.qty[l] \/ d.full THEN ResetLeg(u, l) ELSE u

\* ORDER_DELETED and ORDER_CANCELED
Removed(t, l) ==
  IF l = "entry" /\ t.e > 0
  THEN [ResetLeg(t, l) EXCEPT !.entryState = "filled"]
  ELSE ResetLeg(t, l)

\* ORDER_REJECTED
Rejected(t, l) ==
  IF l = "entry"
  THEN [ResetLeg(t, l) EXCEPT !.entryState = "rejected"]
  ELSE ResetLeg(t, l)

\* The leg of t a signal is about, when its kind finds one
SignalLegs(t, d) ==
  {l \in Legs :
     CASE d.kind = "opened"   -> ByRef(t, l, d.ref)
       [] d.kind = "traded"   -> ById(t, l, d.id) \/ ByRef(t, l, d.ref)
       [] d.kind = "rejected" -> ByRef(t, l, d.id)
       [] OTHER               -> ById(t, l, d.id)}

\* StrategyAssetTrade.order_signal
OrderSignal(t, d) ==
  IF SignalLegs(t, d) = {} THEN t
  ELSE LET l == CHOOSE k \in SignalLegs(t, d) : TRUE
       IN  CASE d.kind = "opened"   -> Opened(t, l, d)
             [] d.kind = "traded"   -> IF l = "entry" THEN EntryTraded(t, d)
                                                      ELSE ExitTraded(t, l, d)
             [] d.kind = "rejected" -> Rejected(t, l)
             [] OTHER               -> Removed(t, l)

---------------------------------------------------------------------------
(***************************************************************************)
(* Answers of order_info: the order as the exchange holds it, with the     *)
(* cumulated execution only (neither 'filled' nor the commission).         *)
(***************************************************************************)
OrderStatus == {"live", "closed", "canceled", "expired", "rejected"}

InfoSignal(kind, n, o) ==
  [kind |-> kind, id |-> n, ref |-> Ref(n), cum |-> o.filled, filled |-> 0,
   full |-> o.status = "closed", fee |-> 0]

\* The executed quantity the trade knows of a leg
Executed(t, l) == IF l = "entry" THEN t.e ELSE t.exec[l]

\* Mutant: resets the leg without looking at what it executed
BlindReset(t, l, n, o) == ResetLeg(t, l)

\* __check_and_reset_entry, _stop and _limit, once order_info found order o
CheckAndReset(t, l, n, o) ==
  ResetLeg(IF o.filled > Executed(t, l) THEN OrderSignal(t, InfoSignal("traded", n, o)) ELSE t, l)

\* Mutant: applies the end of the order, not its executions
EndByOrder(t, l, n, o) ==
  IF o.status = "live" THEN t ELSE OrderSignal(t, InfoSignal("deleted", n, o))

\* fix_by_order, as check calls it for leg l
FixByOrder(t, l, n, o) ==
  LET u == IF o.filled > Executed(t, l) \/ o.status = "closed"
           THEN OrderSignal(t, InfoSignal("traded", n, o)) ELSE t
  IN  CASE o.status = "closed" -> OrderSignal(u, InfoSignal("deleted", n, o))
        [] o.status \in {"expired", "canceled"} -> OrderSignal(u, InfoSignal("canceled", n, o))
        [] OTHER -> u
=============================================================================

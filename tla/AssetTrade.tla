----------------------------- MODULE AssetTrade -----------------------------
(***************************************************************************)
(* One spot trade of a strategy trader, its orders on the exchange and the *)
(* stream of execution reports between them.                               *)
(*                                                                         *)
(* Three parties take steps.  The exchange fills, expires, cancels and     *)
(* rejects orders on its own.  The thread holding the strategy trader's    *)
(* _trade_mutex (the strategy thread that delivers signals, the worker     *)
(* that runs update_trades, a command that takes the mutex) runs one       *)
(* operation at a time, one REST call per step, so that the exchange acts  *)
(* between two calls and signals wait.  The command thread runs the two    *)
(* commands that place or cancel orders without the mutex: the entry and   *)
(* the clean command.                                                      *)
(***************************************************************************)
EXTENDS AssetTradeOps, Sequences, FiniteSets, Folds

CONSTANTS
  Quantity,      \* the quantity of the entry order
  FillSizes,     \* bound: the quantities one execution may have
  BaseFee,       \* the commission an execution of a buy of n lots takes in lots
  IntIds,        \* create_order returns an identifier order_info does not know
  ApiFaults,     \* REST failures: subset of Faults
  ExchangeEvents,\* ends of an order the trader did not ask for
  Operations,    \* what the strategy and the user ask of the trade
  MaxOutages     \* bound: how often the stream is lost or the program restarted

Faults == {"cancel", "info", "create", "funds", "lost_reply"}

ASSUME ConstantsAssumption ==
  /\ Quantity \in Nat \ {0}
  /\ FillSizes \subseteq Nat \ {0}
  /\ BaseFee \in [FillSizes -> Nat] /\ \A k \in FillSizes : BaseFee[k] <= k
  /\ IntIds \in BOOLEAN
  /\ ApiFaults \subseteq Faults
  /\ ExchangeEvents \subseteq {"expired", "canceled", "rejected"}
  /\ Operations \subseteq {"exit", "take_profit", "stop_loss", "soft_close", "resize",
                           "check", "clean", "terminate"}
  /\ MaxOutages \in Nat

VARIABLES
  trade,     \* the fields of the StrategyAssetTrade
  listed,    \* the trade is in the strategy trader's _trades
  orders,    \* the trade's orders as the exchange holds them, by identifier
  account,   \* the lots their executions brought to and took from the account
  channel,   \* execution reports on their way to the strategy thread
  op,        \* the operation each thread is in
  connected, \* the user stream is up
  checked,   \* the check of the trades after a reconnection (_checked)
  outages    \* how often the stream was lost

vars == <<trade, listed, orders, account, channel, op, connected, checked, outages>>

Thread == {"mutex", "command"}

OpName == {"idle", "cancel_open", "resize", "take_profit", "stop_loss", "close",
           "finalize", "terminate", "clean", "check", "open_ok", "open_failed",
           "dirty_stop", "dirty_done", "recheck"}

CheckState == {"waiting", "progressing", "normal"}

Op == [name : OpName, todo : {s \in Seq(Legs) : Len(s) <= 3}, hard : BOOLEAN, price : BOOLEAN,
       failed : BOOLEAN, dirty : BOOLEAN]

\* An operation: the legs it still has to cancel or check, and its arguments
Operation(name, todo) ==
  [name |-> name, todo |-> todo, hard |-> FALSE, price |-> FALSE, failed |-> FALSE,
   dirty |-> FALSE]

Idle == Operation("idle", <<>>)

Order == [side : {"buy", "sell"}, qty : Int, filled : Nat, fee : Nat, status : OrderStatus]

Init ==
  /\ trade = NewTrade
  /\ listed = FALSE
  /\ orders = <<>>
  /\ account = [bought |-> 0, sold |-> 0]
  /\ channel = <<>>
  /\ op = [th \in Thread |-> Idle]
  /\ connected = TRUE
  /\ checked = "normal"
  /\ outages = 0

---------------------------------------------------------------------------
(***************************************************************************)
(* The exchange.                                                           *)
(***************************************************************************)
Signal(kind, n) ==
  [kind |-> kind, id |-> n, ref |-> Ref(n), cum |-> 0, filled |-> 0, full |-> FALSE, fee |-> 0]

\* Reports are lost while the stream is down
Report(d) == channel' = IF connected THEN Append(channel, d) ELSE channel

Live(n) == n \in DOMAIN orders /\ orders[n].status = "live"

\* An execution of k lots of order n
Fill(n, k) ==
  /\ Live(n)
  /\ orders[n].filled + k <= orders[n].qty
  /\ LET o == orders[n]
         cum == o.filled + k
         fee == IF o.side = "buy" THEN BaseFee[k] ELSE 0
     IN  /\ orders' = [orders EXCEPT ![n].filled = cum, ![n].fee = o.fee + fee,
                         ![n].status = IF cum = o.qty THEN "closed" ELSE "live"]
         /\ account' = IF o.side = "buy" THEN [account EXCEPT !.bought = @ + k - fee]
                                         ELSE [account EXCEPT !.sold = @ + k]
         /\ Report([Signal("traded", n) EXCEPT !.cum = cum, !.filled = k,
                      !.full = cum = o.qty, !.fee = fee])
  /\ UNCHANGED <<trade, listed, op, connected, checked, outages>>

\* The exchange, or the user on the exchange, ends order n
EndOrder(n, status) ==
  /\ status \in ExchangeEvents
  /\ Live(n)
  /\ status = "rejected" => orders[n].filled = 0
  /\ orders' = [orders EXCEPT ![n].status = status]
  /\ Report(CASE status = "expired"  -> [Signal("deleted", n) EXCEPT !.ref = None]
              [] status = "canceled" -> Signal("canceled", n)
              [] status = "rejected" -> [Signal("rejected", n) EXCEPT !.id = Ref(n), !.ref = None])
  /\ UNCHANGED <<account, trade, listed, op, connected, checked, outages>>

\* Room for k more orders
Room(k) == Len(orders) + k <= MaxOrders

\* The exchange accepts an order: it becomes the next one
Accept(side, qty) ==
  /\ Room(1)
  /\ orders' = Append(orders, [side |-> side, qty |-> qty, filled |-> 0, fee |-> 0,
                               status |-> "live"])
  /\ Report(Signal("opened", Len(orders) + 1))

Refuse == Room(1) /\ UNCHANGED <<orders, channel>>

NextId == IF IntIds THEN RawId(Len(orders) + 1) ELSE Len(orders) + 1

---------------------------------------------------------------------------
(***************************************************************************)
(* Opening.  cmd_trade_entry adds the trade, then calls open, neither under *)
(* the mutex while the order is placed: OpenReturn is the rest of open,    *)
(* after create_order returned.                                            *)
(***************************************************************************)
Free(th) == op[th].name = "idle"

Open ==
  /\ orders = <<>> /\ trade = NewTrade /\ Free("command") /\ Free("mutex")
  /\ listed' = TRUE
  /\ \E tp, sl \in BOOLEAN :
       trade' = [trade EXCEPT !.ref["entry"] = Ref(Len(orders) + 1), !.oq = Quantity,
                              !.tp = tp, !.sl = sl]
  /\ \/ /\ Accept("buy", Quantity)
        /\ op' = [op EXCEPT !["command"] = Operation("open_ok", <<>>)]
     \/ /\ "lost_reply" \in ApiFaults
        /\ Accept("buy", Quantity)
        /\ op' = [op EXCEPT !["command"] = Operation("open_failed", <<>>)]
     \/ /\ "create" \in ApiFaults
        /\ Refuse
        /\ op' = [op EXCEPT !["command"] = Operation("open_failed", <<>>)]
  /\ UNCHANGED <<account, connected, checked, outages>>

\* create_order returned: the entry is order 1
OpenReturn ==
  /\ op["command"].name = "open_ok"
  /\ trade' = [trade EXCEPT !.oid["entry"] = IF IntIds THEN RawId(1) ELSE 1]
  /\ op' = [op EXCEPT !["command"] = Idle]
  /\ UNCHANGED <<account, listed, orders, channel, connected, checked, outages>>

\* create_order failed: rejected, and the command removes the trade (taking the mutex)
OpenFailed ==
  /\ op["command"].name = "open_failed" /\ Free("mutex")
  /\ trade' = [trade EXCEPT !.entryState = "rejected"]
  /\ listed' = FALSE
  /\ op' = [op EXCEPT !["command"] = Idle]
  /\ UNCHANGED <<account, orders, channel, connected, checked, outages>>

---------------------------------------------------------------------------
(***************************************************************************)
(* Operations under the mutex.  An operation starts when the mutex is free *)
(* and the trade is in the list; its REST calls are the steps below.       *)
(***************************************************************************)
Start(th, o) == op' = [op EXCEPT ![th] = o]

Ready(o) == o \in Operations /\ listed /\ Free("mutex")

\* The strategy thread delivers the next report (StrategyTraderBase.order_signal)
DeliverSignal ==
  /\ channel # <<>> /\ Head(channel).kind # "connected" /\ Free("mutex")
  /\ channel' = Tail(channel)
  /\ LET d == Head(channel)
     IN  IF listed /\ IsTargetOrder(trade, d)
         THEN /\ trade' = OrderSignal(trade, d)
              /\ IF CanDelete(trade')
                 THEN Start("mutex", Operation("finalize", <<"entry", "stop", "limit">>))
                 ELSE UNCHANGED op
         ELSE UNCHANGED <<trade, op>>
  /\ UNCHANGED <<account, listed, orders, connected, checked, outages>>

\* or the watcher's signal that it is connected, which does not wait for the mutex
WatcherConnected ==
  /\ channel # <<>> /\ Head(channel).kind = "connected"
  /\ channel' = Tail(channel)
  /\ checked' = "waiting"
  /\ UNCHANGED <<account, trade, listed, orders, op, connected, outages>>

\* update_trades drops the trades that can be deleted
CleanupTrades ==
  /\ listed /\ Free("mutex") /\ CanDelete(trade) /\ ~IsError(trade)
  /\ listed' = FALSE
  /\ UNCHANGED <<account, trade, orders, channel, op, connected, checked, outages>>

\* cancel_open: the exit command on a trade not active, an entry timeout
CancelOpen ==
  /\ Ready("exit") /\ ~IsActive(trade) /\ HasOrder(trade, "entry")
  /\ Start("mutex", Operation("cancel_open", <<"entry">>))
  /\ UNCHANGED <<account, trade, listed, orders, channel, connected, checked, outages>>

\* The reinvest handler cancels a pending entry and reopens it
Resize ==
  /\ Ready("resize") /\ Room(1) /\ IsOpened(trade)
  /\ Start("mutex", Operation("resize", <<"entry">>))
  /\ UNCHANGED <<account, trade, listed, orders, channel, connected, checked, outages>>

\* The first guards of close, then the legs it cancels
CanClose(t) == ~t.closing /\ t.ref["stop"] = None

CloseOperation == Operation("close", <<"entry", "limit", "stop">>)

\* close: the exit command, check_trade_timeout, check_exit, check_reversal
Close ==
  /\ Ready("exit") /\ Room(1) /\ IsActive(trade) /\ CanClose(trade)
  /\ Start("mutex", CloseOperation)
  /\ UNCHANGED <<account, trade, listed, orders, channel, connected, checked, outages>>

\* What update_trades asks before it manages the exit of a trade
Manageable(t) ==
  t.managed /\ IsActive(t) /\ ~IsError(t) /\ ~IsClosing(t)

\* A soft take-profit or stop-loss price is reached
SoftExit(t) == (t.tp /\ ~HasOrder(t, "limit")) \/ (t.sl /\ ~HasOrder(t, "stop"))

\* update_trades closes at market (a dirty trade is updated first: UpdateDirty)
SoftClose ==
  /\ Ready("soft_close") /\ Room(1)
  /\ Manageable(trade) /\ ~trade.dirty /\ SoftExit(trade) /\ CanClose(trade)
  /\ Start("mutex", CloseOperation)
  /\ UNCHANGED <<account, trade, listed, orders, channel, connected, checked, outages>>

\* Mutant: an order may replace the closing order
CanAlwaysModify(t) == t.exitState # "filled"

\* The first guards of modify_take_profit and modify_stop_loss
CanModify(t) == ~t.closing /\ t.exitState # "filled"

\* Mutant: the order of the other leg is left alone
OwnLegOperation(name, hard, price, dirty) ==
  [Operation(name, IF name = "take_profit" THEN <<"limit">> ELSE <<"stop">>)
     EXCEPT !.hard = hard, !.price = price, !.dirty = dirty]

\* The legs modify_take_profit (modify_stop_loss) cancels: its own, and the other if hard
ModifyOperation(name, hard, price, dirty) ==
  LET own == IF name = "take_profit" THEN "limit" ELSE "stop"
      other == IF name = "take_profit" THEN "stop" ELSE "limit"
  IN  [Operation(name, IF hard THEN <<own, other>> ELSE <<own>>)
         EXCEPT !.hard = hard, !.price = price, !.dirty = dirty]

\* trade_modify_take_profit and trade_modify_stop_loss, as the modify command calls
\* them: hard when the order exists or when the user forces it
Modify(name) ==
  LET own == IF name = "take_profit" THEN "limit" ELSE "stop"
  IN  /\ Ready(name) /\ Room(1)
      /\ \E hard, price \in BOOLEAN :
           IF IsActive(trade)
           THEN /\ HasOrder(trade, own) => hard
                /\ CanModify(trade)
                /\ Start("mutex", ModifyOperation(name, hard, price, FALSE))
                /\ UNCHANGED trade
           ELSE /\ trade' = IF name = "take_profit" THEN [trade EXCEPT !.tp = price]
                                                    ELSE [trade EXCEPT !.sl = price]
                /\ UNCHANGED op
  /\ UNCHANGED <<account, listed, orders, channel, connected, checked, outages>>

\* update_trades, on a dirty trade: update_dirty, first its take-profit part
UpdateDirty ==
  /\ listed /\ Free("mutex") /\ Room(2)
  /\ Manageable(trade) /\ trade.dirty
  /\ Start("mutex", IF HasOrder(trade, "limit") /\ trade.tp /\ CanModify(trade)
                    THEN ModifyOperation("take_profit", TRUE, TRUE, TRUE)
                    ELSE Operation("dirty_stop", <<>>))
  /\ UNCHANGED <<account, trade, listed, orders, channel, connected, checked, outages>>

\* then its stop-loss part; failed tells that a part returned a negative code
UpdateDirtyStop ==
  /\ op["mutex"].name = "dirty_stop"
  /\ IF HasOrder(trade, "stop") /\ trade.sl /\ CanModify(trade)
     THEN Start("mutex", [ModifyOperation("stop_loss", TRUE, TRUE, TRUE)
                            EXCEPT !.failed = op["mutex"].failed])
     ELSE Start("mutex", [op["mutex"] EXCEPT !.name = "dirty_done"])
  /\ UNCHANGED <<account, trade, listed, orders, channel, connected, checked, outages>>

\* and the flag is cleared unless a part failed; update_trades goes on to the soft exits
UpdateDirtyDone ==
  /\ op["mutex"].name = "dirty_done"
  /\ trade' = [trade EXCEPT !.dirty = op["mutex"].failed]
  /\ \/ Start("mutex", Idle)
     \/ SoftExit(trade) /\ CanClose(trade) /\ Room(1) /\ Start("mutex", CloseOperation)
  /\ UNCHANGED <<account, listed, orders, channel, connected, checked, outages>>

\* The check command
Check ==
  /\ Ready("check")
  /\ Start("mutex", Operation("check", <<"entry", "stop", "limit">>))
  /\ UNCHANGED <<account, trade, listed, orders, channel, connected, checked, outages>>

\* check_trades, after a reconnection: it checks the trades of the list
CheckTrades ==
  /\ checked = "waiting" /\ Free("mutex")
  /\ checked' = "progressing"
  /\ Start("mutex", Operation("recheck", IF listed THEN <<"entry", "stop", "limit">> ELSE <<>>))
  /\ UNCHANGED <<account, trade, listed, orders, channel, connected, outages>>

\* terminate removes what is not an active position, the rest is kept for persistence
Terminate ==
  /\ Ready("terminate") /\ Free("command")
  /\ CanDelete(trade) \/ IsClosed(trade) \/ ~IsActive(trade)
  /\ Start("mutex", Operation("terminate", <<"entry", "stop", "limit">>))
  /\ UNCHANGED <<account, trade, listed, orders, channel, connected, checked, outages>>

\* The clean command takes _mutex, not _trade_mutex, around trade.remove
Clean ==
  /\ "clean" \in Operations /\ listed /\ Free("command")
  /\ Start("command", Operation("clean", <<"entry", "stop", "limit">>))
  /\ UNCHANGED <<account, trade, listed, orders, channel, connected, checked, outages>>

---------------------------------------------------------------------------
(***************************************************************************)
(* The REST calls of an operation: one leg after the other, those without  *)
(* an order skipped.                                                       *)
(***************************************************************************)
Removals == {"finalize", "terminate", "clean"}
Checks == {"check", "recheck"}

Pending(th) == {i \in DOMAIN op[th].todo : HasOrder(trade, op[th].todo[i])}

\* The place in todo of the next leg with an order
NextPlace(th) == CHOOSE i \in Pending(th) : \A j \in Pending(th) : i <= j

Advance(th, failed) ==
  Start(th, [op[th] EXCEPT !.todo = SubSeq(@, NextPlace(th) + 1, Len(@)),
                           !.failed = @ \/ failed])

\* The operation returns; update_dirty goes on, and keeps that a part returned a
\* negative code
Return(th, negative) ==
  Start(th, IF op[th].dirty
            THEN [Operation(IF op[th].name = "take_profit" THEN "dirty_stop" ELSE "dirty_done",
                            <<>>) EXCEPT !.failed = op[th].failed \/ negative]
            ELSE Idle)

\* order_info may fail, may not know an integer identifier, or finds the order
InfoFails == "info" \in ApiFaults

\* Mutant: every order cancel_order refused is taken for unknown
NeverKnown(t, l) == FALSE

Known(t, l) == t.oid[l] <= MaxOrders

\* The state remove, cancel_open and the reinvest handler leave once leg l is canceled
AfterCancel(name, l, t) ==
  IF l = "entry" /\ name # "close"
  THEN [t EXCEPT !.entryState = IF t.e <= 0 THEN "canceled" ELSE "filled"]
  ELSE IF name \in Removals
  THEN [t EXCEPT !.exitState = IF t.e <= 0 /\ t.x <= 0 THEN "canceled"
                               ELSE IF t.x >= t.e THEN "filled" ELSE "partially_filled"]
  ELSE t

\* and once order_info does not know the order
AfterUnknown(name, l, t) ==
  IF l = "entry" /\ name # "close"
  THEN [ResetLeg(t, l) EXCEPT !.entryState = "canceled"]
  ELSE ResetLeg(t, l)

CancelOnExchange(n) ==
  /\ orders' = [orders EXCEPT ![n].status = "canceled"]
  /\ Report(Signal("canceled", n))

\* cancel_order succeeds: only on a live order.  The execution order_info shows is
\* applied, when order_info answers
CancelAccepted(th) ==
  /\ Pending(th) # {} /\ op[th].name \notin Checks
  /\ LET l == op[th].todo[NextPlace(th)]
         n == OrderOf(trade.oid[l])
     IN  /\ Live(n)
         /\ CancelOnExchange(n)
         /\ \/ Known(trade, l)
               /\ trade' = AfterCancel(op[th].name, l,
                             CheckAndReset(trade, l, n, [orders[n] EXCEPT !.status = "canceled"]))
            \/ (InfoFails \/ ~Known(trade, l))
               /\ trade' = AfterCancel(op[th].name, l, ResetLeg(trade, l))
  /\ Advance(th, FALSE)
  /\ UNCHANGED <<account, listed, connected, checked, outages>>

\* cancel_order fails: the order is over, or the call failed (before or after the
\* exchange canceled it); order_info then tells an unknown order from one to retry
CancelRefused(th) ==
  /\ Pending(th) # {} /\ op[th].name \notin Checks
  /\ LET l == op[th].todo[NextPlace(th)]
         n == OrderOf(trade.oid[l])
     IN  /\ \/ (~Live(n) \/ "cancel" \in ApiFaults) /\ UNCHANGED <<orders, channel>>
            \/ Live(n) /\ "lost_reply" \in ApiFaults /\ CancelOnExchange(n)
         /\ \/ ~Known(trade, l)
               /\ trade' = AfterUnknown(op[th].name, l, trade)
               /\ Advance(th, FALSE)
            \/ (InfoFails \/ Known(trade, l))
               /\ UNCHANGED trade
               /\ IF op[th].name \in Removals THEN Advance(th, TRUE) ELSE Return(th, TRUE)
  /\ UNCHANGED <<account, listed, connected, checked, outages>>

\* check: one order_info, then fix_by_order
CheckLeg(th) ==
  /\ Pending(th) # {} /\ op[th].name \in Checks
  /\ LET l == op[th].todo[NextPlace(th)]
         n == OrderOf(trade.oid[l])
     IN  \/ Known(trade, l) /\ trade' = FixByOrder(trade, l, n, orders[n])
         \/ ~Known(trade, l) /\ trade' = ResetLeg(trade, l)
         \/ InfoFails /\ UNCHANGED trade
  /\ Advance(th, FALSE)
  /\ UNCHANGED <<account, listed, orders, channel, connected, checked, outages>>

---------------------------------------------------------------------------
(***************************************************************************)
(* What an operation does once no leg is left to cancel.                   *)
(***************************************************************************)
Last(th, names) == op[th].name \in names /\ Pending(th) = {}

\* The order that ends the modification or the closing, on its leg
ExitLeg(name) == IF name = "take_profit" THEN "limit" ELSE "stop"

Placed(t, name) ==
  LET l == ExitLeg(name)
      u == [t EXCEPT !.oid[l] = NextId, !.ref[l] = Ref(Len(orders) + 1),
                     !.qty[l] = Remaining(t), !.exec[l] = 0]
  IN  CASE name = "take_profit" -> [u EXCEPT !.tp = TRUE]
        [] name = "stop_loss" -> [u EXCEPT !.sl = TRUE]
        [] name = "close" -> [u EXCEPT !.closing = TRUE]

\* Nothing left to sell
NothingToExit(th) ==
  /\ Last(th, {"take_profit", "stop_loss", "close"})
  /\ trade.x >= trade.e
  /\ Return(th, FALSE)
  /\ UNCHANGED <<account, trade, listed, orders, channel, connected, checked, outages>>

\* A soft price, or no price, replaces the order
SoftPrice(th) ==
  /\ Last(th, {"take_profit", "stop_loss"})
  /\ trade.x < trade.e
  /\ ~(op[th].hard /\ op[th].price)
  /\ trade' = IF op[th].name = "take_profit" THEN [trade EXCEPT !.tp = op[th].price]
                                             ELSE [trade EXCEPT !.sl = op[th].price]
  /\ Return(th, FALSE)
  /\ UNCHANGED <<account, listed, orders, channel, connected, checked, outages>>

\* A limit, stop or market order for what remains to sell
CreateExit(th) ==
  /\ Last(th, {"take_profit", "stop_loss", "close"})
  /\ trade.x < trade.e
  /\ op[th].name # "close" => op[th].hard /\ op[th].price
  /\ \/ /\ Accept("sell", Remaining(trade))
        /\ trade' = Placed(trade, op[th].name)
        /\ Return(th, FALSE)
     \/ /\ \/ "create" \in ApiFaults /\ Refuse
           \/ "lost_reply" \in ApiFaults /\ Accept("sell", Remaining(trade))
        /\ trade' = ResetLeg(trade, ExitLeg(op[th].name))
        /\ Return(th, FALSE)
     \/ /\ "funds" \in ApiFaults /\ Refuse
        /\ trade' = OutOfFunds(trade, ExitLeg(op[th].name))
        /\ Return(th, TRUE)
  /\ UNCHANGED <<account, listed, connected, checked, outages>>

\* The reinvest handler reopens a canceled entry (reopen)
Reopen(th) ==
  /\ Last(th, {"resize"})
  /\ IF trade.entryState = "canceled"
     THEN LET u == [trade EXCEPT !.entryState = "new", !.oq = Quantity,
                                 !.ref["entry"] = Ref(Len(orders) + 1)]
          IN  \/ Accept("buy", Quantity) /\ trade' = [u EXCEPT !.oid["entry"] = NextId]
              \/ /\ \/ "create" \in ApiFaults /\ Refuse
                    \/ "lost_reply" \in ApiFaults /\ Accept("buy", Quantity)
                 /\ trade' = [u EXCEPT !.entryState = "rejected"]
     ELSE UNCHANGED <<trade, orders, channel>>
  /\ Start(th, Idle)
  /\ UNCHANGED <<account, listed, connected, checked, outages>>

\* The trade leaves the list: always after a signal closed it and after the clean
\* command (which then takes the mutex), unless a cancel failed after terminate
Unlist(th) ==
  /\ Last(th, Removals)
  /\ op[th].name = "clean" => Free("mutex")
  /\ listed' = (listed /\ op[th].name = "terminate" /\ op[th].failed)
  /\ Start(th, Idle)
  /\ UNCHANGED <<account, trade, orders, channel, connected, checked, outages>>

\* check_trades ends with _checked NORMAL, whatever it became since it started
Finish(th) ==
  /\ Last(th, {"cancel_open", "check", "recheck"})
  /\ checked' = IF op[th].name = "recheck" THEN "normal" ELSE checked
  /\ Start(th, Idle)
  /\ UNCHANGED <<account, trade, listed, orders, channel, connected, outages>>

---------------------------------------------------------------------------
(***************************************************************************)
(* Outages.  The reports of a broken stream are lost; the watcher's signal *)
(* that it is connected again makes the strategy trader check its trades.  *)
(***************************************************************************)
Disconnect ==
  /\ connected /\ outages < MaxOutages
  /\ connected' = FALSE
  /\ outages' = outages + 1
  /\ UNCHANGED <<account, trade, listed, orders, channel, op, checked>>

Reconnect ==
  /\ ~connected
  /\ connected' = TRUE
  /\ channel' = Append(channel, [Signal("connected", None) EXCEPT !.ref = None])
  /\ UNCHANGED <<account, trade, listed, orders, op, checked, outages>>

\* The program stops and starts again with an active trade: it is saved and loaded
\* without its dirty flag and without its type, and the reports of the downtime are lost
Restart ==
  /\ Ready("terminate") /\ Free("command") /\ outages < MaxOutages
  /\ IsActive(trade)
  /\ trade' = [trade EXCEPT !.dirty = FALSE, !.managed = FALSE]
  /\ channel' = <<>>
  /\ connected' = TRUE
  /\ checked' = "waiting"
  /\ outages' = outages + 1
  /\ UNCHANGED <<account, listed, orders, op>>

---------------------------------------------------------------------------
Step(th) ==
  \/ CancelAccepted(th) \/ CancelRefused(th) \/ CheckLeg(th) \/ NothingToExit(th)
  \/ SoftPrice(th) \/ CreateExit(th) \/ Reopen(th) \/ Unlist(th) \/ Finish(th)

Exchange ==
  \/ \E n \in DOMAIN orders, k \in FillSizes : Fill(n, k)
  \/ \E n \in DOMAIN orders, status \in ExchangeEvents : EndOrder(n, status)

Next ==
  \/ Exchange
  \/ Open \/ OpenReturn \/ OpenFailed
  \/ DeliverSignal \/ WatcherConnected \/ CleanupTrades
  \/ CancelOpen \/ Resize \/ Close \/ SoftClose \/ Modify("take_profit") \/ Modify("stop_loss")
  \/ UpdateDirty \/ UpdateDirtyStop \/ UpdateDirtyDone
  \/ Check \/ CheckTrades \/ Terminate \/ Clean
  \/ \E th \in Thread : Step(th)
  \/ Disconnect \/ Reconnect \/ Restart

Spec == Init /\ [][Next]_vars

(***************************************************************************)
(* Fairness.  The strategy thread waits on its queue and drains it; the    *)
(* worker runs update_trades at each tick; an operation under way goes on  *)
(* to its return; the matching engine executes market orders, which are    *)
(* the orders close places.                                                *)
(***************************************************************************)
ClosingFill == \E n \in DOMAIN orders, k \in FillSizes :
  trade.closing /\ orders[n].side = "sell" /\ Fill(n, k)

UpdateTrades ==
  \/ CleanupTrades \/ CheckTrades
  \/ UpdateDirty \/ UpdateDirtyStop \/ UpdateDirtyDone

Fairness ==
  /\ WF_vars(DeliverSignal \/ WatcherConnected)
  /\ WF_vars(UpdateTrades)
  /\ WF_vars(OpenReturn \/ OpenFailed \/ Step("command"))
  /\ WF_vars(Step("mutex"))
  /\ WF_vars(ClosingFill)

FairSpec == Spec /\ Fairness

---------------------------------------------------------------------------
(***************************************************************************)
(* Properties.                                                             *)
(***************************************************************************)
\* Every variable has its type, whatever the exchange, the API and the user do
TypeOK ==
  /\ trade \in Trade
  /\ listed \in BOOLEAN
  /\ orders \in Seq(Order)
  /\ account \in [bought : Nat, sold : Nat]
  /\ channel \in Seq(SignalData)
  /\ op \in [Thread -> Op]
  /\ connected \in BOOLEAN
  /\ checked \in CheckState
  /\ outages \in Nat

LiveSells == {n \in DOMAIN orders : Live(n) /\ orders[n].side = "sell"}

\* The lots sold, and those the live sell orders may still sell
Committed ==
  account.sold + MapThenFoldSet(+, 0, LAMBDA n : orders[n].qty - orders[n].filled,
                                LAMBDA s : CHOOSE n \in s : TRUE, LiveSells)

\* Nothing is under way: the trade should agree with the exchange
AtRest == channel = <<>> /\ connected /\ checked = "normal" /\ Free("mutex") /\ Free("command")

\* The trade never sells, or offers to sell, more than it bought: modify_take_profit,
\* modify_stop_loss, close and update_dirty cancel the live exit order and learn its
\* executions before they place one for the remaining quantity
NoOversell == Committed <= account.bought

\* On the spot market one exit order at a time: "a take-profit limit or a stop-loss"
SingleExit == Cardinality(LiveSells) <= 1

\* Once the reports are delivered the entered and exited quantities of the trade are
\* what its orders executed, those canceled in flight included
ExactBooks == AtRest /\ listed => trade.e = account.bought /\ trade.x = account.sold

\* A trade leaves the list (finalize_trade, update_trades, cmd_trade_entry) only when
\* none of its orders may still execute, save one finalize_trade just failed to cancel
NoOrphan ==
  [][listed /\ ~listed' /\ ~op["mutex"].failed => \A n \in DOMAIN orders : ~Live(n)]_vars

\* Once the reports are delivered the trade holds the identifier of each live order, so
\* that the next operation can cancel it
Tracked ==
  AtRest /\ listed => \A n \in DOMAIN orders : Live(n) => \E l \in Legs : trade.oid[l] = n

\* After a lost stream or a restart, check_trades has found every execution missed in
\* the meantime (once the entry is acknowledged: while open waits for create_order
\* there is no identifier to check)
NothingMissed ==
  AtRest /\ listed /\ trade.entryState # "new" =>
    trade.x >= account.sold /\ trade.e >= account.bought

\* Once close has placed its market order no other sell order is placed, by a user's
\* modification, update_dirty, a soft exit or a second close, whatever fails
NoSellAfterClosing ==
  [][trade.closing => \A n \in DOMAIN orders' \ DOMAIN orders : orders'[n].side = "buy"]_vars

\* A fully entered trade being closed is eventually sold and removed from the list,
\* unless the exchange itself ended its closing order: close is not tried again
ClosingEnds ==
  trade.closing /\ trade.entryState = "filled" ~>
    \/ ~listed
    \/ orders # <<>> /\ orders[Len(orders)].status \in ExchangeEvents
=============================================================================

---------------------------- MODULE MarginTrades ----------------------------
(***************************************************************************)
(* The trades of one market of a futures exchange                          *)
(* (strategy/trade/strategyindmargintrade.py).  They share one indivisible *)
(* position: the exchange knows the orders of each trade, but only the sum *)
(* of what they executed.  The user data stream reports executions and,    *)
(* through the watcher's memory of the last positions                      *)
(* (watcher/connector/binancefutures/watcher.py), that the position is     *)
(* gone.                                                                   *)
(*                                                                         *)
(* An operation of the strategy on a trade, with all its REST calls, is    *)
(* one step here: it looks at each order once, when it cancels it, so that *)
(* an execution between two of its calls has the effect of one before the  *)
(* first.  Each call has an answer of its own, and may fail (ApiFaults).   *)
(* The exchange acts, and the stream delivers, between operations.         *)
(* Quantities are in lots; prices and fees are left out.                   *)
(***************************************************************************)
EXTENDS Integers, Sequences, FiniteSets, Folds

CONSTANTS Trades,      \* the trades that may be opened on the market
          Quantity,    \* [Trades -> the quantity of its entry order]
          MaxOrders,   \* bound: orders placed on the market
          MaxReports,  \* bound: reports that wait when the exchange acts
          Directions,  \* the directions to consider: subset of {"long", "short"}
          Outside,     \* the user also acts on the exchange: BOOLEAN
          ApiFaults    \* the answers of the REST calls that go wrong

ASSUME MarginAssumption ==
    /\ IsFiniteSet(Trades)
    /\ Quantity \in [Trades -> Nat \ {0}]
    /\ MaxOrders \in Nat /\ MaxReports \in Nat
    /\ Directions \subseteq {"long", "short"}
    /\ Outside \in BOOLEAN
    /\ ApiFaults \subseteq {"refused", "lost", "blind", "unknown", "rejected", "margin"}

VARIABLES
    dir,      \* the direction of the market's position and of every trade
    trade,    \* [Trades -> the fields of its StrategyIndMarginTrade]
    listed,   \* the trades that are in StrategyTraderBase._trades
    orders,   \* the orders on the exchange, by identifier
    position, \* the quantity of the position on the exchange
    outside,  \* the user has closed the position on the exchange
    known,    \* the keys of the watcher's _last_positions
    channel   \* reports on their way to the strategy trader

vars == <<dir, trade, listed, orders, position, outside, known, channel>>

Legs == {"create", "stop", "limit"}
ExitLegs == {"stop", "limit"}
None == 0

Trade ==
    [entry : {"new", "rejected", "opened", "partially_filled", "filled",
              "canceled", "deleted"},
     exit : {"new", "canceled", "partially_filled", "filled", "error"},
     oid : [Legs -> 0..MaxOrders], qty : [ExitLegs -> Nat],
     exec : [ExitLegs -> Nat], e : Nat, x : Nat,
     tp : BOOLEAN, sl : BOOLEAN, closing : BOOLEAN, dirty : BOOLEAN,
     position : BOOLEAN,
     blind : BOOLEAN]  \* (history) a leg was reset without an answer on its order

Order == [trade : Trades, leg : Legs, qty : Nat, filled : Nat,
          status : {"live", "closed", "canceled"}]

Report == [kind : {"opened", "traded", "deleted", "canceled", "moved", "gone"},
           id : 0..MaxOrders, cum : Nat, filled : Nat, full : BOOLEAN]

TypeOK ==
    /\ dir \in Directions
    /\ trade \in [Trades -> Trade]
    /\ listed \in SUBSET Trades
    /\ orders \in Seq(Order)
    /\ position \in Nat /\ outside \in BOOLEAN
    /\ known \in SUBSET {"long", "short"}
    /\ channel \in Seq(Report)

NewTrade ==
    [entry |-> "new", exit |-> "new", oid |-> [l \in Legs |-> None],
     qty |-> [l \in ExitLegs |-> 0], exec |-> [l \in ExitLegs |-> 0],
     e |-> 0, x |-> 0, tp |-> FALSE, sl |-> FALSE, closing |-> FALSE,
     dirty |-> FALSE, position |-> FALSE, blind |-> FALSE]

Init ==
    /\ dir \in Directions
    /\ trade = [t \in Trades |-> NewTrade]
    /\ listed = {}
    /\ orders = <<>>
    /\ position = 0 /\ outside = FALSE
    /\ known = {}
    /\ channel = <<>>

-----------------------------------------------------------------------------
(***************************************************************************)
(* State predicates of StrategyTrade.                                      *)
(***************************************************************************)

CanDelete(u) ==
    \/ u.entry = "filled" /\ u.exit = "filled"
    \/ u.entry = "rejected"
    \/ u.entry \in {"canceled", "deleted"} /\ u.e = 0

IsClosed(u) == u.exit = "filled"
IsActive(u) == ~IsClosed(u) /\ u.entry \in {"partially_filled", "filled"}
IsClosing(u) == u.closing /\ ~IsClosed(u)

-----------------------------------------------------------------------------
(***************************************************************************)
(* What a report does to the fields of the trade it is about.              *)
(***************************************************************************)

\* __reset_create, __reset_stop and __reset_limit.
ResetLeg(u, l) ==
    IF l = "create" THEN [u EXCEPT !.oid[l] = None]
    ELSE [u EXCEPT !.oid[l] = None, !.qty[l] = 0, !.exec[l] = 0]

\* Mutant: only the first execution makes the exit orders dirty.
OnceDirtyEntryTraded(u, q, cum, full) ==
    LET v == [u EXCEPT !.e = cum, !.dirty = @ \/ u.e = 0]
    IN  IF cum >= q \/ full
        THEN [ResetLeg(v, "create") EXCEPT !.entry = "filled"]
        ELSE [v EXCEPT !.entry = "partially_filled"]

\* ORDER_TRADED of the entry order, whose quantity is cumulative.
EntryTraded(u, q, cum, full) ==
    LET v == [u EXCEPT !.e = cum, !.dirty = @ \/ cum > u.e]
    IN  IF cum >= q \/ full
        THEN [ResetLeg(v, "create") EXCEPT !.entry = "filled"]
        ELSE [v EXCEPT !.entry = "partially_filled"]

\* Mutant: the last execution does not fill the exit.
LateExitState(u, q, x, full) ==
    IF u.entry = "filled"
    THEN IF x > u.e THEN "filled" ELSE "partially_filled"
    ELSE IF u.oid["create"] # None /\ u.e < q THEN "partially_filled"
         ELSE "filled"

\* update_exit_state.
ExitState(u, q, x, full) ==
    IF u.entry = "filled"
    THEN IF x >= u.e \/ full THEN "filled" ELSE "partially_filled"
    ELSE IF u.oid["create"] # None /\ u.e < q THEN "partially_filled"
         ELSE "filled"

\* Mutant: the cumulated quantity is added as if it were relative.
CumulatedExitTraded(u, q, l, cum, filled, full) ==
    LET v == [u EXCEPT !.x = @ + cum, !.exec[l] = @ + cum,
                       !.exit = ExitState(u, q, u.x + cum, full)]
    IN  IF v.exec[l] >= v.qty[l] \/ full THEN ResetLeg(v, l) ELSE v

\* ORDER_TRADED of an exit order: the cumulated quantity when it grows, else
\* the relative one.
ExitTraded(u, q, l, cum, filled, full) ==
    LET k == IF cum > u.exec[l] THEN cum - u.exec[l] ELSE filled
        v == [u EXCEPT !.x = @ + k, !.exec[l] = @ + k,
                       !.exit = ExitState(u, q, u.x + k, full)]
    IN  IF v.exec[l] >= v.qty[l] \/ full THEN ResetLeg(v, l) ELSE v

Traded(u, q, l, cum, filled, full) ==
    IF l = "create" THEN EntryTraded(u, q, cum, full)
    ELSE ExitTraded(u, q, l, cum, filled, full)

\* ORDER_DELETED and ORDER_CANCELED.
Ended(u, l, kind) ==
    IF l = "create" /\ u.e = 0
    THEN [ResetLeg(u, l) EXCEPT !.entry = kind]
    ELSE ResetLeg(u, l)

\* order_signal, for the leg whose order the report is about.
OrderSignal(u, q, r) ==
    LET l == CHOOSE k \in Legs : u.oid[k] = r.id
    IN  CASE r.kind = "opened" ->
                IF l = "create" /\ u.e = 0 THEN [u EXCEPT !.entry = "opened"]
                ELSE u
          [] r.kind = "traded" -> Traded(u, q, l, r.cum, r.filled, r.full)
          [] OTHER -> Ended(u, l, r.kind)

\* Mutant: only a trade that is fully entered is concerned.
FilledPositionDeleted(u) ==
    IF u.entry # "filled" THEN u
    ELSE [u EXCEPT !.position = FALSE, !.x = IF u.x < u.e THEN u.e ELSE u.x,
                   !.exit = "filled"]

\* POSITION_DELETED: what is not exited counts as exited.  The timestamp of the
\* report is in milliseconds and that of the entry in seconds, so that the
\* report always passes for the later one.
PositionDeleted(u) ==
    IF u.e = 0 THEN u
    ELSE [u EXCEPT !.position = FALSE, !.x = IF u.x < u.e THEN u.e ELSE u.x,
                   !.exit = "filled"]

-----------------------------------------------------------------------------
(***************************************************************************)
(* An operation works on its trade u and on the exchange: a world.         *)
(***************************************************************************)

World(t) == [u |-> trade[t], o |-> orders, c |-> channel]

Rep(kind, n) ==
    [kind |-> kind, id |-> n, cum |-> 0, filled |-> 0, full |-> FALSE]

\* What comes of cancel_order, and of the order_info that follows it: the order
\* is canceled and what it executed is told; or canceled, but order_info has no
\* answer or does not find it ("blind"); not canceled ("refused"), or canceled but
\* the reply is an error ("lost"), and order_info has no answer or finds it; not
\* canceled, and order_info does not find it ("unknown").
CancelAnswers == {"counted"} \cup (ApiFaults \cap {"refused", "lost", "blind", "unknown"})

\* remove does not ask for an order it could not cancel.
RemoveAnswers == CancelAnswers \ {"unknown"}

\* What comes of create_order: REASON_ERROR and REASON_INSUFFICIENT_MARGIN.
PlaceAnswers == {"accepted"} \cup (ApiFaults \cap {"rejected", "margin"})

\* The answers on the orders that the legs ls of u name.
Answers(u, ls, A) == [{l \in ls : u.oid[l] # None} -> A]

\* cancel_order; an order the exchange no longer has counts as canceled.
CancelOrder(w, n) ==
    IF w.o[n].status # "live" THEN w
    ELSE [w EXCEPT !.o[n].status = "canceled",
                   !.c = Append(@, Rep("canceled", n))]

\* The leg is reset, and what its order executed is not known.
BlindReset(u, l) == [ResetLeg(u, l) EXCEPT !.blind = TRUE]

\* Mutant: the leg is reset without asking what was executed.
BlindCanceled(w, q, l, a) ==
    IF a \in {"refused", "lost"} THEN w
    ELSE [CancelOrder(w, w.u.oid[l]) EXCEPT !.u = ResetLeg(w.u, l)]

\* cancel_order, then __check_and_reset_...: order_info tells what was executed.
\* The leg is reset, unless the cancel failed and order_info finds the order; blindly
\* when order_info has no answer, or does not find the order.
Canceled(w, q, l, a) ==
    LET n == w.u.oid[l]
        o == w.o[n]
        done == IF l = "create" THEN w.u.e ELSE w.u.exec[l]
        u == IF a = "counted" /\ o.filled > done
             THEN Traded(w.u, q, l, o.filled, 0, o.status = "closed")
             ELSE w.u
        v == IF a \in {"refused", "unknown"} THEN w ELSE CancelOrder(w, n)
    IN  CASE a = "counted" -> [v EXCEPT !.u = ResetLeg(u, l)]
          [] a \in {"refused", "lost"} -> v
          [] OTHER -> [v EXCEPT !.u = BlindReset(w.u, l)]

\* The set makes TLC evaluate the world once, also under ENABLED.
CancelLeg(world, q, l, a) ==
    CHOOSE c \in {IF w.u.oid[l] = None THEN w ELSE Canceled(w, q, l, a[l]) :
                    w \in {world}} : TRUE

\* create_order of an exit order for what remains: the exchange takes a reduce
\* only order while there is a position.
PlaceExit(w, t, l, p) ==
    LET k == w.u.e - w.u.x
        u == ResetLeg(w.u, l)
    IN  IF p = "accepted" /\ position > 0
        THEN [w EXCEPT !.u.oid[l] = Len(w.o) + 1, !.u.qty[l] = k,
                       !.u.exec[l] = 0,
                       !.o = Append(@, [trade |-> t, leg |-> l, qty |-> k,
                                        filled |-> 0, status |-> "live"])]
        ELSE [w EXCEPT !.u = IF p = "margin" THEN [u EXCEPT !.exit = "error"] ELSE u]

Room(k) == Len(orders) + k <= MaxOrders

Becomes(t, world) ==
    \E w \in {world} :
       /\ trade' = [trade EXCEPT ![t] = w.u]
       /\ orders' = w.o
       /\ channel' = w.c

\* open: the entry order is placed, or refused and the trade is dropped.
Open(t) ==
    /\ trade[t] = NewTrade /\ Room(1)
    /\ \/ /\ trade' = [trade EXCEPT ![t].oid["create"] = Len(orders) + 1,
                                    ![t].position = TRUE]
          /\ orders' = Append(orders, [trade |-> t, leg |-> "create",
                                       qty |-> Quantity[t], filled |-> 0,
                                       status |-> "live"])
          /\ channel' = Append(channel, Rep("opened", Len(orders) + 1))
          /\ listed' = listed \cup {t}
       \/ /\ trade' = [trade EXCEPT ![t].entry = "rejected"]
          /\ UNCHANGED <<orders, channel, listed>>
    /\ UNCHANGED <<dir, position, outside, known>>

\* cancel_open, on a trade that is not active.
CancelOpen(t) ==
    /\ t \in listed /\ ~IsActive(trade[t])
    /\ trade[t].oid["create"] # None
    /\ \E a \in Answers(trade[t], {"create"}, CancelAnswers) :
         LET w == CancelLeg(World(t), Quantity[t], "create", a)
             over == IF a["create"] = "unknown" \/ w.u.e = 0 THEN "canceled"
                     ELSE "filled"
         IN  Becomes(t, IF w.u.oid["create"] # None THEN w
                        ELSE [w EXCEPT !.u.entry = over])
    /\ UNCHANGED <<dir, listed, position, outside, known>>

\* modify_take_profit and modify_stop_loss: the order of the leg is replaced;
\* without one, a price that is watched by update_trades.
Modify(w, t, l, hard, a, p) ==
    LET v == CancelLeg(w, Quantity[t], l, a)
    IN  IF w.u.closing \/ IsClosed(w.u) THEN w
        ELSE IF v.u.oid[l] # None \/ v.u.x >= v.u.e THEN v
        ELSE LET d == IF hard THEN PlaceExit(v, t, l, p) ELSE v
             IN  IF hard /\ d.u.oid[l] = None THEN d
                 ELSE IF l = "limit" THEN [d EXCEPT !.u.tp = TRUE]
                                     ELSE [d EXCEPT !.u.sl = TRUE]

ModifyExit(t) ==
    /\ t \in listed /\ IsActive(trade[t]) /\ Room(1)
    /\ \E l \in ExitLegs, hard \in BOOLEAN, p \in PlaceAnswers :
       \E a \in Answers(trade[t], {l}, CancelAnswers) :
         /\ trade[t].oid[l] # None => hard
         /\ Becomes(t, Modify(World(t), t, l, hard, a, p))
    /\ UNCHANGED <<dir, listed, position, outside, known>>

\* The exit order of a leg that has one, and a price.
Replaces(u, l) == u.oid[l] # None /\ IF l = "limit" THEN u.tp ELSE u.sl

Replace(w, t, l, a, p) ==
    IF Replaces(w.u, l) THEN Modify(w, t, l, TRUE, a, p) ELSE w

\* The modification that led from v to w is an ERROR or INSUFFICIENT_MARGIN: the
\* order could not be canceled, or the margin was missing.
Failed(v, w, l, p) ==
    /\ Replaces(v.u, l) /\ ~IsClosed(v.u)
    /\ \/ w.u.oid[l] = v.u.oid[l]
       \/ w.u.oid[l] = None /\ w.u.x < w.u.e /\ p = "margin"

\* update_dirty: after more of the entry was executed, the exit orders are
\* placed again for the new quantity.  A creation that is REJECTED clears the
\* flag, for it is not below zero.
UpdateDirty(t) ==
    /\ t \in listed
    /\ Room(Cardinality({l \in ExitLegs : trade[t].oid[l] # None}))
    /\ IsActive(trade[t]) /\ ~IsClosing(trade[t]) /\ trade[t].dirty
    /\ \E a \in Answers(trade[t], ExitLegs, CancelAnswers), p \in [ExitLegs -> PlaceAnswers] :
         LET w == World(t)
             v == Replace(w, t, "limit", a, p["limit"])
             b == Replace(v, t, "stop", a, p["stop"])
         IN  Becomes(t, [b EXCEPT !.u.dirty = \/ Failed(w, v, "limit", p["limit"])
                                              \/ Failed(v, b, "stop", p["stop"])])
    /\ UNCHANGED <<dir, listed, position, outside, known>>

\* The legs in ls have no order left.
Free(u, ls) == \A l \in ls : u.oid[l] = None

\* close: every order of the trade is canceled, up to the first that cannot be;
\* then what remains is closed at market.
Closed(w, t, a, p) ==
    LET q == Quantity[t]
        v == CancelLeg(w, q, "create", a)
        b == IF w.u.oid["create"] # None /\ Free(v.u, {"create"}) /\ v.u.e = 0
             THEN [v EXCEPT !.u.entry = "canceled"] ELSE v
        s == IF Free(b.u, {"create"}) THEN CancelLeg(b, q, "stop", a) ELSE b
        c == IF Free(s.u, {"create", "stop"}) THEN CancelLeg(s, q, "limit", a) ELSE s
        d == PlaceExit(c, t, "stop", p)
    IN  IF ~Free(c.u, Legs) \/ c.u.x >= c.u.e THEN c
        ELSE [d EXCEPT !.u.closing = d.u.oid["stop"] # None]

Close(t) ==
    /\ t \in listed /\ IsActive(trade[t]) /\ ~trade[t].closing /\ Room(1)
    /\ \E a \in Answers(trade[t], Legs, CancelAnswers), p \in PlaceAnswers :
         Becomes(t, Closed(World(t), t, a, p))
    /\ UNCHANGED <<dir, listed, position, outside, known>>

\* remove, of finalize_trade: every order is canceled, or left behind when it
\* cannot be.  The trade is dropped, whatever remove answers.
Finalized(w, q, a) ==
    CancelLeg(CancelLeg(CancelLeg(w, q, "create", a), q, "stop", a), q, "limit", a)

-----------------------------------------------------------------------------
(***************************************************************************)
(* The signals of the strategy trader (order_signal, position_signal), and *)
(* the cleanup that ends update_trades.                                    *)
(***************************************************************************)

OrderReports == {"opened", "traded", "deleted", "canceled"}

DeliverOrder ==
    /\ channel # <<>> /\ Head(channel).kind \in OrderReports
    /\ LET r == Head(channel)
           targets == {t \in listed : \E l \in Legs : trade[t].oid[l] = r.id}
       IN  IF targets = {}
           THEN /\ channel' = Tail(channel)
                /\ UNCHANGED <<trade, listed, orders>>
           ELSE \E t \in targets :
                  LET u == OrderSignal(trade[t], Quantity[t], r)
                      w == [u |-> u, o |-> orders, c |-> Tail(channel)]
                  IN  IF CanDelete(u)
                      THEN /\ \E a \in Answers(u, Legs, RemoveAnswers) :
                                Becomes(t, Finalized(w, Quantity[t], a))
                           /\ listed' = listed \ {t}
                      ELSE Becomes(t, w) /\ UNCHANGED listed
    /\ UNCHANGED <<dir, position, outside, known>>

\* The answers to remove on the trades of S, whose fields are u.
Removals(u, S) ==
    {a \in [S -> UNION {Answers(u[t], Legs, RemoveAnswers) : t \in S}] :
        \A t \in S : a[t] \in Answers(u[t], Legs, RemoveAnswers)}

\* Each trade of S, whose fields are u, is finalized after the other; a has the
\* answers to its cancels.
Dismissed(u, S, a) ==
    LET Drop(t, w) ==
          LET v == Finalized([u |-> u[t], o |-> w.o, c |-> w.c], Quantity[t], a[t])
          IN  [t |-> [w.t EXCEPT ![t] = v.u], o |-> v.o, c |-> v.c]
    IN  MapThenFoldSet(Drop, [t |-> u, o |-> orders, c |-> Tail(channel)],
                       LAMBDA t : t, LAMBDA s : CHOOSE t \in s : TRUE, S)

\* A report on the position concerns every trade of the market.  One that is
\* closed leaves the list, whatever the report says.
DeliverPosition ==
    /\ channel # <<>> /\ Head(channel).kind \notin OrderReports
    /\ LET told == {t \in listed : trade[t].position}
           u == [t \in Trades |-> IF t \in told /\ Head(channel).kind = "gone"
                                  THEN PositionDeleted(trade[t]) ELSE trade[t]]
           closed == {t \in told : IsClosed(u[t])}
       IN  /\ \E a \in Removals(u, closed) : \E end \in {Dismissed(u, closed, a)} :
                 trade' = end.t /\ orders' = end.o /\ channel' = end.c
           /\ listed' = listed \ closed
    /\ UNCHANGED <<dir, position, outside, known>>

\* The end of update_trades: the trades that can be deleted are dropped as they
\* are, without finalize_trade.
CleanupTrades ==
    /\ \E t \in listed : CanDelete(trade[t])
    /\ listed' = {t \in listed : ~CanDelete(trade[t])}
    /\ UNCHANGED <<dir, trade, orders, position, outside, known, channel>>

-----------------------------------------------------------------------------
(***************************************************************************)
(* The exchange, and what the watcher makes of its reports.                *)
(***************************************************************************)

\* ACCOUNT_UPDATE: the watcher remembers the quantity under the direction it
\* reads in the report, and an empty position reads as short.
AccountUpdate(p) ==
    IF p > 0 THEN <<Rep("moved", None)>>
    ELSE IF "short" \in known THEN <<Rep("gone", None)>> ELSE <<>>

Remembered(p) ==
    IF p > 0 THEN known \cup {dir} ELSE known \ {"short"}

\* Mutant: the exit orders are sent without reduce_only.
FreeFill(n, k) ==
    LET o == orders[n]
        p == IF o.leg = "create" THEN position + k ELSE position - k
        full == o.filled + k = o.qty
    IN  /\ o.status = "live" /\ k <= o.qty - o.filled
        /\ orders' = [orders EXCEPT ![n].filled = @ + k,
                                    ![n].status = IF full THEN "closed" ELSE @]
        /\ position' = p
        /\ known' = Remembered(p)
        /\ channel' = channel
             \o <<[kind |-> "traded", id |-> n, cum |-> o.filled + k,
                   filled |-> k, full |-> full]>>
             \o AccountUpdate(p)
        /\ UNCHANGED <<dir, trade, listed, outside>>

\* k lots of the order n are executed; an exit order reduces the position.
Fill(n, k) ==
    LET o == orders[n]
        p == IF o.leg = "create" THEN position + k ELSE position - k
        full == o.filled + k = o.qty
    IN  /\ o.status = "live" /\ k <= o.qty - o.filled
        /\ o.leg # "create" => k <= position
        /\ orders' = [orders EXCEPT ![n].filled = @ + k,
                                    ![n].status = IF full THEN "closed" ELSE @]
        /\ position' = p
        /\ known' = Remembered(p)
        /\ channel' = channel
             \o <<[kind |-> "traded", id |-> n, cum |-> o.filled + k,
                   filled |-> k, full |-> full]>>
             \o AccountUpdate(p)
        /\ UNCHANGED <<dir, trade, listed, outside>>

\* The order n closes its trade at market.
Market(n) ==
    LET u == trade[orders[n].trade] IN u.closing /\ u.oid["stop"] = n

\* Without a position an exit order expires.  The watcher says nothing of a stop
\* order that expires, as one that triggers does.
Expire(n) ==
    LET o == orders[n]
    IN  /\ o.status = "live" /\ o.leg # "create" /\ position = 0
        /\ orders' = [orders EXCEPT ![n].status = "canceled"]
        /\ channel' = IF o.leg = "stop" /\ ~Market(n) THEN channel
                      ELSE Append(channel, Rep("deleted", n))
        /\ UNCHANGED <<dir, trade, listed, position, outside, known>>

\* The user closes the position, or cancels an entry order, on the exchange.
ClosePosition ==
    /\ Outside /\ ~outside /\ position > 0
    /\ position' = 0 /\ outside' = TRUE
    /\ known' = Remembered(0)
    /\ channel' = channel \o AccountUpdate(0)
    /\ UNCHANGED <<dir, trade, listed, orders>>

CancelEntry(n) ==
    /\ Outside /\ orders[n].status = "live" /\ orders[n].leg = "create"
    /\ \E kind \in {"canceled", "deleted"} :
          channel' = Append(channel, Rep(kind, n))
    /\ orders' = [orders EXCEPT ![n].status = "canceled"]
    /\ UNCHANGED <<dir, trade, listed, position, outside, known>>

Strategy(t) ==
    Open(t) \/ CancelOpen(t) \/ ModifyExit(t) \/ UpdateDirty(t) \/ Close(t)

Signals == DeliverOrder \/ DeliverPosition \/ CleanupTrades

Exchange ==
    /\ Len(channel) < MaxReports
    /\ \/ ClosePosition
       \/ \E n \in DOMAIN orders :
            \/ \E k \in 1..orders[n].qty : Fill(n, k)
            \/ Expire(n)
            \/ CancelEntry(n)

Next == (\E t \in Trades : Strategy(t)) \/ Signals \/ Exchange

Spec == Init /\ [][Next]_vars

\* The exchange executes a market order, or expires it.
ServeClosing ==
    /\ Len(channel) < MaxReports
    /\ \E n \in DOMAIN orders :
         /\ orders[n].status = "live" /\ Market(n)
         /\ Expire(n) \/ \E k \in 1..orders[n].qty : Fill(n, k)

\* The strategy thread empties its queue again and again, the exchange serves its
\* market orders.  There are finitely many reports: the first condition is what
\* weak fairness of the deliveries amounts to.
Fairness ==
    []<>(channel = <<>>) /\ WF_vars(ServeClosing)

FairSpec == Spec /\ Fairness

-----------------------------------------------------------------------------
Sum(f, S) == MapThenFoldSet(+, 0, LAMBDA n : f[n], LAMBDA s : CHOOSE n \in s : TRUE, S)

\* What the orders os of some legs of a trade executed.
TotalOf(os, t, legs) ==
    Sum([n \in DOMAIN os |-> os[n].filled],
        {n \in DOMAIN os : os[n].trade = t /\ os[n].leg \in legs})

Total(t, legs) == TotalOf(orders, t, legs)

Pending(t) ==
    \E i \in DOMAIN channel :
       /\ channel[i].kind = "traded" /\ orders[channel[i].id].trade = t

\* Once the reports of its executions are served, a trade in the list knows
\* exactly what its orders executed, whatever it learnt from a report and
\* whatever from order_info after a cancel, whatever cancel or creation failed,
\* and whatever happens to the trade it shares the position with.  A trade is left
\* out once order_info had no answer on one of its orders: the leg is reset then,
\* and the reports that are still on their way match nothing.
BooksMatch ==
    \A t \in listed : ~Pending(t) /\ ~trade[t].blind =>
        /\ trade[t].e = Total(t, {"create"})
        /\ trade[t].x = Total(t, ExitLegs)

\* Whatever the calls answer, a trade in the list never counts more than what
\* its orders executed: no execution is counted from order_info, then from its
\* report, then from that of another order.
NeverMore ==
    \A t \in listed :
        /\ trade[t].e <= Total(t, {"create"})
        /\ trade[t].x <= Total(t, ExitLegs)

\* Once the reports are served, no trade believes it holds a part of a
\* position that is gone.
NoGhost ==
    position = 0 /\ channel = <<>> =>
        \A t \in listed : IsActive(trade[t]) => trade[t].x >= trade[t].e

\* An exit order of the trade was executed to its last lot.
Emptied(t) ==
    \E n \in DOMAIN orders : /\ orders[n].trade = t /\ orders[n].leg \in ExitLegs
                             /\ orders[n].status = "closed"

\* An exit order is never left for less than what the trade counts it holds, however the
\* entry was executed in parts: update_trades still has to replace it, or it
\* covers the rest.  Once an exit order was executed to its last lot, however
\* few, the exit passes for filled and update_dirty leaves the other order as it is.
ExitCovers ==
    \A t \in listed, l \in ExitLegs :
        LET u == trade[t]
            n == u.oid[l]
        IN  (/\ ~Pending(t) /\ ~u.dirty /\ IsActive(u) /\ ~u.closing
             /\ n # None /\ orders[n].status = "live" /\ ~Emptied(t))
            => orders[n].qty - orders[n].filled >= u.e - u.x

\* A trade that is being closed ends out of the list.
CloseEnds ==
    \A t \in Trades : trade[t].closing ~> t \notin listed
=============================================================================

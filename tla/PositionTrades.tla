--------------------------- MODULE PositionTrades ---------------------------
(***************************************************************************)
(* The trades of one market whose broker keeps a position per entry order  *)
(* (strategy/trade/strategypositiontrade.py), in paper mode: the paper     *)
(* trader executes the orders and closes the positions                     *)
(* (trader/connector/papertrader/papertradermargin.py and                  *)
(* papertraderposition.py), under its lock; what a trade knows of its      *)
(* position comes from the signals, sent after the lock was released.      *)
(*                                                                         *)
(* A trade is opened once, by a command that does not hold the mutex of    *)
(* the trades; its order and its position are named by the trade.  The     *)
(* other operations hold that mutex and are one step: only the paper       *)
(* trader acts meanwhile, on an order that is no longer in its book.       *)
(* Prices are left out, a level may be reached at any time.  Quantities    *)
(* are in lots.  ORDER_TRADED, which these trades ignore, is not sent.     *)
(***************************************************************************)
EXTENDS Integers, Sequences, FiniteSets

CONSTANTS Trades,      \* the trades that may be opened
          Quantity,    \* [Trades -> the quantity of its entry order]
          Paper,       \* the thread of the paper trader
          OrderTypes,  \* the types of the entry orders
          Brackets     \* the types that may have a take-profit or stop-loss

ASSUME PositionAssumption ==
    /\ IsFiniteSet(Trades) /\ Paper \notin Trades
    /\ Quantity \in [Trades -> Nat \ {0}]
    /\ OrderTypes \subseteq {"market", "limit"} /\ Brackets \subseteq OrderTypes

VARIABLES
    trade,    \* [Trades -> the fields of its StrategyPositionTrade]
    listed,   \* the trades in StrategyTraderBase._trades
    opening,  \* how far open is
    book,     \* the trades whose entry order is in _orders
    bracket,  \* the orders and positions with a take-profit or a stop-loss
    position, \* [Trades -> its position at the paper trader]
    phase,    \* how far the update of the paper trader is
    todo,     \* the orders of its list it has not looked at
    rm_list,  \* the orders it will remove
    sending,  \* the signals each thread still has to send
    channel   \* the signals on their way to the strategy trader

paperVars == <<book, bracket, position, phase, todo, rm_list>>
vars == <<trade, listed, opening, paperVars, sending, channel>>

Threads == Trades \cup {Paper}

Trade ==
    [entry : {"new", "rejected", "opened", "filled", "canceled", "deleted"},
     exit : {"new", "partially_filled", "filled"},
     oid : BOOLEAN, ref : BOOLEAN, pos : BOOLEAN,
     quantity : Nat, e : Nat, x : Nat, closing : BOOLEAN]

Signal == [kind : {"order_opened", "order_deleted", "order_canceled",
                   "position_opened", "position_updated", "position_deleted"},
           trade : Trades, quantity : Nat]

TypeOK ==
    /\ trade \in [Trades -> Trade]
    /\ \A t \in Trades : trade[t].x <= trade[t].e
    /\ listed \subseteq Trades
    /\ opening \in [Trades -> {"no", "called", "refused", "done"}]
    /\ book \subseteq Trades /\ bracket \subseteq Trades
    /\ position \in [Trades -> [state : {"none", "opened", "closed"}, quantity : Nat]]
    /\ phase \in {"idle", "orders"}
    /\ todo \subseteq Trades /\ rm_list \subseteq Trades
    /\ sending \in [Threads -> Seq(Signal)]
    /\ channel \in Seq(Signal)

NewTrade == [entry |-> "new", exit |-> "new", oid |-> FALSE, ref |-> FALSE,
             pos |-> FALSE, quantity |-> 0, e |-> 0, x |-> 0, closing |-> FALSE]

Init ==
    /\ trade = [t \in Trades |-> NewTrade]
    /\ listed = {}
    /\ opening = [t \in Trades |-> "no"]
    /\ book = {} /\ bracket = {}
    /\ position = [t \in Trades |-> [state |-> "none", quantity |-> 0]]
    /\ phase = "idle" /\ todo = {} /\ rm_list = {}
    /\ sending = [th \in Threads |-> <<>>]
    /\ channel = <<>>

-----------------------------------------------------------------------------
\* State predicates of StrategyTrade.
CanDelete(u) ==
    \/ u.entry = "filled" /\ u.exit = "filled"
    \/ u.entry = "rejected"
    \/ u.entry \in {"canceled", "deleted"} /\ u.e = 0

IsClosed(u) == u.exit = "filled"
IsActive(u) == ~IsClosed(u) /\ u.entry = "filled"

Sig(kind, t, q) == [kind |-> kind, trade |-> t, quantity |-> q]

-----------------------------------------------------------------------------
(***************************************************************************)
(* The paper trader: steps under its lock.                                 *)
(***************************************************************************)

\* exec_margin_order: a new position, whatever the others are.  Its signals are
\* left to send.
Execute(th, t) ==
    /\ position' = [position EXCEPT ![t] = [state |-> "opened", quantity |-> Quantity[t]]]
    /\ sending' = [sending EXCEPT ![th] = @ \o
                     <<Sig("order_opened", t, 0), Sig("position_opened", t, Quantity[t]),
                       Sig("order_deleted", t, 0)>>]

Closed(t) == [state |-> "closed", quantity |-> 0]

\* Mutant: the quantity is not compared with that of the position.
BlindClosePosition(t, k) ==
    /\ position' = [position EXCEPT ![t].quantity = @ - k]
    /\ channel' = Append(channel, Sig("position_updated", t, position[t].quantity - k))

\* close_position of a position that is opened: a part, or the whole of it.  The
\* signals are sent under the lock.
ClosePosition(t, k) ==
    IF k < position[t].quantity
    THEN /\ position' = [position EXCEPT ![t].quantity = @ - k]
         /\ channel' = Append(channel, Sig("position_updated", t, position[t].quantity - k))
    ELSE /\ position' = [position EXCEPT ![t] = Closed(t)]
         /\ channel' = Append(channel, Sig("position_deleted", t, 0))

\* The update first closes the positions whose take-profit or stop-loss is
\* reached,
CloseBracket(t) ==
    /\ phase = "idle" /\ sending[Paper] = <<>>
    /\ t \in bracket /\ position[t].state = "opened"
    /\ ClosePosition(t, position[t].quantity)
    /\ UNCHANGED <<trade, listed, opening, book, bracket, phase, todo, rm_list, sending>>

\* then copies the list of the orders,
Snapshot ==
    /\ phase = "idle" /\ sending[Paper] = <<>>
    /\ todo' = book /\ phase' = "orders"
    /\ UNCHANGED <<trade, listed, opening, book, bracket, position, rm_list, sending,
                   channel>>

\* executes or refuses those whose price is reached,
UpdateOrder(t) ==
    /\ phase = "orders" /\ sending[Paper] = <<>> /\ t \in todo
    /\ todo' = todo \ {t}
    /\ \/ Execute(Paper, t) /\ rm_list' = rm_list \cup {t}
       \/ rm_list' = rm_list \cup {t} /\ UNCHANGED <<position, sending>>
       \/ UNCHANGED <<position, sending, rm_list>>
    /\ UNCHANGED <<trade, listed, opening, book, bracket, phase, channel>>

\* and removes them.
RemoveOrders ==
    /\ phase = "orders" /\ todo = {} /\ sending[Paper] = <<>>
    /\ book' = book \ rm_list /\ rm_list' = {} /\ phase' = "idle"
    /\ UNCHANGED <<trade, listed, opening, bracket, position, todo, sending, channel>>

\* A thread that released the lock sends its signals.
Send(th) ==
    /\ sending[th] # <<>>
    /\ channel' = Append(channel, Head(sending[th]))
    /\ sending' = [sending EXCEPT ![th] = Tail(@)]
    /\ UNCHANGED <<trade, listed, opening, paperVars>>

-----------------------------------------------------------------------------
(***************************************************************************)
(* The operations of a trade.                                              *)
(***************************************************************************)

\* open: the trade is in the list before its order is created.
Open(t) ==
    /\ opening[t] = "no"
    /\ trade' = [trade EXCEPT ![t].ref = TRUE]
    /\ listed' = listed \cup {t}
    /\ \E type \in OrderTypes :
         /\ \/ UNCHANGED bracket
            \/ type \in Brackets /\ bracket' = bracket \cup {t}
         /\ \/ /\ type = "market" /\ Execute(t, t)
               /\ opening' = [opening EXCEPT ![t] = "called"]
               /\ UNCHANGED book
            \/ /\ type = "market"
               /\ opening' = [opening EXCEPT ![t] = "refused"]
               /\ UNCHANGED <<book, position, sending>>
            \/ /\ type = "limit"
               /\ book' = book \cup {t}
               /\ sending' = [sending EXCEPT ![t] = <<Sig("order_opened", t, 0)>>]
               /\ opening' = [opening EXCEPT ![t] = "called"]
               /\ UNCHANGED position
    /\ UNCHANGED <<phase, todo, rm_list, channel>>

\* create_order returned: open keeps the identifiers of the order and, if the
\* order is already executed, of the position; or the trade is dropped.
OpenReturn(t) ==
    /\ opening[t] \in {"called", "refused"} /\ sending[t] = <<>>
    /\ opening' = [opening EXCEPT ![t] = "done"]
    /\ IF opening[t] = "called"
       THEN /\ trade' = [trade EXCEPT ![t].oid = TRUE,
                                      ![t].pos = position[t].state # "none"]
            /\ UNCHANGED listed
       ELSE /\ trade' = [trade EXCEPT ![t].entry = "rejected"]
            /\ listed' = listed \ {t}
    /\ UNCHANGED <<paperVars, sending, channel>>

\* cancel_order of the entry order, in the book or not: order_info, asked after
\* a failure, does not find it either.
CancelOrder(t) ==
    /\ book' = book \ {t}
    /\ channel' = IF t \in book THEN Append(channel, Sig("order_canceled", t, 0))
                  ELSE channel

\* cancel_open, of a trade that is not active.
CancelOpen(t) ==
    /\ t \in listed /\ ~IsActive(trade[t]) /\ trade[t].oid
    /\ CancelOrder(t)
    /\ trade' = [trade EXCEPT
         ![t].oid = FALSE, ![t].ref = FALSE,
         ![t].entry = IF t \in book /\ trade[t].e > 0 THEN "filled" ELSE "canceled"]
    /\ UNCHANGED <<listed, opening, bracket, position, phase, todo, rm_list, sending>>

\* modify_take_profit and modify_stop_loss of an active trade.
Modify(t) ==
    /\ t \in listed /\ IsActive(trade[t]) /\ trade[t].pos
    /\ position[t].state = "opened"
    /\ bracket' = bracket \cup {t}
    /\ UNCHANGED <<trade, listed, opening, book, position, phase, todo, rm_list,
                   sending, channel>>

\* What close and reduce first do to an entry order they still know: in the book it
\* is canceled, also when it was executed and waits to be removed (the signal of
\* this cancel finds no trade).
Canceled(t) ==
    IF ~trade[t].oid THEN trade[t]
    ELSE [trade[t] EXCEPT !.oid = FALSE, !.ref = FALSE,
                          !.entry = IF t \in book THEN "canceled" ELSE @]

\* close, and reduce by k lots, of an active trade.
Exit(t, k, closing) ==
    LET u == Canceled(t)
    IN  /\ t \in listed /\ IsActive(trade[t]) /\ ~trade[t].closing
        /\ book' = IF trade[t].oid THEN book \ {t} ELSE book
        /\ IF u.pos /\ position[t].state = "opened"
           THEN /\ ClosePosition(t, k)
                /\ trade' = [trade EXCEPT ![t] = [u EXCEPT !.closing = closing]]
           ELSE /\ trade' = [trade EXCEPT ![t] = u]
                /\ UNCHANGED <<position, channel>>
        /\ UNCHANGED <<listed, opening, bracket, phase, todo, rm_list, sending>>

\* close: what the trade knows of the position, or the whole of it.
Close(t) ==
    LET k == IF trade[t].quantity > 0 THEN trade[t].quantity ELSE position[t].quantity
    IN  Exit(t, k, TRUE)

\* reduce: a part of what is not exited yet, or all of it.
Reduce(t) ==
    LET available == trade[t].e - trade[t].x
    IN  \E k \in 1..available : Exit(t, k, k >= available)

-----------------------------------------------------------------------------
(***************************************************************************)
(* The signals.                                                            *)
(***************************************************************************)

\* order_signal, for the trade whose entry order the signal is about.
OrderSignal(u, s) ==
    CASE s.kind = "order_opened" ->
            IF ~u.ref THEN u
            ELSE [u EXCEPT !.oid = TRUE, !.entry = IF u.e = 0 THEN "opened" ELSE @]
      [] s.kind = "order_deleted" ->
            IF ~u.oid THEN u
            ELSE [u EXCEPT !.oid = FALSE, !.ref = FALSE,
                           !.entry = IF u.pos THEN @ ELSE "deleted"]
      [] OTHER ->
            IF ~u.oid THEN u
            ELSE [u EXCEPT !.oid = FALSE, !.ref = FALSE,
                           !.entry = IF u.pos THEN @ ELSE "canceled"]

\* POSITION_OPENED, the whole quantity at once.
PositionOpened(u, q) ==
    [u EXCEPT !.pos = TRUE, !.e = @ + q - u.quantity, !.quantity = q,
              !.entry = "filled", !.oid = FALSE, !.ref = FALSE]

\* Mutant: the exited quantity is that of the last reduction.
LastPositionUpdated(u, q) ==
    LET x == u.quantity - q
    IN  [u EXCEPT !.x = x, !.quantity = q,
                  !.exit = IF x >= u.e THEN "filled" ELSE "partially_filled"]

\* POSITION_UPDATED, with the quantity that remains, smaller each time.
PositionUpdated(u, q) ==
    LET x == u.x + u.quantity - q
    IN  [u EXCEPT !.x = x, !.quantity = q,
                  !.exit = IF x >= u.e THEN "filled" ELSE "partially_filled"]

\* Mutant: the exit is only filled when the quantities say so already.
LatePositionDeleted(u) ==
    [u EXCEPT !.pos = FALSE, !.oid = FALSE, !.ref = FALSE, !.x = u.e, !.quantity = 0,
              !.exit = IF u.x >= u.e THEN "filled" ELSE "partially_filled"]

\* POSITION_DELETED.
PositionDeleted(u) ==
    [u EXCEPT !.pos = FALSE, !.oid = FALSE, !.ref = FALSE, !.x = u.e, !.quantity = 0,
              !.exit = "filled"]

PositionSignal(u, s) ==
    CASE s.kind = "position_opened" -> PositionOpened(u, s.quantity)
      [] s.kind = "position_updated" -> PositionUpdated(u, s.quantity)
      [] OTHER -> PositionDeleted(u)

OrderKinds == {"order_opened", "order_deleted", "order_canceled"}

\* Mutant: a signal is told by the identifiers only.
TargetById(u, s) == IF s.kind \in OrderKinds THEN u.oid ELSE u.pos

\* is_target_order and is_target_position: the identifier or, when the signal
\* is that of the entry order, its reference.
Target(u, s) ==
    IF s.kind \in OrderKinds THEN u.oid \/ (u.ref /\ s.kind = "order_opened")
    ELSE u.pos \/ (u.ref /\ s.kind = "position_opened")

\* The next signal changes its trade, and one that has nothing left to do leaves
\* the list (remove finds no entry order to cancel: the signal took it).
Deliver ==
    /\ channel # <<>> /\ channel' = Tail(channel)
    /\ LET s == Head(channel)
           t == s.trade
           ofOrder == s.kind \in OrderKinds
           u == IF ofOrder THEN OrderSignal(trade[t], s) ELSE PositionSignal(trade[t], s)
           over == IF ofOrder THEN CanDelete(u) ELSE IsClosed(u)
       IN  IF t \in listed /\ Target(trade[t], s)
           THEN /\ trade' = [trade EXCEPT ![t] = u]
                /\ listed' = IF over THEN listed \ {t} ELSE listed
           ELSE UNCHANGED <<trade, listed>>
    /\ UNCHANGED <<opening, paperVars, sending>>

\* The end of update_trades: what can be deleted leaves the list.
CleanupTrades ==
    /\ \E t \in listed : CanDelete(trade[t])
    /\ listed' = {t \in listed : ~CanDelete(trade[t])}
    /\ UNCHANGED <<trade, opening, paperVars, sending, channel>>

-----------------------------------------------------------------------------
Operate(t) ==
    Open(t) \/ OpenReturn(t) \/ CancelOpen(t) \/ Modify(t) \/ Close(t) \/ Reduce(t)

Update ==
    \/ Snapshot \/ RemoveOrders
    \/ \E t \in Trades : CloseBracket(t) \/ UpdateOrder(t)

Next ==
    \/ \E t \in Trades : Operate(t)
    \/ Update
    \/ \E th \in Threads : Send(th)
    \/ Deliver \/ CleanupTrades

Spec == Init /\ [][Next]_vars

\* The strategy thread serves its signals.
FairSpec == Spec /\ WF_vars(Deliver)

-----------------------------------------------------------------------------
\* Nothing is on its way, and no open is waiting.
AtRest ==
    /\ channel = <<>> /\ \A th \in Threads : sending[th] = <<>>
    /\ \A t \in Trades : opening[t] \notin {"called", "refused"}

\* Once the signals are served, each opened position is that of a trade in the
\* list, and each trade that knows a position shares its quantity with it,
\* whichever of the two threads sent its signals first and however many
\* reductions were asked before the first one was known.  An entry that was
\* canceled while it was being executed leaves a position no trade knows.
Agreed ==
    AtRest => \A t \in Trades : trade[t].entry # "canceled" =>
        LET u == trade[t]
            p == position[t]
        IN  /\ p.state = "opened" => t \in listed /\ u.pos
            /\ t \in listed /\ u.pos =>
                 p.state = "opened" /\ p.quantity = u.e - u.x /\ u.quantity = p.quantity

\* A trade whose closing was accepted ends out of the list.
CloseEnds == \A t \in Trades : trade[t].closing ~> t \notin listed
=============================================================================

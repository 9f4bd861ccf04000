---------------------------- MODULE PaperTrader ----------------------------
(***************************************************************************)
(* The paper trader of a live session                                      *)
(* (trader/connector/papertrader/trader.py): the orders and the position   *)
(* of one market, which the trader's own thread and the threads of the     *)
(* strategies change under one lock, and the signals they send once they   *)
(* have released it.                                                       *)
(*                                                                         *)
(* A step is what runs under the lock, or between two holds of it.  The    *)
(* market has an indivisible margin position and a spot asset; an order    *)
(* acts on one of them.  Prices are reduced to the two sides of the order  *)
(* levels, and whether the account can pay for an order is left open,      *)
(* except for the sale of an asset, which depends on its quantity.         *)
(* Quantities are in lots.                                                 *)
(***************************************************************************)
EXTENDS Integers, Sequences, FiniteSets, Folds

CONSTANTS Clients,    \* the threads of the strategies
          Trader,     \* the thread of the trader
          Offers,     \* the orders they may create
          MaxOrders   \* bound: orders created

OrderTypes == {"market", "limit", "stop", "stop_limit", "take_profit",
               "take_profit_limit"}

ASSUME PaperAssumption ==
    /\ Trader \notin Clients
    /\ \A r \in Offers : /\ DOMAIN r = {"dir", "qty", "type", "margin"}
                        /\ r.dir \in {1, -1} /\ r.qty \in Nat \ {0}
                        /\ r.type \in OrderTypes /\ r.margin \in BOOLEAN
    /\ MaxOrders \in Nat

VARIABLES
    price,    \* the market is below or above the levels of the orders
    orders,   \* every order created, by identifier
    book,     \* the identifiers in _orders
    objects,  \* every Position object created
    current,  \* the one in _positions, 0 for none
    asset,    \* the quantity of the spot asset
    executed, \* how often each order was executed
    told,     \* the signals sent about each order
    work,     \* what each thread still has to do after its last hold of the lock
    phase,    \* how far the trader's update is
    todo,     \* the orders of its list it has not looked at
    rm_list   \* the orders it will remove

vars == <<price, orders, book, objects, current, asset, executed, told, work,
          phase, todo, rm_list>>

Long == 1
Short == -1
None == 0

Threads == Clients \union {Trader}
Ids == 1..MaxOrders

Position == [dir : {Long, Short}, qty : Nat, state : {"opened", "closed"}]

Held(dir, qty, state) == [dir |-> dir, qty |-> qty, state |-> state]

\* A thread that sends signals: about which order, and which position it will
\* close if it finds it empty.
Work == [step : {"idle", "created", "canceled", "rejected", "executed", "test",
                 "exit"},
         order : 0..MaxOrders, object : Nat]

Doing(step, o, i) == [step |-> step, order |-> o, object |-> i]

Idle == Doing("idle", None, None)

TypeOK ==
    /\ price \in {"low", "high"}
    /\ orders \in Seq(Offers) /\ Len(orders) <= MaxOrders
    /\ book \subseteq Ids
    /\ objects \in Seq(Position)
    /\ current \in 0..Len(objects)
    /\ asset \in Nat
    /\ executed \in [Ids -> Nat]
    /\ told \in [Ids -> SUBSET {"opened", "traded", "deleted", "canceled", "rejected"}]
    /\ work \in [Threads -> Work]
    /\ \A th \in Threads : /\ work[th].object <= Len(objects)
                           /\ work[th].step \in {"test", "exit"} => work[th].object # None
    /\ phase \in {"idle", "snapshot", "orders", "remove"}
    /\ todo \subseteq Ids /\ rm_list \subseteq Ids

Init ==
    /\ price \in {"low", "high"}
    /\ orders = <<>> /\ book = {}
    /\ objects = <<>> /\ current = None
    /\ asset = 0
    /\ executed = [o \in Ids |-> 0]
    /\ told = [o \in Ids |-> {}]
    /\ work = [th \in Threads |-> Idle]
    /\ phase = "idle" /\ todo = {} /\ rm_list = {}

-----------------------------------------------------------------------------
(***************************************************************************)
(* The execution of an order, under the lock.                              *)
(***************************************************************************)

Opened == current # None /\ objects[current].state = "opened"

\* Mutant: the opposite direction opens a position of its own.
HedgedMarginOrder(r) ==
    \/ /\ (Opened => objects[current].dir # r.dir)
       /\ objects' = Append(objects, Held(r.dir, r.qty, "opened"))
       /\ current' = Len(objects) + 1
    \/ /\ Opened /\ objects[current].dir = r.dir
       /\ objects' = [objects EXCEPT ![current].qty = @ + r.qty]
       /\ UNCHANGED current

\* exec_indmargin_order: opens the position of the market, or increases,
\* reduces, empties or reverses the one that is opened.
MarginOrder(r) ==
    \/ /\ ~Opened
       /\ objects' = Append(objects, Held(r.dir, r.qty, "opened"))
       /\ current' = Len(objects) + 1
    \/ /\ Opened
       /\ LET p == objects[current]
          IN  objects' = [objects EXCEPT ![current] =
                IF p.dir = r.dir THEN Held(p.dir, p.qty + r.qty, "opened")
                ELSE IF p.qty >= r.qty THEN Held(p.dir, p.qty - r.qty, "opened")
                ELSE Held(r.dir, r.qty - p.qty, "opened")]
       /\ UNCHANGED current

\* exec_buysell_order.
SpotOrder(r) == asset' = asset + r.dir * r.qty

\* Only what increases a position needs margin; a sale needs the asset; whether
\* the account has the margin or the quote asset is not known here.
MayReject(r) ==
    IF r.margin THEN (Opened => objects[current].dir = r.dir)
    ELSE r.dir = Long \/ asset < r.qty

\* Mutant: an asset is sold whatever its quantity.
ShortMayExecute(r) == TRUE

MayExecute(r) == r.margin \/ r.dir = Long \/ asset >= r.qty

Reject(th, o, r) ==
    /\ MayReject(r)
    /\ work' = [work EXCEPT ![th] = Doing("rejected", o, None)]
    /\ UNCHANGED <<objects, current, asset, executed>>

Execute(th, o, r) ==
    /\ MayExecute(r)
    /\ executed' = [executed EXCEPT ![o] = @ + 1]
    /\ LET i == IF r.margin /\ Opened THEN current ELSE None
       IN  work' = [work EXCEPT ![th] = Doing("executed", o, i)]
    /\ IF r.margin THEN MarginOrder(r) /\ UNCHANGED asset
                   ELSE SpotOrder(r) /\ UNCHANGED <<objects, current>>

-----------------------------------------------------------------------------
(***************************************************************************)
(* What follows the release of the lock.                                   *)
(***************************************************************************)

Tell(o, kinds) == told' = [told EXCEPT ![o] = @ \union kinds]

EndWork(th) == work' = [work EXCEPT ![th] = Idle]

\* Mutant: the refusal of an order of the book is not signalled.
QuietNotify(th) ==
    LET w == work[th]
    IN  /\ \/ w.step = "created" /\ Tell(w.order, {"opened"}) /\ EndWork(th)
           \/ w.step = "canceled" /\ Tell(w.order, {"canceled"}) /\ EndWork(th)
           \/ w.step = "rejected" /\ EndWork(th)
              /\ IF w.order \in book THEN UNCHANGED told ELSE Tell(w.order, {"rejected"})
           \/ /\ w.step = "executed"
              /\ Tell(w.order, {"opened", "traded", "deleted"})
              /\ IF w.object = None THEN EndWork(th)
                 ELSE work' = [work EXCEPT ![th] = Doing("test", w.order, w.object)]
        /\ UNCHANGED <<price, orders, book, objects, current, asset, executed,
                       phase, todo, rm_list>>

\* The signals of an order.  An execution also signals the position, and its
\* thread then looks whether the position is empty.
Notify(th) ==
    LET w == work[th]
    IN  /\ \/ w.step = "created" /\ Tell(w.order, {"opened"}) /\ EndWork(th)
           \/ w.step = "canceled" /\ Tell(w.order, {"canceled"}) /\ EndWork(th)
           \/ w.step = "rejected" /\ Tell(w.order, {"rejected"}) /\ EndWork(th)
           \/ /\ w.step = "executed"
              /\ Tell(w.order, {"opened", "traded", "deleted"})
              /\ IF w.object = None THEN EndWork(th)
                 ELSE work' = [work EXCEPT ![th] = Doing("test", w.order, w.object)]
        /\ UNCHANGED <<price, orders, book, objects, current, asset, executed,
                       phase, todo, rm_list>>

\* The position is tested, and closed, without the lock.
TestEmpty(th) ==
    LET w == work[th]
    IN  /\ w.step = "test"
        /\ IF objects[w.object].qty = 0
           THEN work' = [work EXCEPT ![th] = Doing("exit", w.order, w.object)]
           ELSE EndWork(th)
        /\ UNCHANGED <<price, orders, book, objects, current, asset, executed,
                       told, phase, todo, rm_list>>

Exit(th) ==
    LET i == work[th].object
    IN  /\ work[th].step = "exit"
        /\ objects' = [objects EXCEPT
                          ![i] = Held(objects[i].dir, objects[i].qty, "closed")]
        /\ EndWork(th)
        /\ UNCHANGED <<price, orders, book, current, asset, executed, told,
                       phase, todo, rm_list>>

-----------------------------------------------------------------------------
(***************************************************************************)
(* The threads of the strategies.                                          *)
(***************************************************************************)

\* create_order of a market order executes it at once.
CreateMarket(th, r) ==
    LET o == Len(orders) + 1
    IN  /\ work[th].step = "idle" /\ o <= MaxOrders
        /\ r.type = "market"
        /\ orders' = Append(orders, r)
        /\ Execute(th, o, r) \/ Reject(th, o, r)
        /\ UNCHANGED <<price, book, told, phase, todo, rm_list>>

\* Any other order waits for its price.
CreateOrder(th, r) ==
    LET o == Len(orders) + 1
    IN  /\ work[th].step = "idle" /\ o <= MaxOrders
        /\ r.type # "market"
        /\ orders' = Append(orders, r)
        /\ book' = book \union {o}
        /\ work' = [work EXCEPT ![th] = Doing("created", o, None)]
        /\ UNCHANGED <<price, objects, current, asset, executed, told, phase,
                       todo, rm_list>>

CancelOrder(th, o) ==
    /\ work[th].step = "idle"
    /\ o \in book
    /\ book' = book \ {o}
    /\ work' = [work EXCEPT ![th] = Doing("canceled", o, None)]
    /\ UNCHANGED <<price, orders, objects, current, asset, executed, told, phase,
                   todo, rm_list>>

-----------------------------------------------------------------------------
(***************************************************************************)
(* The update of the trader.                                               *)
(***************************************************************************)

\* The price has reached the level of the order: limits wait for a better
\* price, as take-profits do for their trigger, and stops for a worse one.
Triggered(r) ==
    LET better == IF r.dir = Long THEN "low" ELSE "high"
    IN  IF r.type \in {"limit", "take_profit", "take_profit_limit"}
        THEN price = better ELSE price # better

\* An empty position leaves _positions.
UpdatePositions ==
    /\ phase = "idle"
    /\ current' = IF current # None /\ objects[current].qty = 0 THEN None ELSE current
    /\ phase' = "snapshot"
    /\ UNCHANGED <<price, orders, book, objects, asset, executed, told, work,
                   todo, rm_list>>

\* Mutant: the update stops at the first order of its list.
FirstSnapshot ==
    /\ phase = "snapshot"
    /\ todo' = {o \in book : \A n \in book : o <= n}
    /\ phase' = "orders"
    /\ UNCHANGED <<price, orders, book, objects, current, asset, executed, told,
                   work, rm_list>>

\* The list of the orders is copied, and read without the lock.
Snapshot ==
    /\ phase = "snapshot"
    /\ todo' = book
    /\ phase' = "orders"
    /\ UNCHANGED <<price, orders, book, objects, current, asset, executed, told,
                   work, rm_list>>

\* Mutant: an order of the book is not removed once it is executed.
KeepUpdateOrder(o) ==
    LET r == orders[o]
    IN  /\ phase = "orders" /\ work[Trader].step = "idle"
        /\ \A n \in todo : o <= n
        /\ todo' = todo \ {o}
        /\ IF Triggered(r) THEN Execute(Trader, o, r) \/ Reject(Trader, o, r)
           ELSE UNCHANGED <<objects, current, asset, executed, work>>
        /\ rm_list' = IF r.type = "limit" THEN rm_list ELSE rm_list \union {o}
        /\ UNCHANGED <<price, orders, book, told, phase>>

\* The next order of the list, the oldest, is executed or refused if the price
\* has reached its level.  A triggered order is removed, and an order of the last
\* three types is removed in any case.
UpdateOrder(o) ==
    LET r == orders[o]
    IN  /\ phase = "orders" /\ work[Trader].step = "idle"
        /\ \A n \in todo : o <= n
        /\ todo' = todo \ {o}
        /\ IF Triggered(r) THEN Execute(Trader, o, r) \/ Reject(Trader, o, r)
           ELSE UNCHANGED <<objects, current, asset, executed, work>>
        /\ rm_list' = IF Triggered(r) \/ r.type \notin {"limit", "stop"}
                      THEN rm_list \union {o} ELSE rm_list
        /\ UNCHANGED <<price, orders, book, told, phase>>

EndOrders ==
    /\ phase = "orders" /\ todo = {} /\ work[Trader].step = "idle"
    /\ phase' = "remove"
    /\ UNCHANGED <<price, orders, book, objects, current, asset, executed, told,
                   work, todo, rm_list>>

RemoveOrders ==
    /\ phase = "remove"
    /\ book' = book \ rm_list
    /\ rm_list' = {}
    /\ phase' = "idle"
    /\ UNCHANGED <<price, orders, objects, current, asset, executed, told, work,
                   todo>>

\* The market moves.
MovePrice ==
    /\ price' = IF price = "low" THEN "high" ELSE "low"
    /\ UNCHANGED <<orders, book, objects, current, asset, executed, told, work,
                   phase, todo, rm_list>>

-----------------------------------------------------------------------------
Release(th) == Notify(th) \/ TestEmpty(th) \/ Exit(th)

Update ==
    \/ UpdatePositions \/ Snapshot \/ EndOrders \/ RemoveOrders
    \/ \E o \in todo : UpdateOrder(o)

Client(th) ==
    \/ \E r \in Offers : CreateMarket(th, r) \/ CreateOrder(th, r)
    \/ \E o \in Ids : CancelOrder(th, o)

Next ==
    \/ \E th \in Threads : Release(th)
    \/ \E th \in Clients : Client(th)
    \/ Update
    \/ MovePrice

Spec == Init /\ [][Next]_vars

\* The thread of the trader runs its update again and again.
FairSpec == Spec /\ WF_vars(Update \/ Release(Trader))

-----------------------------------------------------------------------------
\* However creations, cancels and updates interleave, an order is executed at
\* most once, and one of the book that was executed is on its way out of it.
ExecutedOnce ==
    \A o \in Ids : /\ executed[o] <= 1
                   /\ executed[o] = 1 /\ o \in book => o \in rm_list

Sum(f, S) == MapThenFoldSet(+, 0, LAMBDA i : f[i], LAMBDA s : CHOOSE i \in s : TRUE, S)

Signed(r) == r.dir * r.qty

\* What the executed orders of the margin position, or of the asset, add up to.
Net(margin) ==
    Sum([o \in DOMAIN orders |-> Signed(orders[o])],
        {o \in DOMAIN orders : executed[o] > 0 /\ orders[o].margin = margin})

\* What the positions, dropped ones included, hold together.
NetHeld == Sum([i \in DOMAIN objects |-> Signed(objects[i])], DOMAIN objects)

\* No execution is lost or counted twice by the increases, reductions and
\* reversals of the position: the positions, dropped ones included, and the
\* asset hold what the executed orders add up to; and the market has a single
\* position, no other is left opened with a quantity nothing would ever close.
NetPosition ==
    /\ NetHeld = Net(TRUE) /\ asset = Net(FALSE)
    /\ \A i \in DOMAIN objects :
           objects[i].state = "opened" /\ objects[i].qty > 0 => i = current

\* An order that is no longer in the book was executed, canceled or refused, and
\* the strategies were told so, once the thread that took it has sent its
\* signals.  The other types leave the book without a signal when an update
\* finds them before their price is reached.
Answered ==
    \A o \in DOMAIN orders :
        \/ orders[o].type \notin {"market", "limit", "stop"}
        \/ o \in book
        \/ \E th \in Threads : work[th].step # "idle" /\ work[th].order = o
        \/ told[o] \intersect {"deleted", "canceled", "rejected"} # {}

\* An order whose price is reached, and stays so, leaves the book.
TriggeredServed ==
    \A o \in Ids : <>[](o \in book) => []<>(o \in book /\ ~Triggered(orders[o]))
=============================================================================

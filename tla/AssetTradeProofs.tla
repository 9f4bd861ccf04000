-------------------------- MODULE AssetTradeProofs --------------------------
(***************************************************************************)
(* The theorems of a spot trade, for every value of the constants.  First  *)
(* AssetTrade is type correct, and no sell order follows the closing       *)
(* order.  Then the books: one invariant relates the legs of the trade,    *)
(* the orders the exchange holds and the reports on their way.  It gives   *)
(* that the trade knows its live orders, that there is one exit order,     *)
(* that the books are exact and that nothing is oversold.                  *)
(***************************************************************************)
EXTENDS AssetTrade, TLAPS, SequenceTheorems, FiniteSetTheorems

USE MaxOrdersAssumption DEF MaxOrdersAssumption

---------------------------------------------------------------------------
(***************************************************************************)
(* The operators of the trade: what each returns is a trade, still closing *)
(* or not, that names no order it did not name but the one it was told of. *)
(***************************************************************************)
\* u is a trade as t was, but for its books and the legs that lost their order
Keeps(t, u) ==
  /\ u \in Trade
  /\ u.closing = t.closing
  /\ \A l \in Legs : u.oid[l] \in {t.oid[l], None}

\* What two steps keep in turn, both keep
LEMMA KeepsTransitive ==
  ASSUME NEW t, NEW u, NEW v, Keeps(t, u), Keeps(u, v)
  PROVE  Keeps(t, v)
  BY DEF Keeps

\* A trade is kept by doing nothing
LEMMA KeepsReflexive ==
  ASSUME NEW t \in Trade
  PROVE  Keeps(t, t)
  BY DEF Keeps

\* What is kept is a trade
LEMMA KeepsIsTrade ==
  ASSUME NEW t, NEW u, Keeps(t, u)
  PROVE  u \in Trade
  BY DEF Keeps

\* None is an identifier and a reference
LEMMA ZeroInRange == 0 \in 0 .. 2 * MaxOrders /\ 0 \in -MaxOrders .. 0
  OBVIOUS

\* __reset_entry, __reset_limit and __reset_stop: the leg loses its order
LEMMA ResetLegKeeps ==
  ASSUME NEW t \in Trade, NEW l \in Legs
  PROVE  Keeps(t, ResetLeg(t, l))
<1> DEFINE u == ResetLeg(t, l)
<1>1. /\ u.oid = [t.oid EXCEPT ![l] = 0]
      /\ u.ref = [t.ref EXCEPT ![l] = 0]
      /\ u.qty = [t.qty EXCEPT ![l] = 0]
      /\ u.exec = [t.exec EXCEPT ![l] = 0]
  BY DEF ResetLeg, Trade, None
<1>2. u = [t EXCEPT !.oid = u.oid, !.ref = u.ref, !.qty = u.qty, !.exec = u.exec]
  BY DEF ResetLeg
<1>3. /\ u.oid \in [Legs -> 0 .. 2 * MaxOrders]
      /\ u.ref \in [Legs -> -MaxOrders .. 0]
      /\ u.qty \in [Legs -> Int]
      /\ u.exec \in [Legs -> Nat]
  BY <1>1, ZeroInRange DEF Trade
<1> HIDE DEF u
<1>4. u \in Trade
  BY <1>2, <1>3 DEF Trade
<1>5. u.closing = t.closing
  BY <1>2 DEF Trade
<1>6. \A k \in Legs : u.oid[k] \in {t.oid[k], None}
  BY <1>1 DEF Trade, None
<1> QED
  BY <1>4, <1>5, <1>6 DEF Keeps, u

\* The fields a signal sets, states and quantities, name no order
LEMMA SetFieldsKeeps ==
  ASSUME NEW t \in Trade
  PROVE  /\ \A e \in Int, b \in BOOLEAN : Keeps(t, [t EXCEPT !.e = e, !.dirty = b])
         /\ \A s \in EntryState : Keeps(t, [t EXCEPT !.entryState = s])
         /\ \A s \in ExitState : Keeps(t, [t EXCEPT !.exitState = s])
         /\ \A x \in Nat, l \in Legs, n \in Nat, s \in ExitState :
              Keeps(t, [t EXCEPT !.x = x, !.exec[l] = n, !.exitState = s])
<1>1. ASSUME NEW e \in Int, NEW b \in BOOLEAN PROVE Keeps(t, [t EXCEPT !.e = e, !.dirty = b])
  BY DEF Keeps, Trade
<1>2. ASSUME NEW s \in EntryState PROVE Keeps(t, [t EXCEPT !.entryState = s])
  BY DEF Keeps, Trade
<1>3. ASSUME NEW s \in ExitState PROVE Keeps(t, [t EXCEPT !.exitState = s])
  BY DEF Keeps, Trade
<1>4. ASSUME NEW x \in Nat, NEW l \in Legs, NEW n \in Nat, NEW s \in ExitState
      PROVE  Keeps(t, [t EXCEPT !.x = x, !.exec[l] = n, !.exitState = s])
  <2> DEFINE f == [t.exec EXCEPT ![l] = n]
  <2>1. f \in [Legs -> Nat]
    BY DEF Trade
  <2> HIDE DEF f
  <2>2. Keeps(t, [t EXCEPT !.x = x, !.exec = f, !.exitState = s])
    BY <2>1 DEF Keeps, Trade
  <2> QED
    BY <2>2 DEF f
<1> QED
  BY <1>1, <1>2, <1>3, <1>4

\* The fields a modification or a restart sets name no order
LEMMA SetFlagsKeeps ==
  ASSUME NEW t \in Trade, NEW b \in BOOLEAN
  PROVE  /\ Keeps(t, [t EXCEPT !.tp = b])
         /\ Keeps(t, [t EXCEPT !.sl = b])
         /\ Keeps(t, [t EXCEPT !.dirty = b])
         /\ Keeps(t, [t EXCEPT !.dirty = FALSE, !.managed = FALSE])
<1>1. Keeps(t, [t EXCEPT !.tp = b])
  BY DEF Keeps, Trade
<1>2. Keeps(t, [t EXCEPT !.sl = b])
  BY DEF Keeps, Trade
<1>3. Keeps(t, [t EXCEPT !.dirty = b])
  BY DEF Keeps, Trade
<1>4. Keeps(t, [t EXCEPT !.dirty = FALSE, !.managed = FALSE])
  BY DEF Keeps, Trade
<1> QED
  BY <1>1, <1>2, <1>3, <1>4

\* An execution of the entry order at most takes the order away from its leg
LEMMA EntryTradedKeeps ==
  ASSUME NEW t \in Trade, NEW d \in SignalData
  PROVE  Keeps(t, EntryTraded(t, d))
<1> DEFINE e == d.cum - d.fee
           b == t.dirty \/ d.cum > t.e
           u == [t EXCEPT !.e = e, !.dirty = b]
           r == ResetLeg(u, "entry")
<1>1. e \in Int /\ b \in BOOLEAN
  BY DEF SignalData, Trade
<1> HIDE DEF e, b
<1>2. Keeps(t, u) /\ u \in Trade
  BY <1>1, SetFieldsKeeps, KeepsIsTrade
<1> HIDE DEF u
<1>3. Keeps(u, r) /\ r \in Trade
  BY <1>2, ResetLegKeeps DEF Legs, Keeps
<1> HIDE DEF r
<1>4. "filled" \in EntryState /\ "partially_filled" \in EntryState
  BY DEF EntryState
<1>5. Keeps(r, [r EXCEPT !.entryState = "filled"])
  BY <1>3, <1>4, SetFieldsKeeps
<1>6. Keeps(u, [u EXCEPT !.entryState = "partially_filled"])
  BY <1>2, <1>4, SetFieldsKeeps
<1>7. /\ Keeps(t, [r EXCEPT !.entryState = "filled"])
      /\ Keeps(t, [u EXCEPT !.entryState = "partially_filled"])
  BY <1>2, <1>3, <1>5, <1>6, KeepsTransitive
<1> QED
  BY <1>7 DEF EntryTraded, e, b, u, r

\* An execution of an exit order at most takes the order away from its leg
LEMMA ExitTradedKeeps ==
  ASSUME NEW t \in Trade, NEW l \in ExitLegs, NEW d \in SignalData
  PROVE  Keeps(t, ExitTraded(t, l, d))
<1> DEFINE filled == ExitFilled(t, l, d)
           exec == t.exec[l] + filled
           x == t.x + filled
           s == ExitStateAfter(t, x, d)
           u == [t EXCEPT !.x = x, !.exec[l] = exec, !.exitState = s]
           r == ResetLeg(u, l)
<1>1. filled \in Nat /\ l \in Legs
  BY DEF ExitFilled, Trade, SignalData, Legs, ExitLegs
<1> HIDE DEF filled
<1>2. exec \in Nat /\ x \in Nat
  BY <1>1 DEF Trade
<1>3. s \in ExitState
  BY DEF ExitStateAfter, ExitState
<1> HIDE DEF exec, x, s
<1>4. Keeps(t, u) /\ u \in Trade
  BY <1>1, <1>2, <1>3, SetFieldsKeeps, KeepsIsTrade
<1> HIDE DEF u
<1>5. Keeps(u, r)
  BY <1>1, <1>4, ResetLegKeeps
<1>6. Keeps(t, r)
  BY <1>4, <1>5, KeepsTransitive
<1> QED
  BY <1>4, <1>6 DEF ExitTraded, filled, exec, x, s, u, r

\* The end of an order takes it away from its leg
LEMMA RemovedKeeps ==
  ASSUME NEW t \in Trade, NEW l \in Legs
  PROVE  Keeps(t, Removed(t, l)) /\ Keeps(t, Rejected(t, l))
<1> DEFINE r == ResetLeg(t, l)
<1>1. Keeps(t, r) /\ r \in Trade
  BY ResetLegKeeps, KeepsIsTrade
<1> HIDE DEF r
<1>2. \A s \in EntryState : Keeps(t, [r EXCEPT !.entryState = s])
  BY <1>1, SetFieldsKeeps, KeepsTransitive
<1>3. "filled" \in EntryState /\ "rejected" \in EntryState
  BY DEF EntryState
<1> QED
  BY <1>1, <1>2, <1>3 DEF Removed, Rejected, r

\* order_signal: only the opening of an order makes the trade name one
LEMMA OrderSignalKeeps ==
  ASSUME NEW t \in Trade, NEW d \in SignalData, d.kind # "opened"
  PROVE  Keeps(t, OrderSignal(t, d))
<1>1. CASE SignalLegs(t, d) = {}
  BY <1>1, KeepsReflexive DEF OrderSignal
<1>2. CASE SignalLegs(t, d) # {}
  <2> DEFINE l == CHOOSE k \in SignalLegs(t, d) : TRUE
  <2>1. l \in Legs
    BY <1>2 DEF SignalLegs
  <2>2. l # "entry" => l \in ExitLegs
    BY <2>1 DEF Legs, ExitLegs
  <2> HIDE DEF l
  <2>3. /\ Keeps(t, EntryTraded(t, d))
        /\ l # "entry" => Keeps(t, ExitTraded(t, l, d))
        /\ Keeps(t, Rejected(t, l)) /\ Keeps(t, Removed(t, l))
    BY <2>1, <2>2, EntryTradedKeeps, ExitTradedKeeps, RemovedKeeps
  <2> QED
    BY <1>2, <2>3 DEF OrderSignal, l
<1> QED
  BY <1>1, <1>2

\* The "opened" signal names the order it is about
LEMMA OpenedIsTrade ==
  ASSUME NEW t \in Trade, NEW d \in SignalData, d.kind = "opened", d.id \in 1 .. MaxOrders
  PROVE  /\ OrderSignal(t, d) \in Trade
         /\ OrderSignal(t, d).closing = t.closing
         /\ \A l \in Legs : OrderSignal(t, d).oid[l] \in {t.oid[l], d.id}
<1>1. CASE SignalLegs(t, d) = {}
  BY <1>1 DEF OrderSignal
<1>2. CASE SignalLegs(t, d) # {}
  <2> DEFINE l == CHOOSE k \in SignalLegs(t, d) : TRUE
             oid == [t.oid EXCEPT ![l] = d.id]
  <2>1. l \in Legs
    BY <1>2 DEF SignalLegs
  <2> HIDE DEF l
  <2>2. oid \in [Legs -> 0 .. 2 * MaxOrders] /\ \A k \in Legs : oid[k] \in {t.oid[k], d.id}
    BY <2>1 DEF Trade
  <2>3. OrderSignal(t, d) = Opened(t, l, d)
    BY <1>2 DEF OrderSignal, l
  <2> DEFINE u == [t EXCEPT !.oid = oid, !.entryState = "opened"]
             v == [t EXCEPT !.oid = oid, !.exitState = "opened"]
  <2>4. Opened(t, l, d) = u \/ Opened(t, l, d) = v
    BY DEF Opened
  <2> HIDE DEF oid
  <2>5. u \in Trade /\ u.closing = t.closing /\ u.oid = oid
    BY <2>2 DEF Trade, EntryState
  <2>6. v \in Trade /\ v.closing = t.closing /\ v.oid = oid
    BY <2>2 DEF Trade, ExitState
  <2> HIDE DEF u, v
  <2> QED
    BY <2>2, <2>3, <2>4, <2>5, <2>6
<1> QED
  BY <1>1, <1>2

\* The data order_info gives is a signal like those of the stream
LEMMA InfoSignalType ==
  ASSUME NEW kind \in SignalKind, NEW n \in 1 .. MaxOrders, NEW o \in Order
  PROVE  InfoSignal(kind, n, o) \in SignalData /\ InfoSignal(kind, n, o).kind = kind
  BY DEF InfoSignal, SignalData, Order, Ref

\* What order_info showed of a canceled order is applied, and the leg loses it
LEMMA CheckAndResetKeeps ==
  ASSUME NEW t \in Trade, NEW l \in Legs, NEW n \in 1 .. MaxOrders, NEW o \in Order
  PROVE  Keeps(t, CheckAndReset(t, l, n, o))
<1> DEFINE u == IF o.filled > Executed(t, l) THEN OrderSignal(t, InfoSignal("traded", n, o)) ELSE t
<1>1. "traded" \in SignalKind
  BY DEF SignalKind
<1>2. Keeps(t, OrderSignal(t, InfoSignal("traded", n, o)))
  BY <1>1, InfoSignalType, OrderSignalKeeps
<1>3. Keeps(t, u) /\ u \in Trade
  BY <1>2, KeepsReflexive, KeepsIsTrade
<1> HIDE DEF u
<1>4. Keeps(t, ResetLeg(u, l))
  BY <1>3, ResetLegKeeps, KeepsTransitive
<1> QED
  BY <1>4 DEF CheckAndReset, u

\* fix_by_order names no order the trade did not name
LEMMA FixByOrderKeeps ==
  ASSUME NEW t \in Trade, NEW l \in Legs, NEW n \in 1 .. MaxOrders, NEW o \in Order
  PROVE  Keeps(t, FixByOrder(t, l, n, o))
<1> DEFINE u == IF o.filled > Executed(t, l) \/ o.status = "closed"
                THEN OrderSignal(t, InfoSignal("traded", n, o)) ELSE t
<1>1. "traded" \in SignalKind /\ "deleted" \in SignalKind /\ "canceled" \in SignalKind
  BY DEF SignalKind
<1>2. Keeps(t, OrderSignal(t, InfoSignal("traded", n, o)))
  BY <1>1, InfoSignalType, OrderSignalKeeps
<1>3. Keeps(t, u) /\ u \in Trade
  BY <1>2, KeepsReflexive, KeepsIsTrade
<1> HIDE DEF u
<1>4. /\ Keeps(t, OrderSignal(u, InfoSignal("deleted", n, o)))
      /\ Keeps(t, OrderSignal(u, InfoSignal("canceled", n, o)))
  BY <1>1, <1>3, InfoSignalType, OrderSignalKeeps, KeepsTransitive
<1> QED
  BY <1>3, <1>4 DEF FixByOrder, u

\* The states remove, cancel_open and reinvest leave name no order
LEMMA AfterCancelKeeps ==
  ASSUME NEW t \in Trade, NEW l \in Legs, NEW name
  PROVE  Keeps(t, AfterCancel(name, l, t)) /\ Keeps(t, AfterUnknown(name, l, t))
<1>1. {"canceled", "filled"} \subseteq EntryState
  BY DEF EntryState
<1>2. {"canceled", "filled", "partially_filled"} \subseteq ExitState
  BY DEF ExitState
<1>3. Keeps(t, AfterCancel(name, l, t))
  BY <1>1, <1>2, SetFieldsKeeps, KeepsReflexive DEF AfterCancel
<1> DEFINE r == ResetLeg(t, l)
<1>4. Keeps(t, r) /\ r \in Trade
  BY ResetLegKeeps, KeepsIsTrade
<1> HIDE DEF r
<1>5. Keeps(t, [r EXCEPT !.entryState = "canceled"])
  BY <1>1, <1>4, SetFieldsKeeps, KeepsTransitive
<1> QED
  BY <1>3, <1>4, <1>5 DEF AfterUnknown, r

\* An exit order refused for lack of funds is not named
LEMMA OutOfFundsKeeps ==
  ASSUME NEW t \in Trade, NEW l \in Legs
  PROVE  Keeps(t, OutOfFunds(t, l))
<1> DEFINE r == ResetLeg(t, l)
<1>1. Keeps(t, r) /\ r \in Trade
  BY ResetLegKeeps, KeepsIsTrade
<1> HIDE DEF r
<1>2. "error" \in ExitState
  BY DEF ExitState
<1>3. Keeps(t, [r EXCEPT !.exitState = "error"])
  BY <1>1, <1>2, SetFieldsKeeps, KeepsTransitive
<1> QED
  BY <1>3 DEF OutOfFunds, r

---------------------------------------------------------------------------
(***************************************************************************)
(* The inductive invariant of type correctness: an operation reads the     *)
(* orders its trade names, so the trade, and the reports that tell it of   *)
(* an order, may only name orders that were placed.                        *)
(***************************************************************************)
Names(t, n) == \A l \in Legs : HasOrder(t, l) => OrderOf(t.oid[l]) \in 1 .. n

Told(c, n) == \A i \in 1 .. Len(c) : c[i].kind = "opened" => c[i].id \in 1 .. n

TypeInv ==
  /\ TypeOK
  /\ Len(orders) <= MaxOrders
  /\ Names(trade, Len(orders))
  /\ Told(channel, Len(orders))
  /\ op["command"].name = "open_ok" => orders # <<>>

---------------------------------------------------------------------------
\* Operations
LEMMA OperationType ==
  ASSUME NEW name \in OpName
  PROVE  /\ Operation(name, <<>>) \in Op
         /\ Operation(name, <<"entry">>) \in Op
         /\ Operation(name, <<"entry", "stop", "limit">>) \in Op
         /\ Operation(name, <<"entry", "limit", "stop">>) \in Op
<1>1. {<<>>, <<"entry">>, <<"entry", "stop", "limit">>, <<"entry", "limit", "stop">>}
        \subseteq {s \in Seq(Legs) : Len(s) <= 3}
  BY DEF Legs
<1> QED
  BY <1>1 DEF Operation, Op

\* A modification is an operation, that keeps that a first part failed
LEMMA ModifyOperationType ==
  ASSUME NEW name \in {"take_profit", "stop_loss"},
         NEW hard \in BOOLEAN, NEW price \in BOOLEAN, NEW dirty \in BOOLEAN
  PROVE  /\ ModifyOperation(name, hard, price, dirty) \in Op
         /\ \A failed \in BOOLEAN :
              [ModifyOperation(name, hard, price, dirty) EXCEPT !.failed = failed] \in Op
         /\ ModifyOperation(name, hard, price, dirty).name = name
<1> DEFINE own == IF name = "take_profit" THEN "limit" ELSE "stop"
           other == IF name = "take_profit" THEN "stop" ELSE "limit"
           todo == IF hard THEN <<own, other>> ELSE <<own>>
<1>1. todo \in {s \in Seq(Legs) : Len(s) <= 3}
  BY DEF Legs
<1>2. name \in OpName
  BY DEF OpName
<1> HIDE DEF todo
<1>3. ModifyOperation(name, hard, price, dirty) =
        [Operation(name, todo) EXCEPT !.hard = hard, !.price = price, !.dirty = dirty]
  BY DEF ModifyOperation, todo
<1>4. Operation(name, todo) \in Op /\ Operation(name, todo).name = name
  BY <1>1, <1>2 DEF Operation, Op
<1>5. /\ ModifyOperation(name, hard, price, dirty) \in Op
      /\ ModifyOperation(name, hard, price, dirty).name = name
  BY <1>3, <1>4 DEF Op
<1>6. \A failed \in BOOLEAN :
        [ModifyOperation(name, hard, price, dirty) EXCEPT !.failed = failed] \in Op
  BY <1>5 DEF Op
<1> QED
  BY <1>5, <1>6

\* The legs an operation has to do
LEMMA TodoType ==
  ASSUME NEW th \in Thread, op \in [Thread -> Op]
  PROVE  /\ op[th] \in Op
         /\ op[th].todo \in Seq(Legs)
         /\ Len(op[th].todo) \in Nat /\ Len(op[th].todo) <= 3
<1>1. op[th] \in Op
  OBVIOUS
<1>2. op[th].todo \in {s \in Seq(Legs) : Len(s) <= 3}
  BY <1>1 DEF Op
<1>3. op[th].todo \in Seq(Legs) /\ Len(op[th].todo) <= 3
  BY <1>2
<1>4. Len(op[th].todo) \in Nat
  BY <1>3, LenProperties
<1> QED
  BY <1>1, <1>3, <1>4

\* The next leg to cancel or check is one that has an order
LEMMA NextPlaceType ==
  ASSUME NEW th \in Thread, op \in [Thread -> Op], Pending(th) # {}
  PROVE  /\ NextPlace(th) \in 1 .. Len(op[th].todo)
         /\ op[th].todo[NextPlace(th)] \in Legs
         /\ HasOrder(trade, op[th].todo[NextPlace(th)])
<1> DEFINE todo == op[th].todo
<1>1. todo \in Seq(Legs) /\ Len(todo) \in Nat /\ Len(todo) <= 3
  BY TodoType
<1>2. Pending(th) \subseteq {1, 2, 3} /\ Pending(th) \subseteq 1 .. Len(todo)
  BY <1>1 DEF Pending
<1>3. \E i \in Pending(th) : \A j \in Pending(th) : i <= j
  <2>1. CASE 1 \in Pending(th)
    BY <1>2, <2>1
  <2>2. CASE 1 \notin Pending(th) /\ 2 \in Pending(th)
    BY <1>2, <2>2
  <2>3. CASE 1 \notin Pending(th) /\ 2 \notin Pending(th)
    BY <1>2, <2>3
  <2> QED
    BY <2>1, <2>2, <2>3
<1>4. NextPlace(th) \in Pending(th)
  BY <1>3 DEF NextPlace
<1> QED
  BY <1>1, <1>2, <1>4, ElementOfSeq DEF Pending

\* An operation that goes on to its next leg stays what it is
LEMMA AdvanceType ==
  ASSUME NEW th \in Thread, op \in [Thread -> Op], Pending(th) # {},
         NEW failed \in BOOLEAN, Advance(th, failed)
  PROVE  /\ op' \in [Thread -> Op]
         /\ \A k \in Thread : op'[k].name = op[k].name
<1> DEFINE todo == op[th].todo
           rest == SubSeq(todo, NextPlace(th) + 1, Len(todo))
           o == [op[th] EXCEPT !.todo = rest, !.failed = @ \/ failed]
<1>1. todo \in Seq(Legs) /\ Len(todo) \in Nat /\ Len(todo) <= 3 /\ NextPlace(th) \in 1 .. Len(todo)
  BY TodoType, NextPlaceType
<1>2. \A i \in NextPlace(th) + 1 .. Len(todo) : todo[i] \in Legs
  BY <1>1, ElementOfSeq
<1> DEFINE m == NextPlace(th) + 1
           n == Len(todo)
<1>3. n \in Int /\ n <= 3 /\ m \in Int /\ 2 <= m
  <2> HIDE DEF todo
  <2> QED
    BY <1>1
<1> HIDE DEF m, n
<1>4. SubSeq(todo, m, n) \in Seq(Legs) /\ Len(SubSeq(todo, m, n)) = IF m <= n THEN n - m + 1 ELSE 0
  BY <1>2, <1>3, SubSeqProperties DEF m, n
<1>5. rest \in Seq(Legs) /\ Len(rest) <= 3
  BY <1>3, <1>4 DEF m, n
<1> HIDE DEF rest
<1>6. o \in Op /\ o.name = op[th].name
  BY <1>5, TodoType DEF Op
<1>7. op' = [op EXCEPT ![th] = o]
  BY DEF Advance, Start, rest
<1> QED
  BY <1>6, <1>7

\* An operation that returns leaves the thread idle, or in update_dirty
LEMMA ReturnType ==
  ASSUME NEW th \in Thread, op \in [Thread -> Op], NEW negative \in BOOLEAN, Return(th, negative)
  PROVE  \E o \in Op : /\ op' = [op EXCEPT ![th] = o]
                       /\ o.name \in {"idle", "dirty_stop", "dirty_done"}
<1> DEFINE name == IF op[th].name = "take_profit" THEN "dirty_stop" ELSE "dirty_done"
           o == [Operation(name, <<>>) EXCEPT !.failed = op[th].failed \/ negative]
<1>1. Operation(name, <<>>) \in Op /\ Operation(name, <<>>).name = name
  BY OperationType DEF OpName, Operation
<1>2. op[th].failed \in BOOLEAN
  BY TodoType DEF Op
<1>3. o \in Op /\ o.name \in {"dirty_stop", "dirty_done"}
  BY <1>1, <1>2 DEF Op
<1>4. Idle \in Op /\ Idle.name = "idle"
  BY OperationType DEF Idle, OpName, Operation
<1> QED
  BY <1>3, <1>4 DEF Return, Start

---------------------------------------------------------------------------
\* What a trade names and what the reports tell, as orders are placed
LEMMA NamesKept ==
  ASSUME NEW t, NEW u, NEW n, Names(t, n), Keeps(t, u)
  PROVE  Names(u, n)
  BY DEF Names, Keeps, HasOrder

\* A trade that names placed orders still does when more are placed
LEMMA NamesMore ==
  ASSUME NEW t, NEW n \in Nat, NEW m \in Nat, n <= m, Names(t, n)
  PROVE  Names(t, m)
  BY DEF Names

\* A queue of reports about placed orders stays one with one more report
LEMMA ToldAppend ==
  ASSUME NEW c \in Seq(SignalData), NEW n \in Nat, NEW m \in Nat, n <= m, Told(c, n),
         NEW d \in SignalData, d.kind = "opened" => d.id \in 1 .. m
  PROVE  /\ Append(c, d) \in Seq(SignalData)
         /\ Told(c, m) /\ Told(Append(c, d), m)
<1>1. Append(c, d) \in Seq(SignalData)
  OBVIOUS
<1>2. Told(c, m)
  BY DEF Told
<1> QED
  BY <1>1, <1>2, AppendProperties DEF Told

\* The same for a report that is lost while the stream is down
LEMMA ReportType ==
  ASSUME channel \in Seq(SignalData), NEW n \in Nat, NEW m \in Nat, n <= m, Told(channel, n),
         NEW d \in SignalData, d.kind = "opened" => d.id \in 1 .. m, Report(d)
  PROVE  channel' \in Seq(SignalData) /\ Told(channel', m)
  BY ToldAppend DEF Report

\* A report of the exchange about an order has the type of a signal
LEMMA SignalType ==
  ASSUME NEW kind \in SignalKind, NEW n \in 0 .. MaxOrders
  PROVE  /\ Signal(kind, n) \in SignalData
         /\ Signal(kind, n).kind = kind
         /\ Signal(kind, n).id = n
  BY DEF Signal, SignalData, Ref

\* The orders the trade names are among the placed ones, at most MaxOrders
LEMMA OrdersType ==
  ASSUME TypeInv
  PROVE  /\ Len(orders) \in Nat /\ Len(orders) <= MaxOrders
         /\ \A n \in DOMAIN orders : orders[n] \in Order /\ n \in 1 .. MaxOrders
         /\ \A l \in Legs : HasOrder(trade, l) =>
              /\ OrderOf(trade.oid[l]) \in DOMAIN orders
              /\ OrderOf(trade.oid[l]) \in 1 .. MaxOrders
              /\ orders[OrderOf(trade.oid[l])] \in Order
<1>1. orders \in Seq(Order) /\ Len(orders) <= MaxOrders /\ Names(trade, Len(orders))
  BY DEF TypeInv, TypeOK
<1>2. Len(orders) \in Nat /\ DOMAIN orders = 1 .. Len(orders)
  BY <1>1, LenProperties
<1>3. \A n \in 1 .. Len(orders) : orders[n] \in Order
  BY <1>1, ElementOfSeq
<1> DEFINE len == Len(orders)
<1>4. ASSUME NEW n \in 1 .. len PROVE n \in 1 .. MaxOrders
  <2>1. len \in Nat /\ len <= MaxOrders
    BY <1>1, <1>2
  <2> HIDE DEF len
  <2> QED
    BY <2>1
<1> QED
  BY <1>1, <1>2, <1>3, <1>4 DEF Names

\* An order that changes stays an order
LEMMA OrderChanges ==
  ASSUME TypeInv, NEW n \in DOMAIN orders, NEW o \in Order,
         orders' = [orders EXCEPT ![n] = o]
  PROVE  orders' \in Seq(Order) /\ Len(orders') = Len(orders)
<1>1. orders \in Seq(Order)
  BY DEF TypeInv, TypeOK
<1>2. n \in 1 .. Len(orders)
  BY <1>1, LenProperties
<1> QED
  BY <1>1, <1>2, ExceptSeq

\* A placed order: the report of its opening names it
LEMMA AcceptType ==
  ASSUME TypeInv, NEW side \in {"buy", "sell"}, NEW qty \in Int, Accept(side, qty)
  PROVE  /\ orders' \in Seq(Order)
         /\ Len(orders') = Len(orders) + 1 /\ Len(orders') <= MaxOrders
         /\ channel' \in Seq(SignalData) /\ Told(channel', Len(orders'))
<1> DEFINE n == Len(orders)
           o == [side |-> side, qty |-> qty, filled |-> 0, fee |-> 0, status |-> "live"]
<1>1. n \in Nat /\ n + 1 <= MaxOrders
  BY OrdersType DEF Accept, Room
<1>2. orders \in Seq(Order) /\ channel \in Seq(SignalData) /\ Told(channel, n)
  BY DEF TypeInv, TypeOK
<1>3. o \in Order
  BY DEF Order, OrderStatus
<1>4. orders' = Append(orders, o) /\ Report(Signal("opened", n + 1))
  BY DEF Accept
<1> HIDE DEF o
<1>5. orders' \in Seq(Order) /\ Len(orders') = n + 1
  BY <1>2, <1>3, <1>4, AppendProperties
<1> HIDE DEF n
<1>6. n + 1 \in 0 .. MaxOrders /\ n + 1 \in Nat /\ n <= n + 1 /\ n + 1 \in 1 .. n + 1
  BY <1>1
<1>7. /\ Signal("opened", n + 1) \in SignalData
      /\ Signal("opened", n + 1).id \in 1 .. n + 1
  BY <1>6, SignalType DEF SignalKind
<1>8. channel' \in Seq(SignalData) /\ Told(channel', n + 1)
  BY <1>1, <1>2, <1>4, <1>6, <1>7, ReportType
<1> QED
  BY <1>1, <1>5, <1>8 DEF n

\* An execution preserves the type invariant
LEMMA FillType ==
  ASSUME TypeInv, NEW n \in DOMAIN orders, NEW k \in FillSizes, Fill(n, k)
  PROVE  TypeInv'
<1> USE ConstantsAssumption DEF ConstantsAssumption
<1> DEFINE o == orders[n]
           cum == o.filled + k
           fee == IF o.side = "buy" THEN BaseFee[k] ELSE 0
           status == IF cum = o.qty THEN "closed" ELSE "live"
           q == [o EXCEPT !.filled = cum, !.fee = o.fee + fee, !.status = status]
           full == cum = o.qty
           d == [Signal("traded", n) EXCEPT !.cum = cum, !.filled = k, !.full = full,
                                            !.fee = fee]
<1>1. o \in Order /\ n \in 1 .. MaxOrders /\ n \in 0 .. MaxOrders
  BY OrdersType
<1>2. k \in Nat /\ BaseFee[k] \in Nat /\ BaseFee[k] <= k
  OBVIOUS
<1>3. cum \in Nat /\ fee \in Nat /\ fee <= k /\ o.fee + fee \in Nat /\ status \in OrderStatus
  BY <1>1, <1>2 DEF Order, OrderStatus
<1>4. /\ orders' = [orders EXCEPT ![n] = q]
      /\ account' = IF o.side = "buy" THEN [account EXCEPT !.bought = @ + k - fee]
                                      ELSE [account EXCEPT !.sold = @ + k]
      /\ Report(d)
  BY DEF Fill
<1>0. full \in BOOLEAN
  OBVIOUS
<1> HIDE DEF cum, fee, status, full
<1>5. q \in Order
  BY <1>1, <1>3 DEF Order
<1>6. d \in SignalData /\ d.kind = "traded"
  <2>1. Signal("traded", n) \in SignalData /\ Signal("traded", n).kind = "traded"
    BY <1>1, SignalType DEF SignalKind
  <2> QED
    BY <2>1, <1>0, <1>2, <1>3 DEF SignalData
<1> HIDE DEF o, q, d
<1>7. account' \in [bought : Nat, sold : Nat]
  <2>1. account \in [bought : Nat, sold : Nat]
    BY DEF TypeInv, TypeOK
  <2>2. account.bought + k - fee \in Nat /\ account.sold + k \in Nat
    BY <2>1, <1>2, <1>3
  <2> QED
    BY <2>1, <2>2, <1>4
<1>8. orders' \in Seq(Order) /\ Len(orders') = Len(orders)
  BY <1>4, <1>5, OrderChanges
<1>9. channel' \in Seq(SignalData) /\ Told(channel', Len(orders))
  <2> DEFINE len == Len(orders)
  <2>1. len \in Nat /\ Told(channel, len) /\ channel \in Seq(SignalData)
    BY OrdersType DEF TypeInv, TypeOK
  <2> HIDE DEF len
  <2>2. len <= len
    BY <2>1
  <2>3. channel' \in Seq(SignalData) /\ Told(channel', len)
    BY <1>4, <1>6, <2>1, <2>2, ReportType
  <2> QED
    BY <2>3 DEF len
<1>10. UNCHANGED <<trade, listed, op, connected, checked, outages>>
  BY DEF Fill
<1> QED
  BY <1>7, <1>8, <1>9, <1>10 DEF TypeInv, TypeOK, Names, HasOrder

\* A report of an order that was placed before
LEMMA ReportSame ==
  ASSUME TypeInv, NEW d \in SignalData, d.kind # "opened", Report(d)
  PROVE  channel' \in Seq(SignalData) /\ Told(channel', Len(orders))
<1> DEFINE len == Len(orders)
<1>1. len \in Nat /\ Told(channel, len) /\ channel \in Seq(SignalData)
  BY OrdersType DEF TypeInv, TypeOK
<1> HIDE DEF len
<1>2. len <= len
  BY <1>1
<1>3. channel' \in Seq(SignalData) /\ Told(channel', len)
  BY <1>1, <1>2, ReportType
<1> QED
  BY <1>3 DEF len

\* The end of an order, on the exchange, preserves the type invariant
LEMMA EndOrderType ==
  ASSUME TypeInv, NEW n \in DOMAIN orders, NEW status \in ExchangeEvents, EndOrder(n, status)
  PROVE  TypeInv'
<1> DEFINE q == [orders[n] EXCEPT !.status = status]
           d == CASE status = "expired"  -> [Signal("deleted", n) EXCEPT !.ref = None]
                  [] status = "canceled" -> Signal("canceled", n)
                  [] status = "rejected" -> [Signal("rejected", n) EXCEPT !.id = Ref(n), !.ref = None]
<1>1. orders[n] \in Order /\ n \in 1 .. MaxOrders /\ n \in 0 .. MaxOrders
  BY OrdersType
<1>2. status \in {"expired", "canceled", "rejected"}
  BY ConstantsAssumption DEF ConstantsAssumption
<1>3. q \in Order
  BY <1>1, <1>2 DEF Order, OrderStatus
<1>4. /\ [Signal("deleted", n) EXCEPT !.ref = None] \in SignalData
      /\ [Signal("deleted", n) EXCEPT !.ref = None].kind = "deleted"
      /\ Signal("canceled", n) \in SignalData /\ Signal("canceled", n).kind = "canceled"
      /\ [Signal("rejected", n) EXCEPT !.id = Ref(n), !.ref = None] \in SignalData
      /\ [Signal("rejected", n) EXCEPT !.id = Ref(n), !.ref = None].kind = "rejected"
  <2>1. /\ Signal("deleted", n) \in SignalData /\ Signal("deleted", n).kind = "deleted"
        /\ Signal("canceled", n) \in SignalData /\ Signal("canceled", n).kind = "canceled"
        /\ Signal("rejected", n) \in SignalData /\ Signal("rejected", n).kind = "rejected"
    BY <1>1, SignalType DEF SignalKind
  <2>2. Ref(n) \in -MaxOrders .. MaxOrders /\ None \in -MaxOrders .. 0
    BY <1>1 DEF Ref, None
  <2> QED
    BY <2>1, <2>2 DEF SignalData
<1>5. d \in SignalData /\ d.kind # "opened"
  BY <1>2, <1>4
<1>6. orders' = [orders EXCEPT ![n] = q] /\ Report(d)
  BY DEF EndOrder
<1> HIDE DEF q, d
<1>7. orders' \in Seq(Order) /\ Len(orders') = Len(orders)
  BY <1>3, <1>6, OrderChanges
<1>8. channel' \in Seq(SignalData) /\ Told(channel', Len(orders))
  BY <1>5, <1>6, ReportSame
<1>9. UNCHANGED <<account, trade, listed, op, connected, checked, outages>>
  BY DEF EndOrder
<1> QED
  BY <1>7, <1>8, <1>9 DEF TypeInv, TypeOK

---------------------------------------------------------------------------
\* The steps that place no order, change no report, and keep the trade
LEMMA OpStep ==
  ASSUME TypeInv, Keeps(trade, trade'), op' \in [Thread -> Op],
         op'["command"].name = "open_ok" => op["command"].name = "open_ok",
         listed' \in BOOLEAN, checked' \in CheckState,
         UNCHANGED <<account, orders, channel, connected, outages>>
  PROVE  TypeInv'
<1>1. trade' \in Trade /\ Names(trade', Len(orders))
  BY KeepsIsTrade, NamesKept DEF TypeInv
<1> QED
  BY <1>1 DEF TypeInv, TypeOK

\* A thread that starts an operation has one, which is not the entry command
LEMMA StartType ==
  ASSUME TypeInv, NEW th \in Thread, NEW o \in Op, o.name # "open_ok", Start(th, o)
  PROVE  /\ op' \in [Thread -> Op]
         /\ op'["command"].name = "open_ok" => op["command"].name = "open_ok"
  BY DEF TypeInv, TypeOK, Start, Thread

\* A step that leaves the trade alone keeps it
LEMMA TradeUnchanged ==
  ASSUME TypeInv, UNCHANGED trade
  PROVE  Keeps(trade, trade')
  BY KeepsReflexive DEF TypeInv, TypeOK

\* The names operations have
LEMMA Names1 ==
  /\ "mutex" \in Thread /\ "command" \in Thread
  /\ \A name \in OpName : \A todo : Operation(name, todo).name = name
  /\ {"cancel_open", "resize", "close", "finalize", "terminate", "clean", "check", "open_ok",
      "open_failed", "dirty_stop", "dirty_done", "idle", "recheck"} \subseteq OpName
  BY DEF Thread, Operation, OpName

\* The steps that start an operation, or drop the trade, preserve the type invariant
LEMMA SimpleType ==
  ASSUME TypeInv,
         CleanupTrades \/ CancelOpen \/ Resize \/ Close \/ SoftClose \/ Check \/ CheckTrades \/ Terminate \/ Clean
  PROVE  TypeInv'
<1>1. Keeps(trade, trade') /\ UNCHANGED <<account, orders, channel, connected, outages>>
  BY TradeUnchanged DEF CleanupTrades, CancelOpen, Resize, Close, SoftClose, Check, CheckTrades, Terminate, Clean
<1>2. listed \in BOOLEAN /\ checked \in CheckState /\ op \in [Thread -> Op]
  BY DEF TypeInv, TypeOK
<1>3. listed' \in BOOLEAN /\ checked' \in CheckState
  BY <1>2 DEF CheckState, CleanupTrades, CancelOpen, Resize, Close, SoftClose, Check, CheckTrades, Terminate, Clean
<1>4. /\ op' \in [Thread -> Op]
      /\ op'["command"].name = "open_ok" => op["command"].name = "open_ok"
  <2>1. CASE CleanupTrades
    BY <1>2, <2>1 DEF CleanupTrades
  <2>2. CASE CancelOpen \/ Resize \/ Close \/ SoftClose \/ Check \/ CheckTrades \/ Terminate \/ Clean
    <3>1. \E th \in Thread, o \in Op : o.name # "open_ok" /\ Start(th, o)
      BY <2>2, Names1, OperationType
         DEF CancelOpen, Resize, Close, SoftClose, Check, CheckTrades, Terminate, Clean, CloseOperation
    <3> QED
      BY <3>1, StartType
  <2> QED
    BY <2>1, <2>2
<1> QED
  BY <1>1, <1>3, <1>4, OpStep

\* A modification starts with the type invariant preserved
LEMMA ModifyType ==
  ASSUME TypeInv, NEW name \in {"take_profit", "stop_loss"}, Modify(name)
  PROVE  TypeInv'
<1>1. trade \in Trade /\ op \in [Thread -> Op] /\ listed \in BOOLEAN /\ checked \in CheckState
  BY DEF TypeInv, TypeOK
<1>2. /\ UNCHANGED <<account, listed, orders, channel, connected, checked, outages>>
      /\ \E hard, price \in BOOLEAN :
           \/ Start("mutex", ModifyOperation(name, hard, price, FALSE)) /\ UNCHANGED trade
           \/ trade' = [trade EXCEPT !.tp = price] /\ UNCHANGED op
           \/ trade' = [trade EXCEPT !.sl = price] /\ UNCHANGED op
  BY DEF Modify
<1>3. PICK hard \in BOOLEAN, price \in BOOLEAN :
        \/ Start("mutex", ModifyOperation(name, hard, price, FALSE)) /\ UNCHANGED trade
        \/ trade' = [trade EXCEPT !.tp = price] /\ UNCHANGED op
        \/ trade' = [trade EXCEPT !.sl = price] /\ UNCHANGED op
  BY <1>2
<1>4. CASE Start("mutex", ModifyOperation(name, hard, price, FALSE)) /\ UNCHANGED trade
  <2>1. /\ ModifyOperation(name, hard, price, FALSE) \in Op
        /\ ModifyOperation(name, hard, price, FALSE).name # "open_ok"
    BY ModifyOperationType
  <2> QED
    BY <1>1, <1>2, <1>4, <2>1, Names1, StartType, TradeUnchanged, OpStep
<1>5. CASE (trade' = [trade EXCEPT !.tp = price] \/ trade' = [trade EXCEPT !.sl = price]) /\ UNCHANGED op
  <2>1. Keeps(trade, trade')
    BY <1>1, <1>5, SetFlagsKeeps
  <2> QED
    BY <1>1, <1>2, <1>5, <2>1, OpStep
<1> QED
  BY <1>3, <1>4, <1>5

\* The three steps of update_dirty preserve the type invariant
LEMMA UpdateDirtyType ==
  ASSUME TypeInv, UpdateDirty \/ UpdateDirtyStop \/ UpdateDirtyDone
  PROVE  TypeInv'
<1>1. /\ trade \in Trade /\ listed \in BOOLEAN /\ checked \in CheckState
      /\ op \in [Thread -> Op] /\ op["mutex"] \in Op /\ op["mutex"].failed \in BOOLEAN
  BY TodoType, Names1 DEF TypeInv, TypeOK, Op
<1>2. UNCHANGED <<account, listed, orders, channel, connected, checked, outages>>
  BY DEF UpdateDirty, UpdateDirtyStop, UpdateDirtyDone
<1>3. \E o \in Op : o.name # "open_ok" /\ Start("mutex", o)
  <2>1. CASE UpdateDirty
    BY <2>1, ModifyOperationType, OperationType, Names1 DEF UpdateDirty
  <2>2. CASE UpdateDirtyStop
    <3> DEFINE m == ModifyOperation("stop_loss", TRUE, TRUE, TRUE)
               o == [m EXCEPT !.failed = op["mutex"].failed]
               p == [op["mutex"] EXCEPT !.name = "dirty_done"]
    <3>1. p \in Op /\ p.name # "open_ok"
      BY <1>1 DEF Op, OpName
    <3>2. Start("mutex", o) \/ Start("mutex", p)
      BY <2>2 DEF UpdateDirtyStop
    <3>3. m \in Op /\ m.name = "stop_loss"
      BY ModifyOperationType
    <3> HIDE DEF m
    <3>4. o \in Op /\ o.name # "open_ok"
      BY <1>1, <3>3 DEF Op
    <3> HIDE DEF o, p
    <3> QED
      BY <3>1, <3>2, <3>4
  <2>3. CASE UpdateDirtyDone
    BY <2>3, OperationType, Names1 DEF UpdateDirtyDone, Idle, CloseOperation
  <2> QED
    BY <2>1, <2>2, <2>3
<1>4. Keeps(trade, trade')
  <2>1. CASE UpdateDirtyDone
    BY <1>1, <2>1, SetFlagsKeeps DEF UpdateDirtyDone
  <2>2. CASE UpdateDirty \/ UpdateDirtyStop
    BY <2>2, TradeUnchanged DEF UpdateDirty, UpdateDirtyStop
  <2> QED
    BY <2>1, <2>2
<1> QED
  BY <1>1, <1>2, <1>3, <1>4, Names1, StartType, OpStep

\* The failure of create_order in open preserves the type invariant
LEMMA OpenFailedType ==
  ASSUME TypeInv, OpenFailed
  PROVE  TypeInv'
<1>1. trade \in Trade /\ checked \in CheckState
  BY DEF TypeInv, TypeOK
<1>2. Keeps(trade, trade')
  BY <1>1, SetFieldsKeeps DEF OpenFailed, EntryState
<1>3. Idle \in Op /\ Idle.name # "open_ok" /\ Start("command", Idle)
  BY OperationType, Names1 DEF OpenFailed, Idle, Start
<1> QED
  BY <1>1, <1>2, <1>3, Names1, StartType, OpStep DEF OpenFailed

\* A lost stream, its return, the watcher's signal of it and a restart preserve the type invariant
LEMMA OutageType ==
  ASSUME TypeInv, Disconnect \/ Reconnect \/ Restart \/ WatcherConnected
  PROVE  TypeInv'
<1>1. CASE Disconnect
  <2>0. outages \in Nat
    BY DEF TypeInv, TypeOK
  <2>1. connected' = FALSE /\ outages' = outages + 1
    BY <1>1 DEF Disconnect
  <2>2. outages' \in Nat
    BY <2>0, <2>1
  <2>3. UNCHANGED <<account, trade, listed, orders, channel, op, checked>>
    BY <1>1 DEF Disconnect
  <2> QED
    BY <2>1, <2>2, <2>3 DEF TypeInv, TypeOK
<1>2. CASE Reconnect
  <2> DEFINE d == [Signal("connected", None) EXCEPT !.ref = None]
             len == Len(orders)
  <2>1. d \in SignalData /\ d.kind = "connected"
    BY SignalType DEF SignalData, SignalKind, None
  <2>2. channel \in Seq(SignalData) /\ Told(channel, len) /\ len \in Nat
    BY OrdersType DEF TypeInv, TypeOK
  <2>3. channel' = Append(channel, d)
    BY <1>2 DEF Reconnect
  <2> HIDE DEF d, len
  <2>4. len <= len
    BY <2>2
  <2>5. channel' \in Seq(SignalData) /\ Told(channel', len)
    BY <2>1, <2>2, <2>3, <2>4, ToldAppend
  <2>6. connected' \in BOOLEAN /\ UNCHANGED <<account, trade, listed, orders, op, checked, outages>>
    BY <1>2 DEF Reconnect
  <2> QED
    BY <2>5, <2>6 DEF TypeInv, TypeOK, len
<1>3. CASE Restart
  <2>1. trade \in Trade /\ outages \in Nat
    BY DEF TypeInv, TypeOK
  <2>2. Keeps(trade, trade')
    BY <1>3, <2>1, SetFlagsKeeps DEF Restart
  <2>3. trade' \in Trade /\ Names(trade', Len(orders))
    BY <2>2, KeepsIsTrade, NamesKept DEF TypeInv
  <2>4. channel' = <<>> /\ Told(channel', Len(orders)) /\ channel' \in Seq(SignalData)
    BY <1>3, EmptySeq DEF Restart, Told
  <2>5. /\ connected' \in BOOLEAN /\ checked' \in CheckState /\ outages' \in Nat
        /\ UNCHANGED <<account, listed, orders, op>>
    BY <1>3, <2>1 DEF Restart, CheckState
  <2> QED
    BY <2>3, <2>4, <2>5 DEF TypeInv, TypeOK
<1>4. CASE WatcherConnected
  <2> DEFINE len == Len(orders)
  <2>1. channel \in Seq(SignalData) /\ channel # <<>> /\ Told(channel, len)
    BY <1>4 DEF WatcherConnected, TypeInv, TypeOK
  <2>2. channel' \in Seq(SignalData) /\ Told(channel', len)
    BY <1>4, <2>1, HeadTailProperties DEF WatcherConnected, Told
  <2>3. /\ checked' \in CheckState
        /\ UNCHANGED <<account, trade, listed, orders, op, connected, outages>>
    BY <1>4 DEF WatcherConnected, CheckState
  <2> QED
    BY <2>2, <2>3 DEF TypeInv, TypeOK
<1> QED
  BY <1>1, <1>2, <1>3, <1>4

---------------------------------------------------------------------------
\* The steps that make the trade name an order, or act on an order it names
LEMMA OpenType ==
  ASSUME TypeInv, Open
  PROVE  TypeInv'
<1>0. Ref(Len(orders) + 1) = Ref(1)
  BY EmptySeq DEF Open
<1>1. PICK tp \in BOOLEAN, sl \in BOOLEAN :
        trade' = [NewTrade EXCEPT !.ref["entry"] = Ref(1), !.oq = Quantity, !.tp = tp, !.sl = sl]
  BY <1>0 DEF Open
<1>2. Quantity \in Nat
  BY ConstantsAssumption DEF ConstantsAssumption
<1>3. trade' \in Trade /\ trade'.oid = [l \in Legs |-> None]
  <2> DEFINE ref == [[l \in Legs |-> None] EXCEPT !["entry"] = Ref(1)]
  <2>1. ref \in [Legs -> -MaxOrders .. 0]
    BY ZeroInRange DEF Legs, Ref, None
  <2>2. trade' = [NewTrade EXCEPT !.ref = ref, !.oq = Quantity, !.tp = tp, !.sl = sl]
    BY <1>1 DEF NewTrade
  <2> HIDE DEF ref
  <2>3. [l \in Legs |-> None] \in [Legs -> 0 .. 2 * MaxOrders]
    BY ZeroInRange DEF None
  <2>4. [l \in Legs |-> 0] \in [Legs -> Int] /\ [l \in Legs |-> 0] \in [Legs -> Nat]
    OBVIOUS
  <2>5. NewTrade \in Trade
    BY <2>3, <2>4, ZeroInRange DEF Trade, NewTrade, EntryState, ExitState, None
  <2>6. NewTrade.oid = [l \in Legs |-> None]
    BY DEF NewTrade
  <2> HIDE DEF NewTrade
  <2> QED
    BY <1>2, <2>1, <2>2, <2>5, <2>6 DEF Trade
<1>4. \A n : Names(trade', n)
  BY <1>3 DEF Names, HasOrder
<1>5. \E name \in {"open_ok", "open_failed"} : op' = [op EXCEPT !["command"] = Operation(name, <<>>)]
  BY DEF Open
<1>6. op' \in [Thread -> Op]
  BY <1>5, OperationType, Names1 DEF TypeInv, TypeOK
<1>7. \/ Accept("buy", Quantity)
      \/ UNCHANGED <<orders, channel>> /\ op'["command"].name # "open_ok"
  <2>1. op["command"] \in Op /\ op \in [Thread -> Op]
    BY Names1 DEF TypeInv, TypeOK
  <2> QED
    BY <2>1, Names1 DEF Open, Refuse
<1>8. listed' \in BOOLEAN /\ UNCHANGED <<account, connected, checked, outages>>
  BY DEF Open
<1>9. CASE Accept("buy", Quantity)
  <2>1. /\ orders' \in Seq(Order)
        /\ Len(orders') = Len(orders) + 1 /\ Len(orders') <= MaxOrders
        /\ channel' \in Seq(SignalData) /\ Told(channel', Len(orders'))
    BY <1>2, <1>9, AcceptType
  <2>2. orders' # <<>>
    BY <2>1, OrdersType, EmptySeq
  <2> QED
    BY <1>3, <1>4, <1>6, <1>8, <2>1, <2>2 DEF TypeInv, TypeOK
<1>10. CASE UNCHANGED <<orders, channel>> /\ op'["command"].name # "open_ok"
  BY <1>3, <1>4, <1>6, <1>8, <1>10 DEF TypeInv, TypeOK
<1> QED
  BY <1>7, <1>9, <1>10

\* A trade that is told the identifier id of one of its legs
LEMMA NamesSet ==
  ASSUME NEW t \in Trade, NEW l \in Legs, NEW id \in 0 .. 2 * MaxOrders, NEW n, Names(t, n),
         OrderOf(id) \in 1 .. n, NEW u, u.oid = [t.oid EXCEPT ![l] = id]
  PROVE  Names(u, n)
  BY DEF Names, HasOrder, Trade

\* create_order returns the identifier of order k
LEMMA RawIdOrder ==
  ASSUME NEW k \in 1 .. MaxOrders
  PROVE  /\ OrderOf(RawId(k)) = k /\ OrderOf(k) = k
         /\ RawId(k) \in 0 .. 2 * MaxOrders /\ k \in 0 .. 2 * MaxOrders
  BY DEF OrderOf, RawId

\* The entry identifier create_order returned is that of a placed order
LEMMA OpenReturnType ==
  ASSUME TypeInv, OpenReturn
  PROVE  TypeInv'
<1> DEFINE id == IF IntIds THEN RawId(1) ELSE 1
           len == Len(orders)
           oid == [trade.oid EXCEPT !["entry"] = id]
<1>1. 1 \in 1 .. MaxOrders
  OBVIOUS
<1>2. id \in 0 .. 2 * MaxOrders /\ OrderOf(id) = 1
  BY <1>1, RawIdOrder
<1>3. len \in Nat /\ orders # <<>> /\ orders \in Seq(Order)
  BY OrdersType DEF OpenReturn, TypeInv, TypeOK
<1>4. len \in Nat \ {0}
  BY <1>3, EmptySeq
<1>5. trade \in Trade /\ Names(trade, len)
  BY DEF TypeInv, TypeOK
<1>6. trade' = [trade EXCEPT !.oid = oid]
  BY DEF OpenReturn
<1> HIDE DEF id, len
<1>7. OrderOf(id) \in 1 .. len
  BY <1>2, <1>4
<1>8. oid \in [Legs -> 0 .. 2 * MaxOrders]
  BY <1>2, <1>5 DEF Trade
<1> HIDE DEF oid
<1>9. trade' \in Trade /\ trade'.oid = oid
  BY <1>5, <1>6, <1>8 DEF Trade
<1>10. Names(trade', len)
  BY <1>2, <1>5, <1>7, <1>9, NamesSet DEF oid, Legs
<1>11. Idle \in Op /\ Idle.name # "open_ok" /\ Start("command", Idle)
  BY OperationType, Names1 DEF OpenReturn, Idle, Start
<1>12. /\ op' \in [Thread -> Op]
       /\ op'["command"].name = "open_ok" => op["command"].name = "open_ok"
  BY <1>11, Names1, StartType
<1>13. UNCHANGED <<account, listed, orders, channel, connected, checked, outages>>
  BY DEF OpenReturn
<1> QED
  BY <1>9, <1>10, <1>12, <1>13 DEF TypeInv, TypeOK, len

\* A delivered report preserves the type invariant: it tells of a placed order
LEMMA DeliverSignalType ==
  ASSUME TypeInv, DeliverSignal
  PROVE  TypeInv'
<1> DEFINE d == Head(channel)
           len == Len(orders)
<1>1. /\ trade \in Trade /\ Names(trade, len) /\ len \in Nat /\ len <= MaxOrders
      /\ channel \in Seq(SignalData) /\ channel # <<>> /\ Told(channel, len)
      /\ op \in [Thread -> Op] /\ checked \in CheckState
  BY OrdersType DEF DeliverSignal, TypeInv, TypeOK
<1>2. d \in SignalData /\ (d.kind = "opened" => d.id \in 1 .. len)
  BY <1>1, HeadTailProperties, EmptySeq DEF Told
<1>3. channel' \in Seq(SignalData) /\ Told(channel', len)
  BY <1>1, HeadTailProperties DEF DeliverSignal, Told
<1>4. trade' = trade \/ trade' = OrderSignal(trade, d)
  BY DEF DeliverSignal
<1>5. UNCHANGED op \/ Start("mutex", Operation("finalize", <<"entry", "stop", "limit">>))
  BY DEF DeliverSignal
<1>6. checked' \in CheckState /\ UNCHANGED <<account, listed, orders, connected, outages>>
  BY <1>1 DEF DeliverSignal
<1>7. /\ op' \in [Thread -> Op]
      /\ op'["command"].name = "open_ok" => op["command"].name = "open_ok"
  BY <1>1, <1>5, Names1, OperationType, StartType
<1> HIDE DEF d, len
<1>8. trade' \in Trade /\ Names(trade', len)
  <2>1. CASE trade' = trade
    BY <1>1, <2>1 DEF Names
  <2>2. CASE trade' = OrderSignal(trade, d) /\ d.kind # "opened"
    BY <1>1, <1>2, <2>2, OrderSignalKeeps, NamesKept, KeepsIsTrade
  <2>3. CASE trade' = OrderSignal(trade, d) /\ d.kind = "opened"
    <3>1. d.id \in 1 .. len /\ d.id \in 1 .. MaxOrders /\ OrderOf(d.id) = d.id
      BY <1>1, <1>2, <2>3 DEF OrderOf
    <3> QED
      BY <1>1, <1>2, <2>3, <3>1, OpenedIsTrade DEF Names, HasOrder
  <2> QED
    BY <1>4, <2>1, <2>2, <2>3
<1> QED
  BY <1>3, <1>6, <1>7, <1>8 DEF TypeInv, TypeOK, len

\* The order an operation cancels or checks
LEMMA NextOrder ==
  ASSUME TypeInv, NEW th \in Thread, Pending(th) # {},
         NEW l, l = op[th].todo[NextPlace(th)], NEW n, n = OrderOf(trade.oid[l])
  PROVE  /\ l \in Legs
         /\ n \in DOMAIN orders /\ n \in 1 .. MaxOrders /\ orders[n] \in Order
<1>1. op \in [Thread -> Op]
  BY DEF TypeInv, TypeOK
<1>2. l \in Legs /\ HasOrder(trade, l)
  BY <1>1, NextPlaceType
<1> QED
  BY <1>2, OrdersType

\* A canceled order stays an order, and its report is one about a placed order
LEMMA CancelOnExchangeType ==
  ASSUME TypeInv, NEW n \in DOMAIN orders, CancelOnExchange(n)
  PROVE  /\ orders' \in Seq(Order) /\ Len(orders') = Len(orders)
         /\ channel' \in Seq(SignalData) /\ Told(channel', Len(orders))
<1> DEFINE q == [orders[n] EXCEPT !.status = "canceled"]
<1>1. orders[n] \in Order /\ n \in 1 .. MaxOrders /\ n \in 0 .. MaxOrders
  BY OrdersType
<1>2. q \in Order
  BY <1>1 DEF Order, OrderStatus
<1>3. orders' = [orders EXCEPT ![n] = q] /\ Report(Signal("canceled", n))
  BY DEF CancelOnExchange
<1>4. Signal("canceled", n) \in SignalData /\ Signal("canceled", n).kind # "opened"
  BY <1>1, SignalType DEF SignalKind
<1> HIDE DEF q
<1> QED
  BY <1>2, <1>3, <1>4, OrderChanges, ReportSame

\* The steps that may cancel an order on the exchange and keep the trade
LEMMA LegStep ==
  ASSUME TypeInv, Keeps(trade, trade'), op' \in [Thread -> Op],
         op'["command"].name = "open_ok" => op["command"].name = "open_ok",
         \/ UNCHANGED <<orders, channel>>
         \/ \E n \in DOMAIN orders : CancelOnExchange(n),
         UNCHANGED <<account, listed, connected, checked, outages>>
  PROVE  TypeInv'
<1>1. trade' \in Trade /\ Names(trade', Len(orders))
  BY KeepsIsTrade, NamesKept DEF TypeInv
<1>2. CASE UNCHANGED <<orders, channel>>
  BY <1>1, <1>2 DEF TypeInv, TypeOK
<1>3. CASE \E n \in DOMAIN orders : CancelOnExchange(n)
  <2>1. /\ orders' \in Seq(Order) /\ Len(orders') = Len(orders)
        /\ channel' \in Seq(SignalData) /\ Told(channel', Len(orders))
    BY <1>3, CancelOnExchangeType
  <2>2. orders # <<>> => orders' # <<>>
    BY <2>1, EmptySeq DEF TypeInv, TypeOK
  <2> QED
    BY <1>1, <2>1, <2>2 DEF TypeInv, TypeOK
<1> QED
  BY <1>2, <1>3

\* cancel_order succeeds: the order is canceled and the trade at most forgets it
LEMMA CancelAcceptedKeeps ==
  ASSUME TypeInv, NEW th \in Thread, CancelAccepted(th)
  PROVE  /\ Keeps(trade, trade')
         /\ \E n \in DOMAIN orders : CancelOnExchange(n)
<1> DEFINE l == op[th].todo[NextPlace(th)]
           n == OrderOf(trade.oid[l])
           q == [orders[n] EXCEPT !.status = "canceled"]
<1>1. trade \in Trade /\ Pending(th) # {}
  BY DEF CancelAccepted, TypeInv, TypeOK
<1>2. l \in Legs /\ n \in DOMAIN orders /\ n \in 1 .. MaxOrders /\ orders[n] \in Order
  BY <1>1, NextOrder
<1>3. q \in Order
  BY <1>2 DEF Order, OrderStatus
<1>4. /\ CancelOnExchange(n)
      /\ \/ trade' = AfterCancel(op[th].name, l, CheckAndReset(trade, l, n, q))
         \/ trade' = AfterCancel(op[th].name, l, ResetLeg(trade, l))
  BY DEF CancelAccepted
<1> HIDE DEF l, n, q
<1>5. /\ Keeps(trade, CheckAndReset(trade, l, n, q)) /\ CheckAndReset(trade, l, n, q) \in Trade
      /\ Keeps(trade, ResetLeg(trade, l)) /\ ResetLeg(trade, l) \in Trade
  BY <1>1, <1>2, <1>3, CheckAndResetKeeps, ResetLegKeeps, KeepsIsTrade
<1>6. Keeps(trade, trade')
  BY <1>2, <1>4, <1>5, AfterCancelKeeps, KeepsTransitive
<1> QED
  BY <1>2, <1>4, <1>6

\* cancel_order fails: the trade at most forgets the order
LEMMA CancelRefusedKeeps ==
  ASSUME TypeInv, NEW th \in Thread, CancelRefused(th)
  PROVE  /\ Keeps(trade, trade')
         /\ UNCHANGED <<orders, channel>> \/ \E n \in DOMAIN orders : CancelOnExchange(n)
<1> DEFINE l == op[th].todo[NextPlace(th)]
           n == OrderOf(trade.oid[l])
<1>1. trade \in Trade /\ Pending(th) # {}
  BY DEF CancelRefused, TypeInv, TypeOK
<1>2. l \in Legs /\ n \in DOMAIN orders
  BY <1>1, NextOrder
<1>3. /\ UNCHANGED <<orders, channel>> \/ CancelOnExchange(n)
      /\ trade' = AfterUnknown(op[th].name, l, trade) \/ UNCHANGED trade
  BY DEF CancelRefused
<1> HIDE DEF l, n
<1>4. Keeps(trade, trade')
  BY <1>1, <1>2, <1>3, AfterCancelKeeps, TradeUnchanged
<1> QED
  BY <1>2, <1>3, <1>4

\* check applies what order_info shows and at most forgets the order
LEMMA CheckLegKeeps ==
  ASSUME TypeInv, NEW th \in Thread, CheckLeg(th)
  PROVE  Keeps(trade, trade')
<1> DEFINE l == op[th].todo[NextPlace(th)]
           n == OrderOf(trade.oid[l])
<1>1. trade \in Trade /\ Pending(th) # {}
  BY DEF CheckLeg, TypeInv, TypeOK
<1>2. l \in Legs /\ n \in DOMAIN orders /\ n \in 1 .. MaxOrders /\ orders[n] \in Order
  BY <1>1, NextOrder
<1>3. \/ trade' = FixByOrder(trade, l, n, orders[n])
      \/ trade' = ResetLeg(trade, l)
      \/ UNCHANGED trade
  BY DEF CheckLeg
<1> HIDE DEF l, n
<1> QED
  BY <1>1, <1>2, <1>3, FixByOrderKeeps, ResetLegKeeps, TradeUnchanged

\* An operation that returns is not the entry command
LEMMA ReturnStep ==
  ASSUME TypeInv, NEW th \in Thread, NEW negative \in BOOLEAN, Return(th, negative)
  PROVE  /\ op' \in [Thread -> Op]
         /\ op'["command"].name = "open_ok" => op["command"].name = "open_ok"
<1>1. op \in [Thread -> Op]
  BY DEF TypeInv, TypeOK
<1>2. PICK o \in Op : op' = [op EXCEPT ![th] = o] /\ o.name # "open_ok"
  BY <1>1, ReturnType
<1> QED
  BY <1>2, StartType DEF Start

\* The REST calls on one leg preserve the type invariant
LEMMA LegType ==
  ASSUME TypeInv, NEW th \in Thread, CancelAccepted(th) \/ CancelRefused(th) \/ CheckLeg(th)
  PROVE  TypeInv'
<1>1. op \in [Thread -> Op] /\ Pending(th) # {}
  BY DEF CancelAccepted, CancelRefused, CheckLeg, TypeInv, TypeOK
<1>2. /\ Keeps(trade, trade')
      /\ UNCHANGED <<orders, channel>> \/ \E n \in DOMAIN orders : CancelOnExchange(n)
  <2>1. CheckLeg(th) => UNCHANGED <<orders, channel>>
    BY DEF CheckLeg
  <2> QED
    BY <2>1, CancelAcceptedKeeps, CancelRefusedKeeps, CheckLegKeeps
<1>3. /\ Advance(th, FALSE) \/ Advance(th, TRUE) \/ Return(th, TRUE)
      /\ UNCHANGED <<account, listed, connected, checked, outages>>
  BY DEF CancelAccepted, CancelRefused, CheckLeg
<1>4. /\ op' \in [Thread -> Op]
      /\ op'["command"].name = "open_ok" => op["command"].name = "open_ok"
  BY <1>1, <1>3, AdvanceType, ReturnStep, Names1
<1> QED
  BY <1>2, <1>3, <1>4, LegStep

\* The last steps that place no order preserve the type invariant
LEMMA LastType ==
  ASSUME TypeInv, NEW th \in Thread,
         NothingToExit(th) \/ SoftPrice(th) \/ Unlist(th) \/ Finish(th)
  PROVE  TypeInv'
<1>1. /\ trade \in Trade /\ listed \in BOOLEAN /\ checked \in CheckState
      /\ op[th].price \in BOOLEAN
  BY TodoType DEF TypeInv, TypeOK, Op
<1>2. /\ \/ UNCHANGED trade
         \/ trade' = [trade EXCEPT !.tp = op[th].price]
         \/ trade' = [trade EXCEPT !.sl = op[th].price]
      /\ Return(th, FALSE) \/ Start(th, Idle)
      /\ UNCHANGED <<account, orders, channel, connected, outages>>
  BY DEF NothingToExit, SoftPrice, Unlist, Finish
<1>3. listed' \in BOOLEAN /\ checked' \in CheckState
  BY <1>1 DEF NothingToExit, SoftPrice, Unlist, Finish, CheckState
<1>4. Keeps(trade, trade')
  BY <1>1, <1>2, SetFlagsKeeps, TradeUnchanged
<1>5. Idle \in Op /\ Idle.name # "open_ok"
  BY OperationType, Names1 DEF Idle
<1>6. /\ op' \in [Thread -> Op]
      /\ op'["command"].name = "open_ok" => op["command"].name = "open_ok"
  BY <1>2, <1>5, ReturnStep, StartType
<1> QED
  BY <1>1, <1>2, <1>3, <1>4, <1>6, OpStep

\* The identifier and the reference of the next order
LEMMA NextIdType ==
  ASSUME TypeInv, Room(1)
  PROVE  /\ NextId \in 0 .. 2 * MaxOrders
         /\ OrderOf(NextId) \in 1 .. Len(orders) + 1
         /\ Ref(Len(orders) + 1) \in -MaxOrders .. 0
<1> DEFINE k == Len(orders) + 1
<1>1. Len(orders) \in Nat /\ Len(orders) + 1 <= MaxOrders
  BY OrdersType DEF Room
<1>2. k \in 1 .. MaxOrders /\ k \in 1 .. k
  <2> DEFINE len == Len(orders)
  <2> HIDE DEF len
  <2>1. len \in Nat /\ len + 1 <= MaxOrders
    BY <1>1 DEF len
  <2>2. len + 1 \in 1 .. MaxOrders /\ len + 1 \in 1 .. len + 1
    BY <2>1
  <2> QED
    BY <2>2 DEF len
<1>3. NextId = IF IntIds THEN RawId(k) ELSE k
  BY DEF NextId
<1> HIDE DEF k
<1>4. Ref(k) \in -MaxOrders .. 0
  BY <1>2 DEF Ref
<1>5. NextId \in 0 .. 2 * MaxOrders /\ OrderOf(NextId) \in 1 .. k
  BY <1>2, <1>3, RawIdOrder
<1> QED
  BY <1>4, <1>5 DEF k

\* The trade that placed an order of quantity qty on leg l
SetLeg(t, l, id, ref, qty) ==
  [t EXCEPT !.oid[l] = id, !.ref[l] = ref, !.qty[l] = qty, !.exec[l] = 0]

\* It is a trade, closing as before, whose leg l names the order
LEMMA SetLegType ==
  ASSUME NEW t \in Trade, NEW l \in Legs, NEW id \in 0 .. 2 * MaxOrders,
         NEW ref \in -MaxOrders .. 0, NEW qty \in Int
  PROVE  /\ SetLeg(t, l, id, ref, qty) \in Trade
         /\ SetLeg(t, l, id, ref, qty).oid = [t.oid EXCEPT ![l] = id]
         /\ SetLeg(t, l, id, ref, qty).closing = t.closing
<1> DEFINE oid == [t.oid EXCEPT ![l] = id]
           rf == [t.ref EXCEPT ![l] = ref]
           qt == [t.qty EXCEPT ![l] = qty]
           ex == [t.exec EXCEPT ![l] = 0]
           v == [t EXCEPT !.oid = oid, !.ref = rf, !.qty = qt, !.exec = ex]
<1>1. /\ oid \in [Legs -> 0 .. 2 * MaxOrders] /\ rf \in [Legs -> -MaxOrders .. 0]
      /\ qt \in [Legs -> Int] /\ ex \in [Legs -> Nat]
  BY DEF Trade
<1>2. v = SetLeg(t, l, id, ref, qty)
  BY DEF SetLeg
<1> HIDE DEF oid, rf, qt, ex
<1>3. v \in Trade /\ v.oid = oid /\ v.closing = t.closing
  BY <1>1 DEF Trade
<1> QED
  BY <1>2, <1>3 DEF oid

\* The trade whose exit order was accepted names placed orders, and close sets closing
LEMMA PlacedType ==
  ASSUME TypeInv, Room(1), NEW name \in {"take_profit", "stop_loss", "close"}
  PROVE  /\ Placed(trade, name) \in Trade
         /\ Names(Placed(trade, name), Len(orders) + 1)
         /\ Placed(trade, name).closing = (trade.closing \/ name = "close")
<1> DEFINE l == ExitLeg(name)
           k == Len(orders) + 1
           u == SetLeg(trade, l, NextId, Ref(k), Remaining(trade))
<1>1. trade \in Trade /\ Names(trade, Len(orders)) /\ Len(orders) \in Nat
  BY OrdersType DEF TypeInv, TypeOK
<1>2. Remaining(trade) \in Int
  BY <1>1 DEF Remaining, Trade
<1>3. l \in Legs
  BY DEF ExitLeg, Legs
<1>4. /\ NextId \in 0 .. 2 * MaxOrders /\ OrderOf(NextId) \in 1 .. k
      /\ Ref(k) \in -MaxOrders .. 0
  BY NextIdType
<1>5. Names(trade, k)
  <2> DEFINE len == Len(orders)
  <2>1. len \in Nat /\ Names(trade, len)
    BY <1>1
  <2> HIDE DEF len
  <2>2. Names(trade, len + 1)
    BY <2>1, NamesMore
  <2> QED
    BY <2>2 DEF len
<1> HIDE DEF l, k
<1>6. u \in Trade /\ u.oid = [trade.oid EXCEPT ![l] = NextId] /\ u.closing = trade.closing
  BY <1>1, <1>2, <1>3, <1>4, SetLegType
<1>7. Placed(trade, name) \in {[u EXCEPT !.tp = TRUE], [u EXCEPT !.sl = TRUE],
                               [u EXCEPT !.closing = TRUE]}
  BY DEF Placed, SetLeg, l, k
<1>8. /\ name = "close" => Placed(trade, name) = [u EXCEPT !.closing = TRUE]
      /\ name # "close" => Placed(trade, name) \in {[u EXCEPT !.tp = TRUE], [u EXCEPT !.sl = TRUE]}
  BY DEF Placed, SetLeg, l, k
<1> HIDE DEF u
<1>9. Placed(trade, name) \in Trade /\ Placed(trade, name).oid = u.oid
  <2>1. [u EXCEPT !.tp = TRUE] \in Trade /\ [u EXCEPT !.tp = TRUE].oid = u.oid
    BY <1>6 DEF Trade
  <2>2. [u EXCEPT !.sl = TRUE] \in Trade /\ [u EXCEPT !.sl = TRUE].oid = u.oid
    BY <1>6 DEF Trade
  <2>3. [u EXCEPT !.closing = TRUE] \in Trade /\ [u EXCEPT !.closing = TRUE].oid = u.oid
    BY <1>6 DEF Trade
  <2> QED
    BY <1>7, <2>1, <2>2, <2>3
<1>10. Placed(trade, name).closing = (trade.closing \/ name = "close")
  BY <1>6, <1>8 DEF Trade
<1>11. Names(Placed(trade, name), k)
  BY <1>1, <1>3, <1>4, <1>5, <1>6, <1>9, NamesSet
<1> QED
  BY <1>9, <1>10, <1>11 DEF k

\* The steps that may place an order and leave a trade that names placed orders only
LEMMA PlaceStep ==
  ASSUME TypeInv, trade' \in Trade, op' \in [Thread -> Op],
         op'["command"].name = "open_ok" => op["command"].name = "open_ok",
         NEW side \in {"buy", "sell"}, NEW qty \in Int,
         \/ UNCHANGED <<orders, channel>> /\ Names(trade', Len(orders))
         \/ Accept(side, qty) /\ Names(trade', Len(orders) + 1),
         UNCHANGED <<account, listed, connected, checked, outages>>
  PROVE  TypeInv'
<1>1. CASE UNCHANGED <<orders, channel>> /\ Names(trade', Len(orders))
  BY <1>1 DEF TypeInv, TypeOK
<1>2. CASE Accept(side, qty) /\ Names(trade', Len(orders) + 1)
  <2>1. /\ orders' \in Seq(Order)
        /\ Len(orders') = Len(orders) + 1 /\ Len(orders') <= MaxOrders
        /\ channel' \in Seq(SignalData) /\ Told(channel', Len(orders'))
    BY <1>2, AcceptType
  <2>2. orders' # <<>>
    BY <2>1, OrdersType, EmptySeq
  <2>3. Names(trade', Len(orders'))
    BY <1>2, <2>1
  <2> QED
    BY <2>1, <2>2, <2>3 DEF TypeInv, TypeOK
<1> QED
  BY <1>1, <1>2

\* A kept trade names placed orders, whether one more is placed or not
LEMMA NamesNext ==
  ASSUME TypeInv, NEW u, Keeps(trade, u)
  PROVE  Names(u, Len(orders)) /\ Names(u, Len(orders) + 1)
<1> DEFINE len == Len(orders)
<1>1. len \in Nat /\ Names(trade, len)
  BY OrdersType DEF TypeInv
<1> HIDE DEF len
<1>2. Names(u, len) /\ Names(u, len + 1)
  BY <1>1, NamesKept, NamesMore
<1> QED
  BY <1>2 DEF len

\* The creation of an exit order, however it ends, preserves the type invariant
LEMMA CreateExitType ==
  ASSUME TypeInv, NEW th \in Thread, CreateExit(th)
  PROVE  TypeInv'
<1> DEFINE name == op[th].name
           l == ExitLeg(name)
           qty == Remaining(trade)
<1>1. name \in {"take_profit", "stop_loss", "close"}
  BY DEF CreateExit, Last
<1>2. trade \in Trade /\ l \in Legs
  BY DEF TypeInv, TypeOK, ExitLeg, Legs
<1>3. qty \in Int
  BY <1>2 DEF Remaining, Trade
<1>4. /\ \/ Accept("sell", qty) /\ trade' = Placed(trade, name) /\ Return(th, FALSE)
         \/ /\ UNCHANGED <<orders, channel>> \/ Accept("sell", qty)
            /\ trade' = ResetLeg(trade, l) \/ trade' = OutOfFunds(trade, l)
            /\ Return(th, FALSE) \/ Return(th, TRUE)
      /\ UNCHANGED <<account, listed, connected, checked, outages>>
  BY DEF CreateExit, Refuse
<1> HIDE DEF name, l, qty
<1>5. /\ op' \in [Thread -> Op]
      /\ op'["command"].name = "open_ok" => op["command"].name = "open_ok"
  BY <1>4, ReturnStep
<1>6. CASE Accept("sell", qty) /\ trade' = Placed(trade, name)
  <2>1. Room(1)
    BY <1>6 DEF Accept
  <2> QED
    BY <1>1, <1>3, <1>4, <1>5, <1>6, <2>1, PlacedType, PlaceStep
<1>7. CASE /\ UNCHANGED <<orders, channel>> \/ Accept("sell", qty)
           /\ trade' = ResetLeg(trade, l) \/ trade' = OutOfFunds(trade, l)
  <2>1. Keeps(trade, trade')
    BY <1>2, <1>7, ResetLegKeeps, OutOfFundsKeeps
  <2>2. trade' \in Trade /\ Names(trade', Len(orders)) /\ Names(trade', Len(orders) + 1)
    BY <2>1, KeepsIsTrade, NamesNext
  <2> QED
    BY <1>3, <1>4, <1>5, <1>7, <2>2, PlaceStep
<1> QED
  BY <1>4, <1>6, <1>7

\* The reopening of a resized entry, however it ends, preserves the type invariant
LEMMA ReopenType ==
  ASSUME TypeInv, NEW th \in Thread, Reopen(th)
  PROVE  TypeInv'
<1> DEFINE k == Len(orders) + 1
           u == [trade EXCEPT !.entryState = "new", !.oq = Quantity, !.ref["entry"] = Ref(k)]
           placed == [u EXCEPT !.oid["entry"] = NextId]
           rejected == [u EXCEPT !.entryState = "rejected"]
<1>1. trade \in Trade
  BY DEF TypeInv, TypeOK
<1>2. /\ \/ Accept("buy", Quantity) /\ (trade' = placed \/ trade' = rejected)
         \/ Room(1) /\ UNCHANGED <<orders, channel>> /\ trade' = rejected
         \/ UNCHANGED <<orders, channel, trade>>
      /\ Start(th, Idle)
      /\ UNCHANGED <<account, listed, connected, checked, outages>>
  BY DEF Reopen, Refuse
<1>3. Idle \in Op /\ Idle.name # "open_ok"
  BY OperationType, Names1 DEF Idle
<1>4. /\ op' \in [Thread -> Op]
      /\ op'["command"].name = "open_ok" => op["command"].name = "open_ok"
  BY <1>2, <1>3, StartType
<1>5. Quantity \in Int /\ Quantity \in Nat
  BY ConstantsAssumption DEF ConstantsAssumption
<1>6. CASE UNCHANGED trade /\ UNCHANGED <<orders, channel>>
  <2>1. trade' \in Trade /\ Names(trade', Len(orders))
    BY <1>1, <1>6, TradeUnchanged, NamesNext
  <2> QED
    BY <1>2, <1>4, <1>5, <1>6, <2>1, PlaceStep
<1>7. ASSUME Room(1)
      PROVE  /\ placed \in Trade /\ Names(placed, k)
             /\ rejected \in Trade /\ Names(rejected, k) /\ Names(rejected, Len(orders))
  <2> DEFINE ref == Ref(k)
             rf == [trade.ref EXCEPT !["entry"] = ref]
             oid == [trade.oid EXCEPT !["entry"] = NextId]
  <2>0. ref \in -MaxOrders .. 0
    BY <1>7, NextIdType
  <2> HIDE DEF ref
  <2>1. rf \in [Legs -> -MaxOrders .. 0]
    BY <1>1, <2>0 DEF Trade
  <2>2. u = [trade EXCEPT !.entryState = "new", !.oq = Quantity, !.ref = rf]
    BY DEF ref
  <2> HIDE DEF u, rf
  <2>3. u \in Trade /\ u.oid = trade.oid
    BY <1>1, <1>5, <2>1, <2>2 DEF Trade, EntryState
  <2>4. NextId \in 0 .. 2 * MaxOrders /\ OrderOf(NextId) \in 1 .. k
    BY <1>7, NextIdType
  <2>5. oid \in [Legs -> 0 .. 2 * MaxOrders]
    BY <1>1, <2>4 DEF Trade
  <2>6. placed = [u EXCEPT !.oid = oid]
    BY <2>3
  <2>7. placed \in Trade /\ placed.oid = oid
    BY <2>3, <2>5, <2>6 DEF Trade
  <2>8. rejected \in Trade /\ rejected.oid = trade.oid
    BY <2>3 DEF Trade, EntryState
  <2>9. Names(trade, k)
    BY <1>1, KeepsReflexive, NamesNext
  <2>10. Names(placed, k)
    BY <1>1, <2>4, <2>7, <2>9, NamesSet DEF Legs
  <2>11. Names(rejected, k) /\ Names(rejected, Len(orders))
    BY <2>8, <2>9 DEF Names, HasOrder, TypeInv
  <2> QED
    BY <2>7, <2>8, <2>10, <2>11
<1> HIDE DEF placed, rejected, u
<1>8. CASE Accept("buy", Quantity) /\ (trade' = placed \/ trade' = rejected)
  <2>1. Room(1)
    BY <1>8 DEF Accept
  <2> QED
    BY <1>2, <1>4, <1>5, <1>7, <1>8, <2>1, PlaceStep
<1>9. CASE Room(1) /\ UNCHANGED <<orders, channel>> /\ trade' = rejected
  BY <1>2, <1>4, <1>5, <1>7, <1>9, PlaceStep
<1> QED
  BY <1>2, <1>6, <1>8, <1>9

---------------------------------------------------------------------------
\* The type invariant holds of a trade not opened yet
LEMMA InitType ==
  ASSUME Init
  PROVE  TypeInv
<1>1. trade \in Trade
  <2>1. [l \in Legs |-> None] \in [Legs -> 0 .. 2 * MaxOrders]
    BY ZeroInRange DEF None
  <2>2. [l \in Legs |-> None] \in [Legs -> -MaxOrders .. 0]
    BY ZeroInRange DEF None
  <2>3. [l \in Legs |-> 0] \in [Legs -> Int] /\ [l \in Legs |-> 0] \in [Legs -> Nat]
    OBVIOUS
  <2> QED
    BY <2>1, <2>2, <2>3 DEF Init, Trade, NewTrade, EntryState, ExitState
<1>2. orders \in Seq(Order) /\ channel \in Seq(SignalData) /\ Len(orders) = 0 /\ Len(channel) = 0
  BY EmptySeq DEF Init
<1>3. Idle \in Op /\ Idle.name = "idle"
  BY OperationType, Names1 DEF Idle
<1>4. op \in [Thread -> Op] /\ op["command"].name # "open_ok"
  BY <1>3, Names1 DEF Init
<1>5. Names(trade, Len(orders)) /\ Told(channel, Len(orders))
  BY <1>2 DEF Init, NewTrade, Names, HasOrder, Told
<1>6. account \in [bought : Nat, sold : Nat]
  BY DEF Init
<1>7. /\ listed = FALSE /\ connected = TRUE /\ checked \in CheckState /\ outages = 0
  BY DEF Init, CheckState
<1>8. Len(orders) <= MaxOrders
  BY <1>2
<1> QED
  BY <1>1, <1>2, <1>4, <1>5, <1>6, <1>7, <1>8 DEF TypeInv, TypeOK

\* Every step preserves the type invariant
LEMMA StepType ==
  ASSUME TypeInv, [Next]_vars
  PROVE  TypeInv'
<1>1. CASE Exchange
  BY <1>1, FillType, EndOrderType DEF Exchange
<1>2. CASE Open \/ OpenReturn \/ OpenFailed
  BY <1>2, OpenType, OpenReturnType, OpenFailedType
<1>3. CASE DeliverSignal
  BY <1>3, DeliverSignalType
<1>4. CASE CleanupTrades \/ CancelOpen \/ Resize \/ Close \/ SoftClose \/ Check \/ CheckTrades \/ Terminate \/ Clean
  BY <1>4, SimpleType
<1>5. CASE Modify("take_profit") \/ Modify("stop_loss")
  BY <1>5, ModifyType
<1>6. CASE UpdateDirty \/ UpdateDirtyStop \/ UpdateDirtyDone
  BY <1>6, UpdateDirtyType
<1>7. CASE \E th \in Thread : Step(th)
  BY <1>7, LegType, LastType, CreateExitType, ReopenType DEF Step
<1>8. CASE Disconnect \/ Reconnect \/ Restart \/ WatcherConnected
  BY <1>8, OutageType
<1>9. CASE UNCHANGED vars
  BY <1>9 DEF vars, TypeInv, TypeOK, Names, HasOrder, Told
<1> QED
  BY <1>1, <1>2, <1>3, <1>4, <1>5, <1>6, <1>7, <1>8, <1>9 DEF Next

\* The type invariant is an invariant of the specification
LEMMA TypeInvariant == Spec => []TypeInv
  BY InitType, StepType, PTL DEF Spec

\* Whatever the exchange, the REST API, the strategy and the user do, every
\* variable has its type: in particular the trade only ever holds states and
\* quantities of StrategyTrade, for every quantity, commission and bound
THEOREM TypeCorrect == Spec => []TypeOK
<1>1. TypeInv => TypeOK
  BY DEF TypeInv
<1> QED
  BY <1>1, TypeInvariant, PTL

---------------------------------------------------------------------------
(***************************************************************************)
(* No sell order after the closing order.  An operation that may place one *)
(* runs under the mutex, and started when the trade was not closing: only  *)
(* its own last step can make the trade closing.                           *)
(***************************************************************************)
Exiting == {"take_profit", "stop_loss", "close"}

ClosingInv ==
  /\ op["mutex"].name \in Exiting => ~trade.closing
  /\ op["command"].name \notin Exiting

\* A thread keeps its operation, starts one that places no exit, or starts one that
\* does under the mutex and finds the trade not closing
Moves == \A th \in Thread :
  \/ op'[th].name = op[th].name
  \/ op'[th].name \notin Exiting
  \/ th = "mutex" /\ ~trade.closing

\* Such a move preserves the invariant when the trade stays closing or not
LEMMA ClosingKept ==
  ASSUME ClosingInv, Moves, trade'.closing = trade.closing
  PROVE  ClosingInv'
  BY Names1 DEF ClosingInv, Moves

\* Starting an operation is such a move
LEMMA StartMoves ==
  ASSUME TypeInv, NEW th \in Thread, NEW o \in Op, Start(th, o),
         o.name \notin Exiting \/ (th = "mutex" /\ ~trade.closing)
  PROVE  Moves
  BY DEF TypeInv, TypeOK, Start, Moves

\* The return of an operation is one, to an operation that places no exit
LEMMA ReturnMoves ==
  ASSUME TypeInv, NEW th \in Thread, NEW negative \in BOOLEAN, Return(th, negative)
  PROVE  /\ Moves
         /\ op'[th].name \notin Exiting
         /\ \A k \in Thread : k # th => op'[k] = op[k]
<1>1. op \in [Thread -> Op]
  BY DEF TypeInv, TypeOK
<1>2. PICK o \in Op : op' = [op EXCEPT ![th] = o] /\ o.name \notin Exiting
  BY <1>1, ReturnType DEF Exiting
<1> QED
  BY <1>1, <1>2 DEF Moves

\* So is doing nothing
LEMMA OpUnchangedMoves ==
  ASSUME UNCHANGED op
  PROVE  Moves
  BY DEF Moves

\* The legs canceled, checked or skipped
LEMMA LegClosing ==
  ASSUME TypeInv, NEW th \in Thread, CancelAccepted(th) \/ CancelRefused(th) \/ CheckLeg(th)
  PROVE  Moves /\ trade'.closing = trade.closing
<1>1. op \in [Thread -> Op] /\ Pending(th) # {}
  BY DEF CancelAccepted, CancelRefused, CheckLeg, TypeInv, TypeOK
<1>2. Keeps(trade, trade')
  BY CancelAcceptedKeeps, CancelRefusedKeeps, CheckLegKeeps
<1>3. Advance(th, FALSE) \/ Advance(th, TRUE) \/ Return(th, TRUE)
  BY DEF CancelAccepted, CancelRefused, CheckLeg
<1>4. Moves
  BY <1>1, <1>3, AdvanceType, ReturnMoves DEF Moves
<1> QED
  BY <1>2, <1>4 DEF Keeps

\* The steps that start or end an operation without placing an order
LEMMA QuietClosing ==
  ASSUME TypeInv, NEW th \in Thread,
         \/ OpenReturn \/ OpenFailed \/ DeliverSignal \/ WatcherConnected \/ CleanupTrades
         \/ CancelOpen \/ Resize \/ Check \/ CheckTrades \/ Terminate \/ Clean
         \/ Reopen(th) \/ Unlist(th) \/ Finish(th)
  PROVE  Moves
<1>1. \/ UNCHANGED op
      \/ \E k \in Thread, o \in Op : o.name \notin Exiting /\ Start(k, o)
  <2>1. Idle \in Op /\ Idle.name = "idle"
    BY OperationType, Names1 DEF Idle
  <2>2. CASE OpenReturn \/ OpenFailed \/ Reopen(th) \/ Unlist(th) \/ Finish(th)
    BY <2>1, <2>2, Names1 DEF Exiting, OpenReturn, OpenFailed, Start, Reopen, Unlist, Finish
  <2>3. CASE DeliverSignal \/ WatcherConnected \/ CleanupTrades
    <3>1. UNCHANGED op \/ Start("mutex", Operation("finalize", <<"entry", "stop", "limit">>))
      BY <2>3 DEF DeliverSignal, WatcherConnected, CleanupTrades
    <3>2. "finalize" \notin Exiting
      BY DEF Exiting
    <3> QED
      BY <3>1, <3>2, Names1, OperationType
  <2>4. CASE CancelOpen \/ Resize \/ Check \/ CheckTrades \/ Terminate \/ Clean
    BY <2>4, Names1, OperationType DEF Exiting, CancelOpen, Resize, Check, CheckTrades, Terminate, Clean
  <2> QED
    BY <2>2, <2>3, <2>4
<1> QED
  BY <1>1, StartMoves, OpUnchangedMoves

\* The steps that start a closing or a modification find the trade not closing
LEMMA ExitMoves ==
  ASSUME TypeInv,
         \/ Close \/ SoftClose \/ Modify("take_profit") \/ Modify("stop_loss")
         \/ UpdateDirty \/ UpdateDirtyStop \/ UpdateDirtyDone
  PROVE  Moves
<1>1. /\ op["mutex"] \in Op /\ op["mutex"].failed \in BOOLEAN /\ "mutex" \in Thread
  BY TodoType, Names1 DEF TypeInv, TypeOK, Op
<1>2. \/ UNCHANGED op
      \/ \E o \in Op : (o.name \notin Exiting \/ ~trade.closing) /\ Start("mutex", o)
  <2>1. CASE Close \/ SoftClose
    BY <2>1, Names1, OperationType DEF Close, SoftClose, CanClose, CloseOperation
  <2>2. CASE Modify("take_profit") \/ Modify("stop_loss")
    BY <2>2, ModifyOperationType DEF Modify, CanModify
  <2>3. CASE UpdateDirty
    BY <2>3, ModifyOperationType, OperationType, Names1 DEF UpdateDirty, CanModify, Exiting
  <2>4. CASE UpdateDirtyStop
    <3>1. /\ [op["mutex"] EXCEPT !.name = "dirty_done"] \in Op
          /\ [op["mutex"] EXCEPT !.name = "dirty_done"].name \notin Exiting
      BY <1>1 DEF Op, OpName, Exiting
    <3> QED
      BY <1>1, <2>4, <3>1, ModifyOperationType DEF UpdateDirtyStop, CanModify
  <2>5. CASE UpdateDirtyDone
    BY <2>5, OperationType, Names1 DEF UpdateDirtyDone, Idle, CloseOperation, CanClose, Exiting
  <2> QED
    BY <2>1, <2>2, <2>3, <2>4, <2>5
<1> QED
  BY <1>1, <1>2, StartMoves, OpUnchangedMoves

\* The fields these steps set do not make the trade closing
LEMMA FieldsClosing ==
  ASSUME TypeInv, NEW th \in Thread,
         \/ Exchange \/ OpenReturn \/ OpenFailed \/ DeliverSignal \/ WatcherConnected \/ CleanupTrades
         \/ CancelOpen \/ Resize \/ Check \/ CheckTrades \/ Terminate \/ Clean
         \/ Close \/ SoftClose \/ Modify("take_profit") \/ Modify("stop_loss")
         \/ UpdateDirty \/ UpdateDirtyStop \/ UpdateDirtyDone
         \/ NothingToExit(th) \/ SoftPrice(th) \/ Reopen(th) \/ Unlist(th) \/ Finish(th)
         \/ Disconnect \/ Reconnect \/ Restart
  PROVE  trade'.closing = trade.closing
<1>1. trade \in Trade
  BY DEF TypeInv, TypeOK
<1>2. CASE DeliverSignal
  <2> DEFINE d == Head(channel)
  <2>1. d \in SignalData /\ (d.kind = "opened" => d.id \in 1 .. MaxOrders)
    <3>1. channel \in Seq(SignalData) /\ channel # <<>> /\ Told(channel, Len(orders))
      BY <1>2 DEF DeliverSignal, TypeInv, TypeOK
    <3>2. d \in SignalData /\ (d.kind = "opened" => d.id \in 1 .. Len(orders))
      BY <3>1, HeadTailProperties, EmptySeq DEF Told
    <3> DEFINE len == Len(orders)
    <3>3. len \in Nat /\ len <= MaxOrders /\ (d.kind = "opened" => d.id \in 1 .. len)
      BY <3>2, OrdersType
    <3> HIDE DEF len, d
    <3>4. d.kind = "opened" => d.id \in 1 .. MaxOrders
      BY <3>3
    <3> QED
      BY <3>2, <3>4 DEF d
  <2>2. trade' = trade \/ trade' = OrderSignal(trade, d)
    BY <1>2 DEF DeliverSignal
  <2> HIDE DEF d
  <2>3. OrderSignal(trade, d).closing = trade.closing
    BY <1>1, <2>1, OrderSignalKeeps, OpenedIsTrade DEF Keeps
  <2> QED
    BY <2>2, <2>3
<1>3. CASE OpenReturn \/ OpenFailed \/ Restart
  BY <1>1, <1>3 DEF OpenReturn, OpenFailed, Restart, Trade
<1>4. CASE Modify("take_profit") \/ Modify("stop_loss")
  BY <1>1, <1>4 DEF Modify, Trade
<1>5. CASE UpdateDirty \/ UpdateDirtyStop \/ UpdateDirtyDone
  BY <1>1, <1>5 DEF UpdateDirty, UpdateDirtyStop, UpdateDirtyDone, Trade
<1>6. CASE SoftPrice(th) \/ Reopen(th)
  <2>1. CASE SoftPrice(th)
    <3>1. PICK b : trade' = [trade EXCEPT !.tp = b] \/ trade' = [trade EXCEPT !.sl = b]
      BY <2>1 DEF SoftPrice
    <3> QED
      BY <1>1, <3>1 DEF Trade
  <2>2. CASE Reopen(th)
    <3> DEFINE v == [trade EXCEPT !.entryState = "new", !.oq = Quantity,
                                  !.ref["entry"] = Ref(Len(orders) + 1)]
    <3>1. trade' \in {trade, [v EXCEPT !.oid["entry"] = NextId], [v EXCEPT !.entryState = "rejected"]}
      BY <2>2 DEF Reopen
    <3>2. v.closing = trade.closing /\ DOMAIN v = DOMAIN trade /\ "closing" \in DOMAIN trade
      BY <1>1 DEF Trade
    <3> HIDE DEF v
    <3> QED
      BY <3>1, <3>2
  <2> QED
    BY <1>6, <2>1, <2>2
<1>7. CASE \/ Exchange \/ WatcherConnected \/ CleanupTrades \/ CancelOpen \/ Resize \/ Check \/ CheckTrades \/ Terminate \/ Clean
           \/ Close \/ SoftClose \/ NothingToExit(th) \/ Unlist(th) \/ Finish(th)
           \/ Disconnect \/ Reconnect
  BY <1>7 DEF Exchange, WatcherConnected, Fill, EndOrder, CleanupTrades, CancelOpen, Resize, Check, CheckTrades, Terminate,
     Clean, Close, SoftClose, NothingToExit, Unlist, Finish, Disconnect, Reconnect
<1> QED
  BY <1>2, <1>3, <1>4, <1>5, <1>6, <1>7

\* An exit order is created under the mutex, for a trade not closing, and ends the operation
LEMMA CreateExitClosing ==
  ASSUME TypeInv, ClosingInv, NEW th \in Thread, CreateExit(th)
  PROVE  th = "mutex" /\ ~trade.closing /\ ClosingInv'
<1>1. op[th].name \in Exiting
  BY DEF CreateExit, Last, Exiting
<1>2. th = "mutex" /\ ~trade.closing
  BY <1>1 DEF ClosingInv, Thread
<1>3. Return(th, FALSE) \/ Return(th, TRUE)
  BY DEF CreateExit
<1>4. op'[th].name \notin Exiting /\ \A k \in Thread : k # th => op'[k] = op[k]
  BY <1>3, ReturnMoves
<1>5. op'["mutex"].name \notin Exiting /\ op'["command"] = op["command"]
  BY <1>2, <1>4, Names1
<1> QED
  BY <1>2, <1>5 DEF ClosingInv

\* A trade being opened is not closing
LEMMA OpenClosing ==
  ASSUME TypeInv, Open
  PROVE  ~trade.closing /\ ClosingInv'
<1>1. ~trade.closing
  BY DEF Open, NewTrade
<1>2. op["mutex"].name = "idle" /\ op \in [Thread -> Op]
  BY DEF Open, Free, TypeInv, TypeOK
<1>3. PICK name \in {"open_ok", "open_failed"} :
        op' = [op EXCEPT !["command"] = Operation(name, <<>>)]
  BY DEF Open
<1>4. op'["mutex"].name = "idle" /\ op'["command"].name = name
  BY <1>2, <1>3, Names1
<1> QED
  BY <1>1, <1>4 DEF ClosingInv, Exiting

\* Every step preserves the closing invariant
LEMMA StepClosing ==
  ASSUME TypeInv, ClosingInv, [Next]_vars
  PROVE  ClosingInv'
<1>1. CASE Open
  BY <1>1, OpenClosing
<1>2. CASE Exchange \/ Disconnect \/ Reconnect \/ Restart \/ UNCHANGED vars
  <2>1. UNCHANGED op
    BY <1>2 DEF Exchange, Fill, EndOrder, Disconnect, Reconnect, Restart, vars
  <2>2. trade'.closing = trade.closing
    BY <1>2, FieldsClosing, Names1 DEF vars
  <2> QED
    BY <2>1, <2>2, OpUnchangedMoves, ClosingKept
<1>3. CASE \/ OpenReturn \/ OpenFailed \/ DeliverSignal \/ WatcherConnected \/ CleanupTrades
           \/ CancelOpen \/ Resize \/ Check \/ CheckTrades \/ Terminate \/ Clean
  BY <1>3, Names1, QuietClosing, FieldsClosing, ClosingKept
<1>4. CASE \/ Close \/ SoftClose \/ Modify("take_profit") \/ Modify("stop_loss")
           \/ UpdateDirty \/ UpdateDirtyStop \/ UpdateDirtyDone
  BY <1>4, Names1, ExitMoves, FieldsClosing, ClosingKept
<1>5. ASSUME NEW th \in Thread, Step(th) PROVE ClosingInv'
  <2>1. CASE CancelAccepted(th) \/ CancelRefused(th) \/ CheckLeg(th)
    BY <2>1, LegClosing, ClosingKept
  <2>2. CASE NothingToExit(th) \/ SoftPrice(th)
    <3>1. Return(th, FALSE)
      BY <2>2 DEF NothingToExit, SoftPrice
    <3> QED
      BY <2>2, <3>1, ReturnMoves, FieldsClosing, ClosingKept
  <2>3. CASE CreateExit(th)
    BY <2>3, CreateExitClosing
  <2>4. CASE Reopen(th) \/ Unlist(th) \/ Finish(th)
    BY <2>4, QuietClosing, FieldsClosing, ClosingKept
  <2> QED
    BY <1>5, <2>1, <2>2, <2>3, <2>4 DEF Step
<1> QED
  BY <1>1, <1>2, <1>3, <1>4, <1>5 DEF Next

\* The orders a step adds
LEMMA AddedBuys ==
  ASSUME TypeInv, Accept("buy", Quantity)
  PROVE  \A n \in DOMAIN orders' \ DOMAIN orders : orders'[n].side = "buy"
<1> DEFINE o == [side |-> "buy", qty |-> Quantity, filled |-> 0, fee |-> 0, status |-> "live"]
<1>1. orders \in Seq(Order) /\ o \in Order
  <2>1. Quantity \in Int
    BY ConstantsAssumption DEF ConstantsAssumption
  <2> QED
    BY <2>1 DEF TypeInv, TypeOK, Order, OrderStatus
<1>2. orders' = Append(orders, o)
  BY DEF Accept
<1>3. o.side = "buy"
  OBVIOUS
<1> HIDE DEF o
<1>4. /\ DOMAIN orders = 1 .. Len(orders) /\ DOMAIN orders' = 1 .. Len(orders) + 1
      /\ Len(orders) \in Nat /\ orders'[Len(orders) + 1] = o
  BY <1>1, <1>2, AppendProperties, LenProperties
<1> DEFINE len == Len(orders)
<1>5. ASSUME NEW n \in DOMAIN orders' \ DOMAIN orders PROVE n = len + 1
  <2>1. n \in 1 .. len + 1 /\ n \notin 1 .. len /\ len \in Nat
    BY <1>4, <1>5
  <2> HIDE DEF len
  <2> QED
    BY <2>1
<1> QED
  BY <1>3, <1>4, <1>5

\* A step that changes an order adds none
LEMMA NothingAdded ==
  ASSUME TypeInv, UNCHANGED orders \/ \E n \in DOMAIN orders : \E q : orders' = [orders EXCEPT ![n] = q]
  PROVE  DOMAIN orders' = DOMAIN orders
  BY DEF TypeInv, TypeOK

\* No step adds a sell order to the orders of a closing trade
LEMMA NoSellStep ==
  ASSUME TypeInv, ClosingInv, [Next]_vars, trade.closing
  PROVE  \A n \in DOMAIN orders' \ DOMAIN orders : orders'[n].side = "buy"
<1>1. CASE Open
  BY <1>1, OpenClosing
<1>2. CASE Exchange
  BY <1>2, NothingAdded DEF Exchange, Fill, EndOrder
<1>3. CASE \/ OpenReturn \/ OpenFailed \/ DeliverSignal \/ WatcherConnected \/ CleanupTrades
           \/ CancelOpen \/ Resize \/ Check \/ CheckTrades \/ Terminate \/ Clean
           \/ Close \/ SoftClose \/ Modify("take_profit") \/ Modify("stop_loss")
           \/ UpdateDirty \/ UpdateDirtyStop \/ UpdateDirtyDone
           \/ Disconnect \/ Reconnect \/ Restart \/ UNCHANGED vars
  <2>1. UNCHANGED orders
    BY <1>3 DEF OpenReturn, OpenFailed, DeliverSignal, WatcherConnected, CleanupTrades, CancelOpen, Resize, Check, CheckTrades,
       Terminate, Clean, Close, SoftClose, Modify, UpdateDirty, UpdateDirtyStop, UpdateDirtyDone,
       Disconnect, Reconnect, Restart, vars
  <2> QED
    BY <2>1, NothingAdded
<1>4. ASSUME NEW th \in Thread, Step(th)
      PROVE  \A n \in DOMAIN orders' \ DOMAIN orders : orders'[n].side = "buy"
  <2>1. CASE CancelAccepted(th) \/ CancelRefused(th) \/ CheckLeg(th)
    <3>1. UNCHANGED orders \/ \E n \in DOMAIN orders : CancelOnExchange(n)
      BY <2>1, CancelAcceptedKeeps, CancelRefusedKeeps DEF CheckLeg
    <3> QED
      BY <3>1, NothingAdded DEF CancelOnExchange
  <2>2. CASE NothingToExit(th) \/ SoftPrice(th) \/ Unlist(th) \/ Finish(th)
    <3>1. UNCHANGED orders
      BY <2>2 DEF NothingToExit, SoftPrice, Unlist, Finish
    <3> QED
      BY <3>1, NothingAdded
  <2>3. CASE CreateExit(th)
    BY <2>3, CreateExitClosing
  <2>4. CASE Reopen(th)
    <3>1. Accept("buy", Quantity) \/ UNCHANGED orders
      BY <2>4 DEF Reopen, Refuse
    <3> QED
      BY <3>1, AddedBuys, NothingAdded
  <2> QED
    BY <1>4, <2>1, <2>2, <2>3, <2>4 DEF Step
<1> QED
  BY <1>1, <1>2, <1>3, <1>4 DEF Next

\* The closing invariant is an invariant of the specification
LEMMA ClosingInvariant == Spec => []ClosingInv
<1>1. Init => ClosingInv
  BY Names1 DEF Init, ClosingInv, Exiting, Idle
<1> QED
  BY <1>1, TypeInvariant, StepClosing, PTL DEF Spec

\* Once close has placed its market order (_closing), no other sell order is
\* placed: not by a modification, update_dirty, a soft exit or a second close, which
\* interleave with reports, failing REST calls, the commands that run without the
\* mutex, outages and restarts
THEOREM NoSellFollowsClosing == Spec => NoSellAfterClosing
<1>1. TypeInv /\ ClosingInv /\ [Next]_vars =>
        [trade.closing => \A n \in DOMAIN orders' \ DOMAIN orders : orders'[n].side = "buy"]_vars
  BY NoSellStep
<1> QED
  BY <1>1, TypeInvariant, ClosingInvariant, PTL DEF Spec, NoSellAfterClosing


---------------------------------------------------------------------------
\* The reports that end an order
Ends == {"deleted", "canceled", "rejected"}

\* The order a report is about
About(d) == IF d.kind = "rejected" THEN -d.id ELSE d.id

\* d reports an execution of order n
Executes(d, n) == d.kind = "traded" /\ d.id = n

\* d is a report about order n, which is now o
ReportOf(d, o, n) ==
  \/ d.kind = "opened" /\ d.id = n /\ d.ref = Ref(n)
  \/ /\ d.kind = "traded" /\ d.id = n /\ d.ref = Ref(n)
     /\ 0 < d.cum /\ d.cum <= o.filled /\ (d.full => d.cum = o.qty)
  \/ d.kind = "deleted" /\ d.id = n /\ d.ref = None /\ o.status # "live"
  \/ d.kind = "canceled" /\ d.id = n /\ d.ref = Ref(n) /\ o.status # "live"
  \/ d.kind = "rejected" /\ d.id = Ref(n) /\ d.ref = None /\ o.status # "live"

\* b may follow a: an order executes more and more, and no more once it ended
Follows(a, b) ==
  b.kind = "traded" /\ About(a) = b.id =>
    a.kind \notin Ends /\ (a.kind = "traded" => a.cum < b.cum)

\* The reports on their way, of the orders os
Reports(c, os) ==
  /\ \A i \in 1 .. Len(c) : \E n \in 1 .. Len(os) : ReportOf(c[i], os[n], n)
  /\ \A i, j \in 1 .. Len(c) : i < j => Follows(c[i], c[j])

\* Order o, the n-th: the first one is the entry, the others sell
Kept(o, n) ==
  /\ o.side = IF n = 1 THEN "buy" ELSE "sell"
  /\ o.filled <= o.qty
  /\ o.status = "live" => o.filled < o.qty

\* The orders, those of a trade that is to enter oq lots
Ledger(os, oq) ==
  /\ \A n \in 1 .. Len(os) : Kept(os[n], n)
  /\ os # <<>> => os[1].qty = oq

\* The report of the last execution of order n is on its way
LastComing(c, os, n) ==
  \E i \in 1 .. Len(c) : Executes(c[i], n) /\ c[i].cum = os[n].filled

\* The entry leg: it has the reference of a live entry and, once open returned or
\* the report of the opening is in, its identifier
EntryLeg(t, os, opening) ==
  /\ t.oid["entry"] \in {None, 1} /\ t.ref["entry"] \in {None, Ref(1)}
  /\ t.oid["entry"] = 1 => os # <<>>
  /\ os = <<>> => t.e = 0
  /\ os # <<>> /\ os[1].status = "live" =>
       /\ t.ref["entry"] = Ref(1)
       /\ t.oid["entry"] = 1 \/ opening

\* Exit leg l is about order n: it counted the executions reported to it, and
\* will be told of the others
LegOf(t, l, os, c, ls, n) ==
  /\ n \in 2 .. Len(os) /\ t.ref[l] = Ref(n)
  /\ t.qty[l] = os[n].qty
  /\ t.exec[l] <= os[n].filled
  /\ ls => t.exec[l] = os[n].filled \/ LastComing(c, os, n)
  /\ \A i \in 1 .. Len(c) : Executes(c[i], n) => t.exec[l] < c[i].cum

\* The exit legs: each free or about a sell order, only one about one, and no live
\* sell order that none is about
Exits(t, os, c, ls) ==
  /\ \A l \in ExitLegs : IF t.oid[l] = None THEN t.ref[l] = None
                                            ELSE LegOf(t, l, os, c, ls, t.oid[l])
  /\ t.oid["limit"] = None \/ t.oid["stop"] = None
  /\ \A n \in 2 .. Len(os) : os[n].status = "live" => \E l \in ExitLegs : t.oid[l] = n

\* The trade, the orders and the reports together; ls tells that the trade is in the
\* list, opening that open waits for create_order
Books(t, os, c, ls, opening) ==
  /\ Reports(c, os)
  /\ Ledger(os, t.oq)
  /\ EntryLeg(t, os, opening)
  /\ Exits(t, os, c, ls)

---------------------------------------------------------------------------
\* One more report
LEMMA AppendReports ==
  ASSUME NEW c \in Seq(SignalData), NEW d \in SignalData, NEW os, NEW n \in 1 .. Len(os),
         Reports(c, os), ReportOf(d, os[n], n),
         \A i \in 1 .. Len(c) : Follows(c[i], d)
  PROVE  Reports(Append(c, d), os)
<1> DEFINE b == Append(c, d)
           len == Len(c)
<1>1. /\ Len(b) = len + 1 /\ len \in Nat
      /\ \A i \in 1 .. len : b[i] = c[i]
      /\ b[len + 1] = d
  BY AppendProperties
<1> HIDE DEF b, len
<1>2. \A i \in 1 .. len + 1 : \E m \in 1 .. Len(os) : ReportOf(b[i], os[m], m)
  BY <1>1 DEF Reports, len
<1>3. \A i, j \in 1 .. len + 1 : i < j => Follows(b[i], b[j])
  <2> SUFFICES ASSUME NEW i \in 1 .. len + 1, NEW j \in 1 .. len + 1, i < j
               PROVE  Follows(b[i], b[j])
    OBVIOUS
  <2>1. i \in 1 .. len /\ b[i] = c[i]
    BY <1>1
  <2>2. CASE j = len + 1
    BY <1>1, <2>1, <2>2 DEF len
  <2>3. CASE j # len + 1
    <3>1. j \in 1 .. len /\ b[j] = c[j]
      BY <1>1, <2>3
    <3> QED
      BY <2>1, <3>1 DEF Reports, len
  <2> QED
    BY <2>2, <2>3
<1>4. Reports(b, os)
  BY <1>1, <1>2, <1>3 DEF Reports
<1> QED
  BY <1>4 DEF b

\* One report less
LEMMA TailReports ==
  ASSUME NEW c \in Seq(SignalData), c # <<>>, NEW os, Reports(c, os)
  PROVE  Reports(Tail(c), os)
<1> DEFINE b == Tail(c)
           len == Len(c)
<1>1. /\ len \in Nat \ {0} /\ Len(b) = len - 1
      /\ \A i \in 1 .. len - 1 : b[i] = c[i + 1]
  BY HeadTailProperties, EmptySeq, LenProperties
<1> HIDE DEF b, len
<1>2. \A i \in 1 .. len - 1 : i + 1 \in 1 .. len
  BY <1>1
<1>3. \A i \in 1 .. len - 1 : \E m \in 1 .. Len(os) : ReportOf(b[i], os[m], m)
  BY <1>1, <1>2 DEF Reports, len
<1>4. \A i, j \in 1 .. len - 1 : i < j => Follows(b[i], b[j])
  <2> SUFFICES ASSUME NEW i \in 1 .. len - 1, NEW j \in 1 .. len - 1, i < j
               PROVE  Follows(b[i], b[j])
    OBVIOUS
  <2>1. i + 1 \in 1 .. len /\ j + 1 \in 1 .. len /\ i + 1 < j + 1
    BY <1>1
  <2>2. Follows(c[i + 1], c[j + 1])
    BY <2>1 DEF Reports, len
  <2> QED
    BY <1>1, <2>2
<1>5. Reports(b, os)
  BY <1>1, <1>3, <1>4 DEF Reports
<1> QED
  BY <1>5 DEF b

\* An order goes on: it executes or it ends
GoesOn(o, p) ==
  /\ o.status = "live" /\ p.side = o.side /\ p.qty = o.qty
  /\ o.filled <= p.filled /\ p.filled <= p.qty
  /\ p.status = "live" => p.filled < p.qty

\* The reports stay reports as an order goes on
LEMMA GoesOnReports ==
  ASSUME NEW c \in Seq(SignalData), NEW os \in Seq(Order), NEW n \in 1 .. Len(os),
         NEW p \in Order, Reports(c, os), GoesOn(os[n], p)
  PROVE  Reports(c, [os EXCEPT ![n] = p])
<1> DEFINE os2 == [os EXCEPT ![n] = p]
           len == Len(os)
<1>1. /\ Len(os2) = len /\ \A m \in 1 .. len : os2[m] = IF m = n THEN p ELSE os[m]
  BY ExceptSeq
<1>2. os[n] \in Order
  BY ElementOfSeq
<1> HIDE DEF os2, len
<1>3. \A d \in SignalData, m \in 1 .. len : ReportOf(d, os[m], m) => ReportOf(d, os2[m], m)
  <2> SUFFICES ASSUME NEW d \in SignalData, NEW m \in 1 .. len, ReportOf(d, os[m], m)
               PROVE  ReportOf(d, os2[m], m)
    OBVIOUS
  <2>1. CASE m # n
    BY <1>1, <2>1
  <2>2. CASE m = n
    <3>1. os2[m] = p /\ ReportOf(d, os[n], n)
      BY <1>1, <2>2
    <3>2. p.filled \in Nat /\ os[n].filled \in Nat /\ d.cum \in Nat
      BY <1>2 DEF Order, SignalData
    <3> QED
      BY <2>2, <3>1, <3>2 DEF ReportOf, GoesOn
  <2> QED
    BY <2>1, <2>2
<1>4. \A i \in 1 .. Len(c) : c[i] \in SignalData
  BY ElementOfSeq
<1>5. Reports(c, os2)
  BY <1>1, <1>3, <1>4 DEF Reports, len
<1> QED
  BY <1>5 DEF os2

\* The types of the fields of a trade
LEMMA FieldsType ==
  ASSUME NEW t \in Trade
  PROVE  /\ t.e \in Int /\ t.x \in Nat /\ t.oq \in Nat
         /\ \A l \in Legs : /\ t.oid[l] \in Nat /\ t.ref[l] \in Int
                           /\ t.qty[l] \in Int /\ t.exec[l] \in Nat
         /\ "entry" \in Legs /\ "limit" \in ExitLegs /\ "stop" \in ExitLegs
         /\ ExitLegs \subseteq Legs /\ "entry" \notin ExitLegs
<1>1. \A l \in Legs : t.oid[l] \in 0 .. 2 * MaxOrders /\ t.ref[l] \in -MaxOrders .. 0
  BY DEF Trade
<1>2. \A i \in 0 .. 2 * MaxOrders : i \in Nat
  OBVIOUS
<1> QED
  BY <1>1, <1>2 DEF Trade, Legs, ExitLegs

\* What a report about order n, now o, is about
LEMMA ReportAbout ==
  ASSUME NEW d \in SignalData, NEW o, NEW n \in Nat, ReportOf(d, o, n)
  PROVE  /\ About(d) = n
         /\ d.kind \in Ends => o.status # "live"
         /\ d.kind = "traded" => d.id = n /\ d.cum <= o.filled
  BY DEF ReportOf, About, Ends, Ref, SignalData

\* d reports that order n, o, became p
Tells(d, o, p, n) ==
  /\ ReportOf(d, p, n)
  /\ d.kind # "opened"
  /\ IF d.kind = "traded" THEN d.cum = p.filled /\ o.filled < p.filled
                          ELSE p.filled = o.filled

\* The report of what an order becomes follows those on their way
LEMMA TellsFollows ==
  ASSUME NEW c \in Seq(SignalData), NEW os \in Seq(Order), NEW n \in 1 .. Len(os), NEW p \in Order,
         NEW d \in SignalData, Reports(c, os), GoesOn(os[n], p), Tells(d, os[n], p, n)
  PROVE  \A i \in 1 .. Len(c) : Follows(c[i], d)
<1> SUFFICES ASSUME NEW i \in 1 .. Len(c), d.kind = "traded", About(c[i]) = d.id
             PROVE  c[i].kind \notin Ends /\ (c[i].kind = "traded" => c[i].cum < d.cum)
  BY DEF Follows
<1>1. c[i] \in SignalData /\ os[n] \in Order
  BY ElementOfSeq
<1>2. PICK m \in 1 .. Len(os) : ReportOf(c[i], os[m], m)
  BY DEF Reports
<1>3. m \in Nat /\ n \in Nat
  OBVIOUS
<1>4. m = n
  BY <1>1, <1>2, <1>3, ReportAbout DEF Tells
<1>5. c[i].kind \notin Ends /\ (c[i].kind = "traded" => c[i].cum <= os[n].filled)
  BY <1>1, <1>2, <1>3, <1>4, ReportAbout DEF GoesOn
<1>6. os[n].filled < d.cum /\ c[i].cum \in Nat /\ os[n].filled \in Nat /\ d.cum \in Nat
  BY <1>1 DEF Tells, SignalData, Order
<1> QED
  BY <1>5, <1>6

\* An order goes on and its report is sent: the books agree as before
LEMMA OrderGoesOn ==
  ASSUME NEW t \in Trade, NEW c \in Seq(SignalData), NEW os \in Seq(Order), NEW n \in 1 .. Len(os),
         NEW p \in Order, NEW d \in SignalData, NEW ls, NEW opening,
         Books(t, os, c, ls, opening), GoesOn(os[n], p), Tells(d, os[n], p, n)
  PROVE  Books(t, [os EXCEPT ![n] = p], Append(c, d), ls, opening)
<1> DEFINE os2 == [os EXCEPT ![n] = p]
           c2 == Append(c, d)
           len == Len(os)
           clen == Len(c)
<1>1. /\ os2 \in Seq(Order) /\ Len(os2) = len /\ len \in Nat
      /\ \A m \in 1 .. len : os2[m] = IF m = n THEN p ELSE os[m]
      /\ \A m \in 1 .. len : os[m] \in Order
      /\ os # <<>> /\ os2 # <<>>
  BY ExceptSeq, ElementOfSeq, LenProperties, EmptySeq
<1>2. /\ Len(c2) = clen + 1 /\ clen \in Nat /\ c2[clen + 1] = d
      /\ \A i \in 1 .. clen : c2[i] = c[i] /\ c[i] \in SignalData
  BY AppendProperties, ElementOfSeq
<1>3. Reports(c2, os2)
  <2>1. Reports(c, os2)
    BY GoesOnReports DEF Books
  <2>2. \A i \in 1 .. Len(c) : Follows(c[i], d)
    BY TellsFollows DEF Books
  <2>3. ReportOf(d, os2[n], n)
    BY <1>1 DEF Tells
  <2> HIDE DEF os2
  <2>4. n \in 1 .. Len(os2)
    BY <1>1
  <2> QED
    BY <2>1, <2>2, <2>3, <2>4, AppendReports
<1> HIDE DEF os2, c2, len, clen
<1>4. Ledger(os2, t.oq)
  BY <1>1 DEF Books, Ledger, Kept, GoesOn, len
<1>5. EntryLeg(t, os2, opening)
  BY <1>1 DEF Books, EntryLeg, GoesOn, len
<1>6. ASSUME NEW l \in ExitLegs, NEW k \in 2 .. len, LegOf(t, l, os, c, ls, k)
      PROVE  LegOf(t, l, os2, c2, ls, k)
  <2>0. /\ k \in 1 .. len /\ k \in Nat /\ t.exec[l] \in Nat
        /\ os[k].filled \in Nat /\ os2[k].filled \in Nat
        /\ os[k].filled <= os2[k].filled
    <3>1. k \in 1 .. len /\ k \in Nat /\ t.exec[l] \in Nat
      BY <1>1, FieldsType
    <3>2. os[k].filled \in Nat /\ p.filled \in Nat
      BY <1>1, <3>1 DEF Order
    <3> QED
      BY <1>1, <3>1, <3>2 DEF GoesOn
  <2>1. /\ k \in 2 .. Len(os2) /\ t.ref[l] = Ref(k) /\ t.qty[l] = os2[k].qty
    BY <1>1, <1>6, <2>0 DEF LegOf, GoesOn
  <2>2. t.exec[l] <= os2[k].filled
    BY <1>6, <2>0 DEF LegOf
  <2>3. ASSUME k # n \/ d.kind # "traded", ls PROVE t.exec[l] = os2[k].filled \/ LastComing(c2, os2, k)
    <3>1. os2[k].filled = os[k].filled
      BY <1>1, <2>0, <2>3 DEF Tells
    <3>2. clen + 1 \in 1 .. clen + 1 /\ \A i \in 1 .. clen : i \in 1 .. clen + 1
      BY <1>2
    <3> QED
      BY <1>2, <1>6, <2>3, <3>1, <3>2 DEF LegOf, LastComing, clen
  <2>4. ASSUME k = n, d.kind = "traded" PROVE LastComing(c2, os2, k)
    <3>1. clen + 1 \in 1 .. Len(c2) /\ Executes(d, k) /\ d.cum = os2[k].filled
      BY <1>1, <1>2, <2>0, <2>4, ReportAbout DEF Tells, Executes
    <3> QED
      BY <1>2, <3>1 DEF LastComing
  <2>5. ASSUME NEW i \in 1 .. clen + 1, Executes(c2[i], k) PROVE t.exec[l] < c2[i].cum
    <3>1. CASE i \in 1 .. clen
      BY <1>2, <1>6, <2>5, <3>1 DEF LegOf, clen
    <3>2. CASE i = clen + 1
      <4>1. c2[i] = d /\ d.kind = "traded" /\ d.id = k
        BY <1>2, <2>5, <3>2 DEF Executes
      <4>2. k = n
        BY <4>1, <2>0, ReportAbout DEF Tells
      <4>3. t.exec[l] < d.cum
        <5>1. os[k].filled < d.cum /\ d.cum \in Nat
          BY <4>1, <4>2 DEF Tells, SignalData
        <5>2. t.exec[l] <= os[k].filled
          BY <1>6 DEF LegOf
        <5> QED
          BY <2>0, <5>1, <5>2
      <4> QED
        BY <4>1, <4>3
    <3> QED
      BY <1>2, <3>1, <3>2
  <2> QED
    BY <1>2, <2>1, <2>2, <2>3, <2>4, <2>5 DEF LegOf
<1>7. Exits(t, os2, c2, ls)
  <2>1. \A l \in ExitLegs : t.oid[l] # None => t.oid[l] \in 2 .. len /\ LegOf(t, l, os, c, ls, t.oid[l])
    BY DEF Books, Exits, LegOf, len
  <2>2. ASSUME NEW m \in 2 .. len, os2[m].status = "live" PROVE os[m].status = "live"
    BY <1>1, <2>2 DEF GoesOn
  <2> QED
    BY <1>1, <1>6, <2>1, <2>2 DEF Books, Exits, len
<1>8. Books(t, os2, c2, ls, opening)
  BY <1>3, <1>4, <1>5, <1>7 DEF Books
<1> QED
  BY <1>8 DEF os2, c2

\* The other legs than l are the same in u as in t
OthersSame(t, u, l) ==
  /\ u.oq = t.oq
  /\ \A k \in Legs \ {l} : /\ u.oid[k] = t.oid[k] /\ u.ref[k] = t.ref[k]
                           /\ t.oid[k] # None => u.qty[k] = t.qty[k] /\ u.exec[k] = t.exec[k]

\* u is t but for leg l, which lost its order, and for the entered and exited quantities
Freed(t, u, l) ==
  /\ u.oid[l] = None /\ u.ref[l] = None
  /\ OthersSame(t, u, l)

\* The order of leg l, if it has one, is over
Over(t, os, l) ==
  IF l = "entry" THEN os # <<>> => os[1].status # "live"
                 ELSE \A n \in 2 .. Len(os) : t.oid[l] = n => os[n].status # "live"

\* A leg whose order is over may lose it
LEMMA FreedBooks ==
  ASSUME NEW t \in Trade, NEW u \in Trade, NEW os, NEW c, NEW ls, NEW opening, NEW l \in Legs,
         Books(t, os, c, ls, opening), Freed(t, u, l), Over(t, os, l), os = <<>> => u.e = 0
  PROVE  Books(u, os, c, ls, opening)
<1>0. "entry" \notin ExitLegs /\ ExitLegs \subseteq Legs /\ "entry" \in Legs
  BY FieldsType
<1>1. Ledger(os, u.oq) /\ Reports(c, os)
  BY DEF Books, Freed, OthersSame
<1>2. EntryLeg(u, os, opening)
  <2>1. CASE l = "entry"
    BY <2>1 DEF Books, EntryLeg, Freed, OthersSame, Over, None
  <2>2. CASE l # "entry"
    BY <1>0, <2>2 DEF Books, EntryLeg, Freed, OthersSame
  <2> QED
    BY <2>1, <2>2
<1>3. Exits(u, os, c, ls)
  <2>1. \A k \in ExitLegs : IF u.oid[k] = None THEN u.ref[k] = None
                                               ELSE LegOf(u, k, os, c, ls, u.oid[k])
    <3> SUFFICES ASSUME NEW k \in ExitLegs, k # l
                 PROVE  IF u.oid[k] = None THEN u.ref[k] = None
                                           ELSE LegOf(u, k, os, c, ls, u.oid[k])
      BY DEF Freed, OthersSame
    <3>1. /\ u.oid[k] = t.oid[k] /\ u.ref[k] = t.ref[k]
          /\ t.oid[k] # None => u.qty[k] = t.qty[k] /\ u.exec[k] = t.exec[k]
      BY <1>0 DEF Freed, OthersSame
    <3> QED
      BY <3>1 DEF Books, Exits, LegOf
  <2>2. u.oid["limit"] = None \/ u.oid["stop"] = None
    BY DEF Books, Exits, Freed, OthersSame, Legs
  <2>3. ASSUME NEW n \in 2 .. Len(os), os[n].status = "live"
        PROVE  \E k \in ExitLegs : u.oid[k] = n
    <3>1. PICK k \in ExitLegs : t.oid[k] = n
      BY <2>3 DEF Books, Exits
    <3>2. k # l
      BY <1>0, <2>3, <3>1 DEF Over
    <3> QED
      BY <1>0, <3>1, <3>2 DEF Freed, OthersSame
  <2> QED
    BY <2>1, <2>2, <2>3 DEF Exits
<1> QED
  BY <1>1, <1>2, <1>3 DEF Books

\* u is t but for fields that are not about its orders
SameLegs(t, u) ==
  /\ u.oq = t.oq /\ u.oid = t.oid /\ u.ref = t.ref
  /\ \A l \in Legs : t.oid[l] # None => u.qty[l] = t.qty[l] /\ u.exec[l] = t.exec[l]

\* Those may change, and the trade may leave the list
LEMMA SameBooks ==
  ASSUME NEW t \in Trade, NEW u \in Trade, NEW os, NEW c, NEW ls, NEW ms, NEW opening,
         Books(t, os, c, ls, opening), SameLegs(t, u), os = <<>> => u.e = t.e, ms => ls
  PROVE  Books(u, os, c, ms, opening)
<1>0. ExitLegs \subseteq Legs
  BY FieldsType
<1>1. Ledger(os, u.oq) /\ Reports(c, os) /\ EntryLeg(u, os, opening)
  BY DEF Books, SameLegs, EntryLeg
<1>2. ASSUME NEW k \in ExitLegs
      PROVE  IF u.oid[k] = None THEN u.ref[k] = None ELSE LegOf(u, k, os, c, ms, u.oid[k])
  <2>1. CASE t.oid[k] = None
    BY <2>1 DEF Books, Exits, SameLegs
  <2>2. CASE t.oid[k] # None
    <3>1. u.oid[k] = t.oid[k] /\ u.ref[k] = t.ref[k] /\ u.qty[k] = t.qty[k] /\ u.exec[k] = t.exec[k]
      BY <1>0, <2>2 DEF SameLegs
    <3>2. LegOf(t, k, os, c, ls, t.oid[k])
      BY <2>2 DEF Books, Exits
    <3> QED
      BY <2>2, <3>1, <3>2 DEF LegOf
  <2> QED
    BY <2>1, <2>2
<1>3. Exits(u, os, c, ms)
  BY <1>2 DEF Books, Exits, SameLegs
<1> QED
  BY <1>1, <1>3 DEF Books

\* The elements of a queue and of its tail
LEMMA TailElements ==
  ASSUME NEW c \in Seq(SignalData), c # <<>>
  PROVE  /\ Len(c) \in Nat \ {0} /\ Len(Tail(c)) = Len(c) - 1
         /\ \A i \in 1 .. Len(c) - 1 : i + 1 \in 1 .. Len(c) /\ Tail(c)[i] = c[i + 1]
         /\ 1 \in 1 .. Len(c) /\ Head(c) = c[1] /\ Head(c) \in SignalData
         /\ Tail(c) \in Seq(SignalData)
         /\ \A j \in 1 .. Len(c) : j = 1 \/ (j - 1 \in 1 .. Len(c) - 1 /\ Tail(c)[j - 1] = c[j])
<1> DEFINE b == Tail(c)
           len == Len(c)
           h == Head(c)
<1>1. /\ len \in Nat \ {0} /\ Len(b) = len - 1
      /\ \A i \in 1 .. len - 1 : b[i] = c[i + 1]
      /\ h = c[1] /\ h \in SignalData /\ b \in Seq(SignalData)
  BY HeadTailProperties, EmptySeq, LenProperties
<1> HIDE DEF b, len, h
<1>2. \A i \in 1 .. len - 1 : i + 1 \in 1 .. len
  BY <1>1
<1>3. ASSUME NEW j \in 1 .. len, j # 1 PROVE j - 1 \in 1 .. len - 1 /\ b[j - 1] = c[j]
  <2>1. j - 1 \in 1 .. len - 1 /\ (j - 1) + 1 = j
    BY <1>1, <1>3
  <2> QED
    BY <1>1, <2>1
<1>4. 1 \in 1 .. len
  BY <1>1
<1> QED
  BY <1>1, <1>2, <1>3, <1>4 DEF b, len, h

\* A report that changes no exit leg is taken from the queue
LEMMA TailBooks ==
  ASSUME NEW t \in Trade, NEW os, NEW c \in Seq(SignalData), c # <<>>, NEW ls, NEW opening,
         Books(t, os, c, ls, opening),
         ls => \A l \in ExitLegs : ~Executes(Head(c), t.oid[l])
  PROVE  Books(t, os, Tail(c), ls, opening)
<1> DEFINE b == Tail(c)
           len == Len(c)
<1>1. /\ len \in Nat \ {0} /\ Len(b) = len - 1 /\ Head(c) = c[1]
      /\ \A i \in 1 .. len - 1 : i + 1 \in 1 .. len /\ b[i] = c[i + 1]
      /\ \A j \in 1 .. len : j = 1 \/ (j - 1 \in 1 .. len - 1 /\ b[j - 1] = c[j])
  BY TailElements
<1>2. Reports(b, os)
  BY TailReports DEF Books
<1> HIDE DEF b, len
<1>3. ASSUME NEW k \in ExitLegs, NEW n, n = t.oid[k], LegOf(t, k, os, c, ls, n)
      PROVE  LegOf(t, k, os, b, ls, n)
  <2>1. ASSUME ls, LastComing(c, os, n) PROVE LastComing(b, os, n)
    <3>1. PICK j \in 1 .. len : Executes(c[j], n) /\ c[j].cum = os[n].filled
      BY <2>1 DEF LastComing, len
    <3>2. j # 1
      BY <1>1, <1>3, <2>1, <3>1
    <3>3. j - 1 \in 1 .. Len(b) /\ b[j - 1] = c[j]
      BY <1>1, <3>2
    <3> QED
      BY <3>1, <3>3 DEF LastComing
  <2>2. ASSUME NEW i \in 1 .. Len(b), Executes(b[i], n) PROVE t.exec[k] < b[i].cum
    <3>1. i + 1 \in 1 .. len /\ b[i] = c[i + 1]
      BY <1>1
    <3>2. Executes(c[i + 1], n) => t.exec[k] < c[i + 1].cum
      BY <1>3, <3>1 DEF LegOf, len
    <3> QED
      BY <2>2, <3>1, <3>2
  <2> QED
    BY <1>3, <2>1, <2>2 DEF LegOf
<1>4. Exits(t, os, b, ls)
  BY <1>3 DEF Books, Exits
<1>5. Books(t, os, b, ls, opening)
  BY <1>2, <1>4 DEF Books
<1> QED
  BY <1>5 DEF b

\* u is t whose exit leg l counted cum executed lots
Counted(t, u, l, cum) ==
  /\ u.oq = t.oq /\ u.oid = t.oid /\ u.ref = t.ref /\ u.qty = t.qty /\ u.e = t.e
  /\ u.exec[l] = cum
  /\ \A k \in Legs \ {l} : u.exec[k] = t.exec[k]

\* An execution of an exit order is taken from the queue and counted
LEMMA CountedBooks ==
  ASSUME NEW t \in Trade, NEW u \in Trade, NEW os \in Seq(Order), NEW c \in Seq(SignalData), c # <<>>,
         NEW ls, NEW opening, Books(t, os, c, ls, opening), NEW l \in ExitLegs, t.oid[l] # None,
         Executes(Head(c), t.oid[l]), Counted(t, u, l, Head(c).cum)
  PROVE  Books(u, os, Tail(c), ls, opening)
<1> DEFINE b == Tail(c)
           len == Len(c)
           d == Head(c)
           n == t.oid[l]
<1>0. ExitLegs \subseteq Legs
  BY FieldsType
<1>1. /\ len \in Nat \ {0} /\ Len(b) = len - 1 /\ d = c[1] /\ d \in SignalData /\ 1 \in 1 .. len
      /\ \A i \in 1 .. len - 1 : i + 1 \in 1 .. len /\ b[i] = c[i + 1]
      /\ \A j \in 1 .. len : j = 1 \/ (j - 1 \in 1 .. len - 1 /\ b[j - 1] = c[j])
  BY TailElements
<1>2. Reports(b, os)
  BY TailReports DEF Books
<1>3. LegOf(t, l, os, c, ls, n) /\ n \in 2 .. Len(os)
  BY DEF Books, Exits, LegOf
<1> HIDE DEF b, len, d, n
<1>4. d.kind = "traded" /\ d.id = n /\ d.cum <= os[n].filled /\ About(d) = n
  <2>1. d.kind = "traded" /\ d.id = n
    BY DEF d, n, Executes
  <2>2. PICK m \in 1 .. Len(os) : ReportOf(d, os[m], m)
    BY <1>1 DEF Books, Reports, len
  <2>3. m \in Nat
    OBVIOUS
  <2> QED
    BY <1>1, <2>1, <2>2, <2>3, ReportAbout
<1>5. /\ t.exec[l] < d.cum /\ t.exec[l] \in Nat /\ d.cum \in Nat /\ os[n].filled \in Nat
  <2>1. t.exec[l] < d.cum
    BY <1>1, <1>3, <1>4 DEF LegOf, Executes, len
  <2>2. n \in 1 .. Len(os)
    BY <1>3
  <2> QED
    <3>1. os[n] \in Order
      BY <2>2, ElementOfSeq
    <3>2. t.exec[l] \in Nat
      BY <1>0, FieldsType
    <3> QED
      BY <1>1, <2>1, <3>1, <3>2 DEF Order, SignalData
<1>6. LegOf(u, l, os, b, ls, n)
  <2>1. /\ u.ref[l] = Ref(n) /\ u.qty[l] = os[n].qty /\ u.exec[l] = d.cum
    BY <1>3 DEF LegOf, Counted, d
  <2>2. ASSUME ls PROVE d.cum = os[n].filled \/ LastComing(b, os, n)
    <3>1. t.exec[l] # os[n].filled
      BY <1>4, <1>5
    <3>2. PICK j \in 1 .. len : Executes(c[j], n) /\ c[j].cum = os[n].filled
      BY <1>3, <2>2, <3>1 DEF LegOf, LastComing, len
    <3>3. CASE j = 1
      BY <1>1, <3>2, <3>3
    <3>4. CASE j # 1
      <4>1. j - 1 \in 1 .. Len(b) /\ b[j - 1] = c[j]
        BY <1>1, <3>4
      <4> QED
        BY <3>2, <4>1 DEF LastComing
    <3> QED
      BY <3>3, <3>4
  <2>3. ASSUME NEW i \in 1 .. Len(b), Executes(b[i], n) PROVE d.cum < b[i].cum
    <3>1. i + 1 \in 1 .. len /\ 1 < i + 1 /\ b[i] = c[i + 1]
      BY <1>1
    <3>2. Follows(c[1], c[i + 1])
      BY <1>1, <3>1 DEF Books, Reports, len
    <3> QED
      BY <1>1, <1>4, <2>3, <3>1, <3>2 DEF Follows, Executes
  <2> QED
    BY <1>3, <1>4, <2>1, <2>2, <2>3 DEF LegOf
<1>7. ASSUME NEW k \in ExitLegs, k # l PROVE u.oid[k] = None /\ u.ref[k] = None
  BY <1>7 DEF Books, Exits, Counted, ExitLegs
<1>8. Exits(u, os, b, ls)
  <2>1. u.oid = t.oid /\ u.oid[l] = n
    BY DEF Counted, n
  <2> QED
    BY <1>6, <1>7, <2>1 DEF Books, Exits
<1>9. Ledger(os, u.oq) /\ EntryLeg(u, os, opening)
  BY DEF Books, Counted, EntryLeg
<1>10. Books(u, os, b, ls, opening)
  BY <1>2, <1>8, <1>9 DEF Books
<1> QED
  BY <1>10 DEF b

\* The order side, of quantity qty, the exchange just accepted
NewOrder(side, qty) == [side |-> side, qty |-> qty, filled |-> 0, fee |-> 0, status |-> "live"]

\* An accepted order and the report of its opening
LEMMA AppendOrder ==
  ASSUME NEW os \in Seq(Order), NEW c \in Seq(SignalData), NEW p \in Order,
         NEW n, n = Len(os) + 1, NEW d \in SignalData, d.kind = "opened", d.id = n, d.ref = Ref(n),
         Reports(c, os)
  PROVE  /\ Append(os, p) \in Seq(Order) /\ Len(Append(os, p)) = n /\ n \in Nat \ {0}
         /\ n \in 1 .. n /\ Append(os, p)[n] = p
         /\ \A k \in 1 .. Len(os) : k \in 1 .. n /\ k # n /\ Append(os, p)[k] = os[k]
         /\ \A k \in 1 .. n : k = n \/ k \in 1 .. Len(os)
         /\ Append(os, p) # <<>>
         /\ Reports(Append(c, d), Append(os, p))
<1> DEFINE os2 == Append(os, p)
           len == Len(os)
<1>1. /\ os2 \in Seq(Order) /\ len \in Nat /\ Len(os2) = len + 1 /\ os2[len + 1] = p
      /\ \A k \in 1 .. len : os2[k] = os[k]
  BY AppendProperties, LenProperties
<1>2. os2 # <<>>
  BY <1>1, EmptySeq
<1> HIDE DEF os2, len
<1>3. n = len + 1
  BY DEF len
<1>4. n \in Nat \ {0} /\ n \in 1 .. n /\ \A k \in 1 .. len : k \in 1 .. n /\ k # n
  BY <1>1, <1>3
<1>5. \A k \in 1 .. n : k = n \/ k \in 1 .. len
  BY <1>1, <1>3
<1>6. Reports(c, os2)
  BY <1>1, <1>3, <1>4 DEF Reports, len
<1>7. ReportOf(d, os2[n], n) /\ n \in 1 .. Len(os2)
  BY <1>1, <1>3, <1>4 DEF ReportOf
<1>8. Reports(Append(c, d), os2)
  BY <1>6, <1>7, AppendReports DEF Follows
<1> QED
  BY <1>1, <1>2, <1>3, <1>4, <1>5, <1>8 DEF os2, len

\* u is t whose exit leg l was given order n, of qty lots
GivenExit(t, u, l, n, qty) ==
  /\ u.oq = t.oq /\ u.e = t.e
  /\ u.oid[l] = n /\ u.ref[l] = Ref(n) /\ u.qty[l] = qty /\ u.exec[l] = 0
  /\ \A k \in Legs \ {l} : u.oid[k] = t.oid[k] /\ u.ref[k] = t.ref[k]

\* An exit order is placed when no exit leg has one, and its leg is given it
LEMMA ExitPlacedBooks ==
  ASSUME NEW t \in Trade, NEW u \in Trade, NEW os \in Seq(Order), NEW c \in Seq(SignalData),
         NEW ls, NEW opening, Books(t, os, c, ls, opening),
         \A k \in ExitLegs : t.oid[k] = None, os # <<>>,
         NEW l \in ExitLegs, NEW n, n = Len(os) + 1,
         NEW qty \in Nat \ {0}, GivenExit(t, u, l, n, qty),
         NEW d \in SignalData, d.kind = "opened", d.id = n, d.ref = Ref(n)
  PROVE  Books(u, Append(os, NewOrder("sell", qty)), Append(c, d), ls, opening)
<1> DEFINE p == NewOrder("sell", qty)
           os2 == Append(os, p)
           c2 == Append(c, d)
           len == Len(os)
<1>0. ExitLegs \subseteq Legs /\ "entry" \in Legs /\ "entry" \notin ExitLegs
  BY FieldsType
<1>1. p \in Order /\ p.side = "sell" /\ p.filled = 0 /\ p.qty = qty /\ p.status = "live"
  BY DEF Order, OrderStatus, NewOrder
<1> HIDE DEF p
<1>2. /\ os2 \in Seq(Order) /\ Len(os2) = n /\ n \in Nat \ {0} /\ os2 # <<>>
      /\ n \in 1 .. n /\ os2[n] = p /\ Reports(c2, os2)
      /\ \A k \in 1 .. len : k \in 1 .. n /\ k # n /\ os2[k] = os[k]
      /\ \A k \in 1 .. n : k = n \/ k \in 1 .. len
  BY <1>1, AppendOrder DEF Books
<1>3. len \in Nat \ {0} /\ n = len + 1
  BY LenProperties, EmptySeq
<1>4. \A i \in 1 .. Len(c2) : ~Executes(c2[i], n)
  <2>1. /\ Len(c2) = Len(c) + 1 /\ Len(c) \in Nat /\ c2[Len(c) + 1] = d
        /\ \A i \in 1 .. Len(c) : c2[i] = c[i] /\ c[i] \in SignalData
    BY AppendProperties, ElementOfSeq
  <2> SUFFICES ASSUME NEW i \in 1 .. Len(c2), Executes(c2[i], n)
               PROVE  FALSE
    OBVIOUS
  <2> HIDE DEF c2, os2
  <2>2. c2[i] # d
    BY DEF Executes
  <2>3. i \in 1 .. Len(c) /\ c2[i] = c[i]
    BY <2>1, <2>2
  <2>4. PICK m \in 1 .. len : ReportOf(c[i], os[m], m)
    BY <2>3 DEF Books, Reports, len
  <2>5. m \in Nat /\ c[i] \in SignalData
    BY <2>1, <2>3
  <2>6. m = n
    BY <2>3, <2>4, <2>5, ReportAbout DEF Executes
  <2> HIDE DEF len
  <2> QED
    BY <1>3, <2>6
<1> HIDE DEF os2, c2, len
<1>5. Ledger(os2, u.oq)
  <2>1. ASSUME NEW k \in 1 .. n PROVE Kept(os2[k], k)
    <3>1. CASE k \in 1 .. len
      BY <1>2, <3>1 DEF Books, Ledger, len
    <3>2. CASE k = n
      BY <1>1, <1>2, <1>3, <3>2 DEF Kept
    <3> QED
      BY <1>2, <3>1, <3>2
  <2>2. os2[1].qty = u.oq
    <3>1. 1 \in 1 .. len
      BY <1>3
    <3> QED
      BY <1>2, <3>1 DEF Books, Ledger, GivenExit
  <2> QED
    BY <1>2, <2>1, <2>2 DEF Ledger
<1>6. EntryLeg(u, os2, opening)
  <2>1. 1 \in 1 .. len /\ os2[1] = os[1]
    BY <1>2, <1>3
  <2>2. u.oid["entry"] = t.oid["entry"] /\ u.ref["entry"] = t.ref["entry"] /\ u.e = t.e
    BY <1>0 DEF GivenExit
  <2> QED
    BY <1>2, <2>1, <2>2 DEF Books, EntryLeg
<1>7. Exits(u, os2, c2, ls)
  <2>1. n \in 2 .. n
    BY <1>3
  <2>2. LegOf(u, l, os2, c2, ls, n)
    <3>1. u.ref[l] = Ref(n) /\ u.qty[l] = os2[n].qty /\ u.exec[l] = 0 /\ os2[n].filled = 0
      BY <1>1, <1>2 DEF GivenExit
    <3> QED
      BY <1>2, <1>4, <2>1, <3>1 DEF LegOf
  <2>3. \A k \in ExitLegs : k # l => u.oid[k] = None /\ u.ref[k] = None
    BY <1>0 DEF GivenExit, Books, Exits
  <2>4. u.oid[l] = n /\ n # None
    BY <1>2 DEF GivenExit, None
  <2>5. \A k \in 2 .. n : os2[k].status = "live" => k = n
    <3> SUFFICES ASSUME NEW k \in 2 .. n, os2[k].status = "live", k # n
                 PROVE  FALSE
      OBVIOUS
    <3>1. k \in 1 .. n /\ k \in 2 .. len
      BY <1>3
    <3>2. os2[k] = os[k]
      BY <1>2, <3>1
    <3>3. PICK j \in ExitLegs : t.oid[j] = k
      BY <3>1, <3>2 DEF Books, Exits, len
    <3> QED
      BY <3>1, <3>3 DEF None
  <2> QED
    BY <1>2, <2>2, <2>3, <2>4, <2>5 DEF Exits, ExitLegs
<1>8. Books(u, os2, c2, ls, opening)
  BY <1>2, <1>5, <1>6, <1>7 DEF Books
<1> QED
  BY <1>8 DEF os2, c2, p

\* A trade that has no order is opened
LEMMA EntryPlacedBooks ==
  ASSUME NEW t \in Trade, NEW u \in Trade, NEW c \in Seq(SignalData),
         NEW os \in Seq(Order), os = <<>>,
         NEW ls, NEW ms, NEW opening, Books(t, os, c, ls, opening),
         NEW qty \in Nat \ {0}, u.oq = qty, u.oid = t.oid, u.ref["entry"] = Ref(1), u.e = 0,
         \A l \in ExitLegs : u.ref[l] = t.ref[l],
         NEW d \in SignalData, d.kind = "opened", d.id = 1, d.ref = Ref(1)
  PROVE  Books(u, Append(os, NewOrder("buy", qty)), Append(c, d), ms, TRUE)
<1> DEFINE p == NewOrder("buy", qty)
           os2 == Append(os, p)
           c2 == Append(c, d)
<1>0. ExitLegs \subseteq Legs /\ "entry" \in Legs /\ "entry" \notin ExitLegs
  BY FieldsType
<1>1. p \in Order /\ p.side = "buy" /\ p.filled = 0 /\ p.qty = qty /\ p.status = "live"
  BY DEF Order, OrderStatus, NewOrder
<1> HIDE DEF p
<1>2. os2 \in Seq(Order) /\ Len(os2) = 1 /\ os2 # <<>> /\ os2[1] = p /\ Reports(c2, os2)
  <2> DEFINE n == Len(os) + 1
  <2>1. n = 1
    BY EmptySeq
  <2>2. Reports(c, os)
    BY DEF Books
  <2> HIDE DEF os2, c2
  <2>3. d.id = n /\ d.ref = Ref(n)
    BY <2>1
  <2>4. os \in Seq(Order) /\ c \in Seq(SignalData) /\ d \in SignalData /\ d.kind = "opened"
    OBVIOUS
  <2>5. /\ Append(os, p) \in Seq(Order) /\ Len(Append(os, p)) = n /\ Append(os, p) # <<>>
        /\ Append(os, p)[n] = p /\ Reports(Append(c, d), Append(os, p))
    BY ONLY <1>1, <2>2, <2>3, <2>4, AppendOrder
  <2> QED
    BY <2>1, <2>5 DEF os2, c2
<1> HIDE DEF os2, c2
<1>3. Ledger(os2, u.oq)
  BY <1>1, <1>2 DEF Ledger, Kept
<1>4. EntryLeg(u, os2, TRUE)
  BY <1>2 DEF Books, EntryLeg
<1>5. \A l \in ExitLegs : u.oid[l] = None /\ u.ref[l] = None
  <2> SUFFICES ASSUME NEW l \in ExitLegs
               PROVE  t.oid[l] = None
    BY DEF Books, Exits
  <2>1. t.oid[l] # None => t.oid[l] \in 2 .. Len(os)
    BY DEF Books, Exits, LegOf
  <2>2. Len(os) = 0
    BY EmptySeq
  <2> QED
    BY <2>1, <2>2
<1>6. Exits(u, os2, c2, ms)
  BY <1>2, <1>5 DEF Exits, ExitLegs
<1>7. Books(u, os2, c2, ms, TRUE)
  BY <1>2, <1>3, <1>4, <1>6 DEF Books
<1> QED
  BY <1>7 DEF os2, c2, p

\* __reset_entry, __reset_limit and __reset_stop free the leg
LEMMA ResetFrees ==
  ASSUME NEW t \in Trade, NEW l \in Legs
  PROVE  /\ ResetLeg(t, l) \in Trade
         /\ Freed(t, ResetLeg(t, l), l)
         /\ ResetLeg(t, l).e = t.e /\ ResetLeg(t, l).x = t.x
         /\ ResetLeg(t, l).entryState = t.entryState /\ ResetLeg(t, l).exitState = t.exitState
<1>1. ResetLeg(t, l) \in Trade
  BY ResetLegKeeps, KeepsIsTrade
<1> DEFINE u == ResetLeg(t, l)
<1>2. /\ u.oid = [t.oid EXCEPT ![l] = None] /\ u.ref = [t.ref EXCEPT ![l] = None]
      /\ u.qty = [t.qty EXCEPT ![l] = 0] /\ u.exec = [t.exec EXCEPT ![l] = 0]
      /\ u.oq = t.oq /\ u.e = t.e /\ u.x = t.x
      /\ u.entryState = t.entryState /\ u.exitState = t.exitState
  BY DEF ResetLeg, Trade
<1> HIDE DEF u
<1>3. Freed(t, u, l)
  BY <1>2 DEF Freed, OthersSame, Trade
<1> QED
  BY <1>1, <1>2, <1>3 DEF u

\* The states of a trade are not about its orders
LEMMA StateSame ==
  ASSUME NEW t \in Trade
  PROVE  /\ \A s \in EntryState : LET u == [t EXCEPT !.entryState = s]
              IN  /\ u \in Trade /\ SameLegs(t, u) /\ u.e = t.e /\ u.x = t.x
                  /\ u.entryState = s /\ u.exitState = t.exitState
         /\ \A s \in ExitState : LET u == [t EXCEPT !.exitState = s]
              IN  /\ u \in Trade /\ SameLegs(t, u) /\ u.e = t.e /\ u.x = t.x
                  /\ u.entryState = t.entryState /\ u.exitState = s
         /\ \A e \in Int, b \in BOOLEAN : LET u == [t EXCEPT !.e = e, !.dirty = b]
              IN  /\ u \in Trade /\ SameLegs(t, u) /\ u.e = e /\ u.x = t.x
                  /\ u.entryState = t.entryState /\ u.exitState = t.exitState
<1>1. ASSUME NEW s \in EntryState
      PROVE  LET u == [t EXCEPT !.entryState = s]
             IN  /\ u \in Trade /\ SameLegs(t, u) /\ u.e = t.e /\ u.x = t.x
                 /\ u.entryState = s /\ u.exitState = t.exitState
  BY DEF SameLegs, Trade
<1>2. ASSUME NEW s \in ExitState
      PROVE  LET u == [t EXCEPT !.exitState = s]
             IN  /\ u \in Trade /\ SameLegs(t, u) /\ u.e = t.e /\ u.x = t.x
                 /\ u.entryState = t.entryState /\ u.exitState = s
  BY DEF SameLegs, Trade
<1>3. ASSUME NEW e \in Int, NEW b \in BOOLEAN
      PROVE  LET u == [t EXCEPT !.e = e, !.dirty = b]
             IN  /\ u \in Trade /\ SameLegs(t, u) /\ u.e = e /\ u.x = t.x
                 /\ u.entryState = t.entryState /\ u.exitState = t.exitState
  BY DEF SameLegs, Trade
<1> QED
  BY <1>1, <1>2, <1>3

\* d names order m, by its identifier and its reference or by one of them
OfOrder(d, m) ==
  /\ d.kind \in {"opened", "traded"} => d.id = m /\ d.ref = Ref(m)
  /\ d.kind = "rejected" => d.id = Ref(m)
  /\ d.kind \notin {"opened", "traded", "rejected"} => d.id = m

\* The leg a signal finds is about the order the signal names, and the only one
LEMMA NamedLeg ==
  ASSUME NEW t \in Trade, NEW os, NEW c, NEW ls, NEW opening, Books(t, os, c, ls, opening),
         NEW d \in SignalData, NEW m \in 1 .. Len(os), OfOrder(d, m)
  PROVE  /\ \A l \in SignalLegs(t, d) :
              \/ l = "entry" /\ m = 1 /\ (t.oid["entry"] = 1 \/ t.ref["entry"] = Ref(1))
              \/ l \in ExitLegs /\ t.oid[l] = m /\ m \in 2 .. Len(os)
         /\ \A l, k \in SignalLegs(t, d) : l = k
         /\ \A l \in ExitLegs : Executes(d, t.oid[l]) => l \in SignalLegs(t, d) /\ IsTargetOrder(t, d)
<1>0. /\ ExitLegs \subseteq Legs /\ Legs = ExitLegs \cup {"entry"} /\ "entry" \notin ExitLegs
  BY DEF ExitLegs, Legs
<1>1. m \in Nat \ {0} /\ None = 0 /\ \A n \in Nat : Ref(n) = -n
  BY DEF None, Ref
<1>2. ASSUME NEW l \in ExitLegs
      PROVE  /\ t.oid[l] \in Nat
             /\ t.oid[l] = 0 => t.ref[l] = 0
             /\ t.oid[l] # 0 => t.oid[l] \in 2 .. Len(os) /\ t.ref[l] = -t.oid[l]
  <2>1. t.oid[l] \in Nat
    BY <1>0, FieldsType
  <2>2. /\ t.oid[l] = 0 => t.ref[l] = 0
        /\ t.oid[l] # 0 => t.oid[l] \in 2 .. Len(os) /\ t.ref[l] = Ref(t.oid[l])
    BY <1>1 DEF Books, Exits, LegOf
  <2> QED
    BY <1>1, <2>1, <2>2
<1>3. /\ t.oid["entry"] \in {0, 1} /\ t.ref["entry"] \in {0, -1}
  BY <1>1 DEF Books, EntryLeg
<1>4. /\ d.kind = "opened" => d.id = m /\ d.ref = -m
      /\ d.kind = "traded" => d.id = m /\ d.ref = -m
      /\ d.kind = "rejected" => d.id = -m
      /\ d.kind \notin {"opened", "traded", "rejected"} => d.id = m
  BY <1>1 DEF OfOrder
<1>5. ASSUME NEW l \in SignalLegs(t, d)
      PROVE  \/ t.oid[l] = m
             \/ t.ref[l] = -m
  BY <1>1, <1>4, <1>5 DEF SignalLegs, ById, ByRef
<1>6. ASSUME NEW l \in SignalLegs(t, d)
      PROVE  \/ l = "entry" /\ m = 1 /\ (t.oid["entry"] = 1 \/ t.ref["entry"] = -1)
             \/ l \in ExitLegs /\ t.oid[l] = m /\ m \in 2 .. Len(os)
  <2>1. l \in ExitLegs \/ l = "entry"
    BY <1>0 DEF SignalLegs
  <2>2. CASE l = "entry"
    BY <1>1, <1>3, <1>5, <2>2
  <2>3. CASE l \in ExitLegs
    BY <1>1, <1>2, <1>5, <2>3
  <2> QED
    BY <2>1, <2>2, <2>3
<1>7. ASSUME NEW l \in SignalLegs(t, d), NEW k \in SignalLegs(t, d) PROVE l = k
  <2>1. t.oid["limit"] = None \/ t.oid["stop"] = None
    BY DEF Books, Exits
  <2> QED
    BY <1>1, <1>6, <2>1 DEF ExitLegs
<1>8. ASSUME NEW l \in ExitLegs, Executes(d, t.oid[l])
      PROVE  l \in SignalLegs(t, d) /\ IsTargetOrder(t, d)
  <2>1. d.kind = "traded" /\ d.id = t.oid[l] /\ d.id # None
    BY <1>1, <1>4, <1>8 DEF Executes
  <2> QED
    BY <1>0, <2>1 DEF SignalLegs, IsTargetOrder, ById
<1>9. Ref(1) = -1
  BY <1>1
<1> QED
  BY <1>6, <1>7, <1>8, <1>9

\* A report of the exchange names its order
LEMMA ReportNames ==
  ASSUME NEW d, NEW o, NEW m, ReportOf(d, o, m)
  PROVE  OfOrder(d, m)
  BY DEF ReportOf, OfOrder

\* So the leg a report finds is about the order of the report, and the only one
LEMMA SignalLeg ==
  ASSUME NEW t \in Trade, NEW os, NEW c, NEW ls, NEW opening, Books(t, os, c, ls, opening),
         NEW d \in SignalData, NEW m \in 1 .. Len(os), ReportOf(d, os[m], m)
  PROVE  /\ \A l \in SignalLegs(t, d) :
              \/ l = "entry" /\ m = 1 /\ (t.oid["entry"] = 1 \/ t.ref["entry"] = Ref(1))
              \/ l \in ExitLegs /\ t.oid[l] = m /\ m \in 2 .. Len(os)
         /\ \A l, k \in SignalLegs(t, d) : l = k
         /\ \A l \in ExitLegs : Executes(d, t.oid[l]) => l \in SignalLegs(t, d) /\ IsTargetOrder(t, d)
  BY ReportNames, NamedLeg

\* An execution of the entry order: the entered quantity, and the leg once it is filled
LEMMA EntryTradedShape ==
  ASSUME NEW t \in Trade, NEW d \in SignalData
  PROVE  \E u \in Trade :
           /\ SameLegs(t, u) /\ u.e = d.cum - d.fee /\ u.x = t.x
           /\ u.entryState = t.entryState /\ u.exitState = t.exitState
           /\ IF u.e >= t.oq \/ d.full
              THEN EntryTraded(t, d) = [ResetLeg(u, "entry") EXCEPT !.entryState = "filled"]
              ELSE EntryTraded(t, d) = [u EXCEPT !.entryState = "partially_filled"]
<1> DEFINE e == d.cum - d.fee
           b == t.dirty \/ d.cum > t.e
           u == [t EXCEPT !.e = e, !.dirty = b]
<1>1. e \in Int /\ b \in BOOLEAN
  BY DEF SignalData, Trade
<1>2. /\ u \in Trade /\ SameLegs(t, u) /\ u.e = e /\ u.x = t.x
      /\ u.entryState = t.entryState /\ u.exitState = t.exitState
  <2> HIDE DEF e, b
  <2> QED
    BY <1>1 DEF SameLegs, Trade
<1>3. IF e >= t.oq \/ d.full
      THEN EntryTraded(t, d) = [ResetLeg(u, "entry") EXCEPT !.entryState = "filled"]
      ELSE EntryTraded(t, d) = [u EXCEPT !.entryState = "partially_filled"]
  BY DEF EntryTraded
<1>4. u.e = d.cum - d.fee
  BY <1>2
<1> HIDE DEF u, b, e
<1>5. IF u.e >= t.oq \/ d.full
      THEN EntryTraded(t, d) = [ResetLeg(u, "entry") EXCEPT !.entryState = "filled"]
      ELSE EntryTraded(t, d) = [u EXCEPT !.entryState = "partially_filled"]
  BY <1>2, <1>3
<1> QED
  BY <1>2, <1>4, <1>5

\* An execution of an exit order not counted yet: what it sold, and the leg once it
\* is filled
LEMMA ExitTradedShape ==
  ASSUME NEW t \in Trade, NEW l \in ExitLegs, NEW d \in SignalData, t.exec[l] < d.cum
  PROVE  \E u \in Trade :
           /\ Counted(t, u, l, d.cum) /\ u.x = t.x + (d.cum - t.exec[l])
           /\ u.entryState = t.entryState /\ u.exitState = ExitStateAfter(t, u.x, d)
           /\ ExitTraded(t, l, d) = IF d.cum >= t.qty[l] \/ d.full THEN ResetLeg(u, l) ELSE u
<1> DEFINE filled == d.cum - t.exec[l]
           x == t.x + filled
           s == ExitStateAfter(t, x, d)
           u == [t EXCEPT !.x = x, !.exec[l] = d.cum, !.exitState = s]
<1>1. /\ l \in Legs /\ t.exec[l] \in Nat /\ d.cum \in Nat /\ t.x \in Nat
  BY FieldsType DEF SignalData
<1>2. ExitFilled(t, l, d) = filled /\ t.exec[l] + filled = d.cum /\ x \in Nat
  BY <1>1 DEF ExitFilled
<1>3. s \in ExitState
  BY DEF ExitStateAfter, ExitState
<1>4. ExitTraded(t, l, d) = IF d.cum >= t.qty[l] \/ d.full THEN ResetLeg(u, l) ELSE u
  <2> DEFINE f == ExitFilled(t, l, d)
             exec == t.exec[l] + f
             y == t.x + f
             v == [t EXCEPT !.x = y, !.exec[l] = exec, !.exitState = ExitStateAfter(t, y, d)]
  <2>1. ExitTraded(t, l, d) = IF exec >= t.qty[l] \/ d.full THEN ResetLeg(v, l) ELSE v
    BY DEF ExitTraded
  <2>2. exec = d.cum /\ y = x
    BY <1>2
  <2> HIDE DEF exec, y, x
  <2> QED
    BY <2>1, <2>2
<1>5. s = ExitStateAfter(t, x, d)
  OBVIOUS
<1> HIDE DEF x, s
<1>6. u \in Trade /\ u.x = x /\ u.entryState = t.entryState /\ u.exitState = s
  <2>1. u \in Trade
    BY <1>1, <1>2, <1>3, SetFieldsKeeps DEF Keeps
  <2>2. DOMAIN t = DOMAIN u /\ {"x", "entryState", "exitState", "exec"} \subseteq DOMAIN t
    BY DEF Trade
  <2> QED
    BY <2>1, <2>2
<1>7. Counted(t, u, l, d.cum)
  BY <1>1 DEF Counted, Trade
<1> HIDE DEF u
<1> QED
  BY <1>4, <1>5, <1>6, <1>7 DEF x

\* The report at the head of the queue, and what it adds to an exit leg it is about
LEMMA HeadReport ==
  ASSUME NEW t \in Trade, NEW os \in Seq(Order), NEW c \in Seq(SignalData), c # <<>>,
         NEW ls, NEW opening, Books(t, os, c, ls, opening)
  PROVE  /\ Head(c) \in SignalData /\ os # <<>>
         /\ \E m \in 1 .. Len(os) : m \in Nat \ {0} /\ os[m] \in Order /\ ReportOf(Head(c), os[m], m)
         /\ \A l \in ExitLegs : Executes(Head(c), t.oid[l]) =>
              t.oid[l] # None /\ t.exec[l] < Head(c).cum
<1>1. Head(c) = c[1] /\ 1 \in 1 .. Len(c) /\ Head(c) \in SignalData
  BY TailElements
<1>2. PICK m \in 1 .. Len(os) : ReportOf(c[1], os[m], m)
  BY <1>1 DEF Books, Reports
<1>3. os # <<>>
  <2>1. os = <<>> => Len(os) = 0
    BY EmptySeq
  <2> QED
    BY <1>2, <2>1
<1>4. ASSUME NEW l \in ExitLegs, Executes(Head(c), t.oid[l])
      PROVE  t.oid[l] # None /\ t.exec[l] < Head(c).cum
  <2>1. m \in Nat \ {0}
    BY <1>2
  <2>2. t.oid[l] = m
    BY <1>1, <1>2, <1>4, <2>1, ReportAbout DEF Executes
  <2>3. t.oid[l] # None
    BY <2>1, <2>2 DEF None
  <2> QED
    BY <1>1, <1>4, <2>3 DEF Books, Exits, LegOf
<1>5. m \in Nat \ {0} /\ os[m] \in Order
  BY <1>2, ElementOfSeq
<1> QED
  BY <1>1, <1>2, <1>3, <1>4, <1>5

\* The identifier of the entry order reaches the trade, by its report or by open
LEMMA EntryNamedBooks ==
  ASSUME NEW t \in Trade, NEW u \in Trade, NEW os, NEW c, NEW ls, NEW opening, NEW still,
         Books(t, os, c, ls, opening), os # <<>>,
         u.oq = t.oq, u.ref = t.ref, u.qty = t.qty, u.exec = t.exec, u.e = t.e,
         u.oid["entry"] = 1, \A l \in ExitLegs : u.oid[l] = t.oid[l]
  PROVE  Books(u, os, c, ls, still)
<1>1. Reports(c, os) /\ Ledger(os, u.oq) /\ EntryLeg(u, os, still)
  BY DEF Books, EntryLeg
<1>2. Exits(u, os, c, ls)
  BY DEF Books, Exits, LegOf, ExitLegs
<1> QED
  BY <1>1, <1>2 DEF Books

\* A full execution, and one of the whole quantity, end the order
LEMMA FullIsOver ==
  ASSUME NEW os \in Seq(Order), NEW oq, Ledger(os, oq), NEW d \in SignalData, d.kind = "traded",
         NEW m \in 1 .. Len(os), ReportOf(d, os[m], m), d.full \/ d.cum >= os[m].qty
  PROVE  os[m].status # "live" /\ d.cum = os[m].filled
<1>1. os[m] \in Order
  BY ElementOfSeq
<1>2. d.cum <= os[m].filled /\ (d.full => d.cum = os[m].qty)
  BY DEF ReportOf
<1>3. os[m].filled <= os[m].qty /\ (os[m].status = "live" => os[m].filled < os[m].qty)
  BY DEF Ledger, Kept
<1> DEFINE c == d.cum
           f == os[m].filled
           q == os[m].qty
           live == os[m].status = "live"
<1>4. c \in Nat /\ f \in Nat /\ q \in Int
  BY <1>1 DEF Order, SignalData
<1>5. c <= f /\ (c = q \/ c >= q) /\ f <= q /\ (live => f < q)
  BY <1>2, <1>3
<1> HIDE DEF c, f, q, live
<1>6. ~live /\ c = f
  BY ONLY <1>4, <1>5
<1> QED
  BY <1>6 DEF c, f, live

\* A report the trade ignores is taken from the queue
LEMMA IgnoredBooks ==
  ASSUME NEW t \in Trade, NEW os \in Seq(Order), NEW c \in Seq(SignalData), c # <<>>,
         NEW ls, NEW opening, Books(t, os, c, ls, opening), ls => ~IsTargetOrder(t, Head(c))
  PROVE  Books(t, os, Tail(c), ls, opening)
<1>1. PICK m \in 1 .. Len(os) : ReportOf(Head(c), os[m], m)
  BY HeadReport
<1>2. Head(c) \in SignalData
  BY HeadReport
<1>3. ls => \A l \in ExitLegs : ~Executes(Head(c), t.oid[l])
  BY <1>1, <1>2, SignalLeg
<1> QED
  BY <1>3, TailBooks

\* What the trade does with a report, by its kind
LEMMA SignalBranch ==
  ASSUME NEW t, NEW d, NEW l \in SignalLegs(t, d), \A k \in SignalLegs(t, d) : k = l
  PROVE  OrderSignal(t, d) =
           CASE d.kind = "opened"   -> Opened(t, l, d)
             [] d.kind = "traded"   -> IF l = "entry" THEN EntryTraded(t, d) ELSE ExitTraded(t, l, d)
             [] d.kind = "rejected" -> Rejected(t, l)
             [] OTHER               -> Removed(t, l)
<1> DEFINE k == CHOOSE j \in SignalLegs(t, d) : TRUE
<1>1. k \in SignalLegs(t, d)
  OBVIOUS
<1>2. k = l
  BY <1>1
<1>3. SignalLegs(t, d) # {}
  OBVIOUS
<1> HIDE DEF k
<1> QED
  BY <1>2, <1>3 DEF OrderSignal, k

\* The states a report leaves
LEMMA StateNames ==
  /\ {"filled", "rejected", "canceled", "opened", "partially_filled", "new"} \subseteq EntryState
  /\ {"filled", "canceled", "opened", "partially_filled", "error", "new"} \subseteq ExitState
  BY DEF EntryState, ExitState

\* The opening of an order names it to its leg
LEMMA OpenedBooks ==
  ASSUME NEW t \in Trade, NEW os \in Seq(Order), NEW c, NEW ls, NEW opening,
         Books(t, os, c, ls, opening), NEW d \in SignalData, d.kind = "opened",
         NEW m \in 1 .. Len(os), ReportOf(d, os[m], m), os # <<>>, NEW l \in SignalLegs(t, d)
  PROVE  Books(Opened(t, l, d), os, c, ls, opening)
<1>1. d.id = m
  BY DEF ReportOf
<1>2. CASE l = "entry"
  <2> DEFINE u == Opened(t, l, d)
  <2>1. d.id = 1
    BY <1>1, <1>2, SignalLeg, FieldsType
  <2>2. /\ u.oid = [t.oid EXCEPT !["entry"] = 1] /\ u.ref = t.ref /\ u.qty = t.qty
        /\ u.exec = t.exec /\ u.e = t.e /\ u.oq = t.oq
    BY <1>2, <2>1 DEF Opened, Trade
  <2>3. "entry" \in Legs /\ "entry" \notin ExitLegs /\ t.oid \in [Legs -> 0 .. 2 * MaxOrders]
        /\ ExitLegs \subseteq Legs
    BY FieldsType DEF Trade
  <2>4. u.oid["entry"] = 1 /\ \A k \in ExitLegs : u.oid[k] = t.oid[k]
    BY <2>2, <2>3
  <2>5. u \in Trade
    <3>1. 1 \in 0 .. 2 * MaxOrders
      OBVIOUS
    <3>2. u = [t EXCEPT !.oid = u.oid, !.entryState = "opened"]
      BY <1>2 DEF Opened
    <3>3. u.oid \in [Legs -> 0 .. 2 * MaxOrders]
      BY <2>2, <2>3, <3>1
    <3> HIDE DEF u
    <3> QED
      BY <3>2, <3>3, StateNames DEF Trade
  <2> HIDE DEF u
  <2>6. Books(u, os, c, ls, opening)
    BY <2>2, <2>4, <2>5, EntryNamedBooks
  <2> QED
    BY <2>6 DEF u
<1>3. CASE l # "entry"
  <2>1. l \in ExitLegs /\ t.oid[l] = d.id
    BY <1>1, <1>3, SignalLeg
  <2> DEFINE u == [t EXCEPT !.exitState = "opened"]
  <2>2. Opened(t, l, d) = [t EXCEPT !.oid[l] = d.id, !.exitState = "opened"]
    BY <1>3 DEF Opened
  <2>3. [t.oid EXCEPT ![l] = d.id] = t.oid
    BY <2>1 DEF Trade
  <2>4. Opened(t, l, d) = u
    BY <2>2, <2>3 DEF Trade
  <2>5. u \in Trade /\ SameLegs(t, u) /\ u.e = t.e
    BY StateSame, StateNames
  <2> HIDE DEF u
  <2>6. Books(u, os, c, ls, opening)
    BY <2>5, SameBooks
  <2> QED
    BY <2>4, <2>6
<1> QED
  BY <1>2, <1>3

\* The end of an order frees its leg
LEMMA RemovedBooks ==
  ASSUME NEW t \in Trade, NEW os, NEW c, NEW ls, NEW opening,
         Books(t, os, c, ls, opening), os # <<>>, NEW l \in Legs, Over(t, os, l)
  PROVE  Books(Removed(t, l), os, c, ls, opening) /\ Books(Rejected(t, l), os, c, ls, opening)
<1> DEFINE r == ResetLeg(t, l)
<1>1. r \in Trade /\ Freed(t, r, l)
  BY ResetFrees
<1> HIDE DEF r
<1>2. Books(r, os, c, ls, opening)
  BY <1>1, FreedBooks
<1>3. \A s \in EntryState : Books([r EXCEPT !.entryState = s], os, c, ls, opening)
  <2> SUFFICES ASSUME NEW s \in EntryState
               PROVE  Books([r EXCEPT !.entryState = s], os, c, ls, opening)
    OBVIOUS
  <2> DEFINE v == [r EXCEPT !.entryState = s]
  <2>1. v \in Trade /\ SameLegs(r, v)
    BY <1>1, StateSame
  <2> HIDE DEF v
  <2>2. Books(v, os, c, ls, opening)
    BY <1>1, <1>2, <2>1, SameBooks
  <2> QED
    BY <2>2 DEF v
<1>4. "filled" \in EntryState /\ "rejected" \in EntryState
  BY StateNames
<1> QED
  BY <1>2, <1>3, <1>4 DEF Removed, Rejected, r

\* An execution of the entry order
LEMMA EntryTradedBooks ==
  ASSUME NEW t \in Trade, NEW os \in Seq(Order), NEW c, NEW ls, NEW opening,
         Books(t, os, c, ls, opening), NEW d \in SignalData, d.kind = "traded",
         os # <<>>, ReportOf(d, os[1], 1)
  PROVE  Books(EntryTraded(t, d), os, c, ls, opening)
<1>1. PICK u \in Trade :
           /\ SameLegs(t, u) /\ u.e = d.cum - d.fee
           /\ IF u.e >= t.oq \/ d.full
              THEN EntryTraded(t, d) = [ResetLeg(u, "entry") EXCEPT !.entryState = "filled"]
              ELSE EntryTraded(t, d) = [u EXCEPT !.entryState = "partially_filled"]
  BY EntryTradedShape
<1>2. Books(u, os, c, ls, opening)
  BY <1>1, SameBooks
<1>3. "entry" \in Legs /\ "filled" \in EntryState /\ "partially_filled" \in EntryState
  BY FieldsType, StateNames
<1>4. ASSUME NEW v \in Trade, NEW s \in EntryState, Books(v, os, c, ls, opening)
      PROVE  Books([v EXCEPT !.entryState = s], os, c, ls, opening)
  <2> DEFINE w == [v EXCEPT !.entryState = s]
  <2>1. w \in Trade /\ SameLegs(v, w)
    BY StateSame
  <2> HIDE DEF w
  <2>2. Books(w, os, c, ls, opening)
    BY <1>4, <2>1, SameBooks
  <2> QED
    BY <2>2 DEF w
<1>5. CASE u.e >= t.oq \/ d.full
  <2>1. 1 \in 1 .. Len(os)
    BY LenProperties, EmptySeq
  <2>2. d.full \/ d.cum >= os[1].qty
    <3>1. os[1].qty = t.oq /\ t.oq \in Nat
      BY FieldsType DEF Books, Ledger
    <3> QED
      BY <1>1, <1>5, <3>1 DEF SignalData
  <2>3. os[1].status # "live"
    BY <2>1, <2>2, FullIsOver DEF Books
  <2> DEFINE r == ResetLeg(u, "entry")
  <2>4. r \in Trade /\ Freed(u, r, "entry")
    BY <1>3, ResetFrees
  <2> HIDE DEF r
  <2>5. Over(u, os, "entry")
    BY <2>3 DEF Over
  <2>6. Books(r, os, c, ls, opening)
    BY <1>2, <1>3, <2>4, <2>5, FreedBooks
  <2> QED
    BY <1>1, <1>3, <1>4, <1>5, <2>4, <2>6 DEF r
<1>6. CASE ~(u.e >= t.oq \/ d.full)
  BY <1>1, <1>2, <1>3, <1>4, <1>6
<1> QED
  BY <1>5, <1>6

\* An execution of an exit order
LEMMA ExitTradedBooks ==
  ASSUME NEW t \in Trade, NEW os \in Seq(Order), NEW c \in Seq(SignalData), c # <<>>,
         NEW ls, NEW opening, Books(t, os, c, ls, opening),
         NEW l \in ExitLegs, Executes(Head(c), t.oid[l])
  PROVE  Books(ExitTraded(t, l, Head(c)), os, Tail(c), ls, opening)
<1> DEFINE d == Head(c)
           n == t.oid[l]
<1>1. d \in SignalData /\ t.oid[l] # None /\ t.exec[l] < d.cum /\ os # <<>>
  BY HeadReport
<1>2. PICK u \in Trade :
        /\ Counted(t, u, l, d.cum)
        /\ ExitTraded(t, l, d) = IF d.cum >= t.qty[l] \/ d.full THEN ResetLeg(u, l) ELSE u
  BY <1>1, ExitTradedShape
<1>3. Books(u, os, Tail(c), ls, opening)
  BY <1>1, <1>2, CountedBooks
<1>4. ASSUME d.cum >= t.qty[l] \/ d.full PROVE Books(ResetLeg(u, l), os, Tail(c), ls, opening)
  <2>1. n \in 2 .. Len(os) /\ t.qty[l] = os[n].qty
    BY <1>1 DEF Books, Exits, LegOf
  <2>2. PICK m \in 1 .. Len(os) : ReportOf(d, os[m], m)
    BY HeadReport
  <2>3. m = n /\ d.kind = "traded"
    <3>1. m \in Nat
      OBVIOUS
    <3> QED
      BY <1>1, <2>2, <3>1, ReportAbout DEF Executes
  <2> HIDE DEF d, n
  <2>4. os[n].status # "live"
    BY <1>1, <1>4, <2>1, <2>2, <2>3, FullIsOver DEF Books
  <2>5. Over(u, os, l)
    <3>1. u.oid[l] = n /\ l # "entry"
      BY <1>2, FieldsType DEF Counted, n
    <3> QED
      BY <2>4, <3>1 DEF Over
  <2>6. ResetLeg(u, l) \in Trade /\ Freed(u, ResetLeg(u, l), l) /\ l \in Legs
    BY ResetFrees, FieldsType
  <2> QED
    BY <1>1, <1>3, <2>5, <2>6, FreedBooks
<1> HIDE DEF d, n
<1>5. Books(ExitTraded(t, l, d), os, Tail(c), ls, opening)
  BY <1>2, <1>3, <1>4
<1> QED
  BY <1>5 DEF d

\* order_signal, on the report at the head of the queue
LEMMA DeliveredBooks ==
  ASSUME NEW t \in Trade, NEW os \in Seq(Order), NEW c \in Seq(SignalData), c # <<>>,
         NEW ls, NEW opening, Books(t, os, c, ls, opening)
  PROVE  Books(OrderSignal(t, Head(c)), os, Tail(c), ls, opening)
<1> DEFINE d == Head(c)
<1>1. PICK m \in 1 .. Len(os) : ReportOf(d, os[m], m) /\ m \in Nat \ {0}
  BY HeadReport
<1>2. d \in SignalData /\ os # <<>>
  BY HeadReport
<1>3. CASE SignalLegs(t, d) = {}
  <2>1. ls => \A l \in ExitLegs : ~Executes(Head(c), t.oid[l])
    BY <1>1, <1>2, <1>3, SignalLeg
  <2> QED
    BY <1>3, <2>1, TailBooks DEF OrderSignal
<1>4. ASSUME NEW l \in SignalLegs(t, d) PROVE Books(OrderSignal(t, d), os, Tail(c), ls, opening)
  <2>1. \A k \in SignalLegs(t, d) : k = l
    BY <1>1, <1>2, SignalLeg
  <2>2. \/ l = "entry" /\ m = 1
        \/ l \in ExitLegs /\ t.oid[l] = m /\ m \in 2 .. Len(os)
    BY <1>1, <1>2, SignalLeg
  <2>3. l \in Legs
    BY <2>2, FieldsType
  <2>4. CASE l # "entry" /\ d.kind = "traded"
    <3>1. Executes(d, t.oid[l])
      BY <1>1, <1>2, <2>2, <2>4, ReportAbout DEF Executes
    <3>2. Books(ExitTraded(t, l, d), os, Tail(c), ls, opening)
      BY <2>2, <2>4, <3>1, ExitTradedBooks
    <3> HIDE DEF d
    <3>3. OrderSignal(t, d) = ExitTraded(t, l, d)
      BY <2>1, <2>4, SignalBranch
    <3> QED
      BY <3>2, <3>3
  <2>5. CASE ~(l # "entry" /\ d.kind = "traded")
    <3>1. Books(t, os, Tail(c), ls, opening)
      <4>1. ASSUME NEW k \in ExitLegs, Executes(d, t.oid[k]) PROVE FALSE
        <5>1. k = l /\ d.kind = "traded"
          BY <1>1, <1>2, <2>1, <4>1, SignalLeg DEF Executes
        <5> QED
          BY <2>5, <5>1, FieldsType
      <4> QED
        BY <4>1, TailBooks
    <3> DEFINE b == Tail(c)
    <3> HIDE DEF b, d
    <3>2. Books(t, os, b, ls, opening)
      BY <3>1 DEF b
    <3>3. CASE d.kind = "opened"
      BY <1>1, <1>2, <2>1, <3>2, <3>3, OpenedBooks, SignalBranch DEF b
    <3>4. CASE d.kind = "traded"
      <4>1. l = "entry" /\ m = 1
        BY <2>2, <2>5, <3>4, FieldsType
      <4>2. Books(EntryTraded(t, d), os, b, ls, opening)
        BY <1>1, <1>2, <3>2, <3>4, <4>1, EntryTradedBooks
      <4> QED
        BY <2>1, <3>4, <4>1, <4>2, SignalBranch DEF b
    <3>5. CASE d.kind \notin {"opened", "traded"}
      <4>1. os[m].status # "live"
        BY <1>1, <3>5 DEF ReportOf
      <4>2. Over(t, os, l)
        BY <2>2, <4>1, FieldsType DEF Over
      <4>3. Books(Removed(t, l), os, b, ls, opening) /\ Books(Rejected(t, l), os, b, ls, opening)
        BY <1>2, <2>3, <3>2, <4>2, RemovedBooks
      <4> QED
        BY <2>1, <3>5, <4>3, SignalBranch DEF b
    <3> QED
      BY <3>3, <3>4, <3>5
  <2> QED
    BY <2>4, <2>5
<1>5. SignalLegs(t, d) = {} \/ \E l \in SignalLegs(t, d) : TRUE
  OBVIOUS
<1> QED
  BY <1>3, <1>4, <1>5

\* What resets the other fields of leg l keeps the legs but l
LEMMA FreedAfter ==
  ASSUME NEW t, NEW v \in Trade, NEW l \in Legs, OthersSame(t, v, l)
  PROVE  Freed(t, ResetLeg(v, l), l)
  BY ResetFrees DEF Freed, OthersSame

\* What order_info shows of the entry order of the trade
LEMMA EntryChecked ==
  ASSUME NEW t \in Trade, NEW os \in Seq(Order), NEW c, NEW ls, NEW opening,
         Books(t, os, c, ls, opening), NEW o \in Order, o.filled > t.e,
         NEW d \in SignalData, d.kind = "traded", OfOrder(d, 1), d.cum = o.filled, d.fee = 0,
         t.oid["entry"] = 1
  PROVE  \E v \in Trade :
           /\ OrderSignal(t, d) = v /\ OthersSame(t, v, "entry")
           /\ v.e = o.filled /\ v.x = t.x /\ v.exitState = t.exitState
           /\ v.entryState \in {"filled", "partially_filled"}
<1>1. "entry" \in Legs /\ 1 \in 1 .. Len(os)
  <2>1. os # <<>>
    BY DEF Books, EntryLeg
  <2> QED
    BY <2>1, FieldsType, LenProperties, EmptySeq
<1>2. "entry" \in SignalLegs(t, d)
  BY <1>1 DEF SignalLegs, ById, OfOrder, None
<1>3. \A k \in SignalLegs(t, d) : k = "entry"
  BY <1>1, <1>2, NamedLeg
<1>4. OrderSignal(t, d) = EntryTraded(t, d)
  BY <1>2, <1>3, SignalBranch
<1>5. PICK u \in Trade :
        /\ SameLegs(t, u) /\ u.e = d.cum - d.fee /\ u.x = t.x /\ u.exitState = t.exitState
        /\ IF u.e >= t.oq \/ d.full
           THEN EntryTraded(t, d) = [ResetLeg(u, "entry") EXCEPT !.entryState = "filled"]
           ELSE EntryTraded(t, d) = [u EXCEPT !.entryState = "partially_filled"]
  BY EntryTradedShape
<1>6. u.e = o.filled
  BY <1>5 DEF Order
<1>7. "filled" \in EntryState /\ "partially_filled" \in EntryState
  BY StateNames
<1>8. OthersSame(t, u, "entry")
  BY <1>5 DEF OthersSame, SameLegs
<1>9. ASSUME NEW w \in Trade, NEW s \in EntryState, OthersSame(t, w, "entry")
      PROVE  LET v == [w EXCEPT !.entryState = s]
             IN  /\ v \in Trade /\ OthersSame(t, v, "entry")
                 /\ v.e = w.e /\ v.x = w.x /\ v.exitState = w.exitState /\ v.entryState = s
  <2> DEFINE v == [w EXCEPT !.entryState = s]
  <2>1. v \in Trade /\ SameLegs(w, v) /\ v.e = w.e /\ v.x = w.x /\ v.exitState = w.exitState
    BY StateSame
  <2>2. v.entryState = s
    BY DEF Trade
  <2> HIDE DEF v
  <2>3. OthersSame(t, v, "entry")
    BY <1>9, <2>1 DEF OthersSame, SameLegs
  <2> QED
    BY <2>1, <2>2, <2>3 DEF v
<1>10. CASE u.e >= t.oq \/ d.full
  <2> DEFINE r == ResetLeg(u, "entry")
  <2>1. /\ r \in Trade /\ OthersSame(t, r, "entry")
        /\ r.e = u.e /\ r.x = u.x /\ r.exitState = u.exitState
    BY <1>1, <1>8, ResetFrees, FreedAfter DEF Freed
  <2>2. EntryTraded(t, d) = [r EXCEPT !.entryState = "filled"]
    BY <1>5, <1>10
  <2> HIDE DEF r
  <2> DEFINE v == [r EXCEPT !.entryState = "filled"]
  <2>3. /\ v \in Trade /\ OthersSame(t, v, "entry")
        /\ v.e = r.e /\ v.x = r.x /\ v.exitState = r.exitState /\ v.entryState = "filled"
    BY <1>7, <1>9, <2>1
  <2>4. OrderSignal(t, d) = v
    BY <1>4, <2>2
  <2> HIDE DEF v
  <2> QED
    BY <1>5, <1>6, <2>1, <2>3, <2>4
<1>11. CASE ~(u.e >= t.oq \/ d.full)
  <2>1. EntryTraded(t, d) = [u EXCEPT !.entryState = "partially_filled"]
    BY <1>5, <1>11
  <2> DEFINE v == [u EXCEPT !.entryState = "partially_filled"]
  <2>2. /\ v \in Trade /\ OthersSame(t, v, "entry")
        /\ v.e = u.e /\ v.x = u.x /\ v.exitState = u.exitState
        /\ v.entryState = "partially_filled"
    BY <1>7, <1>8, <1>9
  <2>3. OrderSignal(t, d) = v
    BY <1>4, <2>1
  <2> HIDE DEF v
  <2> QED
    BY <1>5, <1>6, <2>2, <2>3
<1> QED
  BY <1>10, <1>11

\* What order_info shows of an exit order of the trade
LEMMA ExitChecked ==
  ASSUME NEW t \in Trade, NEW os \in Seq(Order), NEW c, NEW ls, NEW opening,
         Books(t, os, c, ls, opening), NEW l \in ExitLegs, t.oid[l] # None,
         NEW o \in Order, o.filled > t.exec[l],
         NEW d \in SignalData, d.kind = "traded", OfOrder(d, t.oid[l]), d.cum = o.filled
  PROVE  \E v \in Trade, y \in Nat :
           /\ OrderSignal(t, d) = v /\ OthersSame(t, v, l)
           /\ v.e = t.e /\ v.x = y /\ y = t.x + (o.filled - t.exec[l])
           /\ v.entryState = t.entryState /\ v.exitState = ExitStateAfter(t, y, d)
<1>1. t.oid[l] \in 2 .. Len(os) /\ l \in Legs /\ l # "entry"
  BY FieldsType DEF Books, Exits, LegOf
<1>2. t.oid[l] \in 1 .. Len(os)
  BY <1>1
<1>3. l \in SignalLegs(t, d)
  BY <1>1 DEF SignalLegs, ById, OfOrder
<1>4. \A k \in SignalLegs(t, d) : k = l
  BY <1>2, <1>3, NamedLeg
<1>5. OrderSignal(t, d) = ExitTraded(t, l, d)
  BY <1>1, <1>3, <1>4, SignalBranch
<1>6. t.exec[l] < d.cum
  BY <1>1, FieldsType DEF Order
<1>7. PICK u \in Trade :
        /\ Counted(t, u, l, d.cum) /\ u.x = t.x + (d.cum - t.exec[l])
        /\ u.entryState = t.entryState /\ u.exitState = ExitStateAfter(t, u.x, d)
        /\ ExitTraded(t, l, d) = IF d.cum >= t.qty[l] \/ d.full THEN ResetLeg(u, l) ELSE u
  BY <1>6, ExitTradedShape
<1>8. OthersSame(t, u, l) /\ u.e = t.e
  BY <1>7 DEF Counted, OthersSame
<1>9. u.x = t.x + (o.filled - t.exec[l]) /\ u.x \in Nat
  BY <1>7, FieldsType
<1>10. /\ ResetLeg(u, l) \in Trade /\ OthersSame(t, ResetLeg(u, l), l)
       /\ ResetLeg(u, l).e = u.e /\ ResetLeg(u, l).x = u.x
       /\ ResetLeg(u, l).entryState = u.entryState /\ ResetLeg(u, l).exitState = u.exitState
  BY <1>1, <1>8, ResetFrees, FreedAfter DEF Freed
<1> QED
  BY <1>5, <1>7, <1>8, <1>9, <1>10

\* The state an operation leaves once a leg is canceled is not about the orders
LEMMA AfterCancelSame ==
  ASSUME NEW v \in Trade, NEW l \in Legs, NEW name
  PROVE  LET w == AfterCancel(name, l, v)
         IN  /\ w \in Trade /\ SameLegs(v, w) /\ w.e = v.e /\ w.x = v.x
             /\ l = "entry" => w.exitState = v.exitState
             /\ l = "entry" /\ name # "close" =>
                  w.entryState = IF v.e <= 0 THEN "canceled" ELSE "filled"
             /\ l # "entry" \/ name = "close" => w.entryState = v.entryState
             /\ name \notin Removals => w.exitState = v.exitState
<1> DEFINE a == IF v.e <= 0 THEN "canceled" ELSE "filled"
           b == IF v.e <= 0 /\ v.x <= 0 THEN "canceled"
                ELSE IF v.x >= v.e THEN "filled" ELSE "partially_filled"
           w == AfterCancel(name, l, v)
<1>1. a \in EntryState /\ b \in ExitState
  BY StateNames
<1>2. w = IF l = "entry" /\ name # "close" THEN [v EXCEPT !.entryState = a]
          ELSE IF name \in Removals THEN [v EXCEPT !.exitState = b] ELSE v
  BY DEF AfterCancel
<1>3. "close" \notin Removals
  BY DEF Removals
<1>4. a = IF v.e <= 0 THEN "canceled" ELSE "filled"
  OBVIOUS
<1> HIDE DEF a, b, w
<1>5. CASE l = "entry" /\ name # "close"
  <2> DEFINE u == [v EXCEPT !.entryState = a]
  <2>1. /\ u \in Trade /\ SameLegs(v, u) /\ u.e = v.e /\ u.x = v.x
        /\ u.entryState = a /\ u.exitState = v.exitState
    BY <1>1, StateSame
  <2>2. w = u
    BY <1>2, <1>5
  <2> HIDE DEF u
  <2> QED
    BY <1>4, <1>5, <2>1, <2>2 DEF w
<1>6. CASE ~(l = "entry" /\ name # "close") /\ name \in Removals
  <2> DEFINE u == [v EXCEPT !.exitState = b]
  <2>1. /\ u \in Trade /\ SameLegs(v, u) /\ u.e = v.e /\ u.x = v.x
        /\ u.entryState = v.entryState
    BY <1>1, StateSame
  <2>2. w = u
    BY <1>2, <1>6
  <2> HIDE DEF u
  <2> QED
    BY <1>3, <1>6, <2>1, <2>2 DEF w
<1>7. CASE ~(l = "entry" /\ name # "close") /\ name \notin Removals
  <2>1. w = v
    BY <1>2, <1>7
  <2> QED
    BY <1>7, <2>1 DEF w, SameLegs
<1> QED
  BY <1>5, <1>6, <1>7

\* A leg an operation canceled is freed, with what order_info showed counted
LEMMA CheckAndResetFrees ==
  ASSUME NEW t \in Trade, NEW os \in Seq(Order), NEW c, NEW ls, NEW opening,
         Books(t, os, c, ls, opening), NEW l \in Legs, NEW n, n = t.oid[l], n # None,
         NEW o \in Order, n \in 1 .. MaxOrders
  PROVE  \E w \in Trade :
           /\ w = CheckAndReset(t, l, n, o) /\ Freed(t, w, l)
           /\ l = "entry" =>
                /\ w.e = IF o.filled > t.e THEN o.filled ELSE t.e
                /\ w.x = t.x /\ w.exitState = t.exitState
                /\ w.entryState \in {t.entryState, "filled", "partially_filled"}
           /\ l # "entry" =>
                /\ w.e = t.e /\ w.entryState = t.entryState
                /\ IF o.filled > t.exec[l]
                   THEN /\ w.x = t.x + (o.filled - t.exec[l])
                        /\ w.exitState = ExitStateAfter(t, w.x, InfoSignal("traded", n, o))
                   ELSE w.x = t.x /\ w.exitState = t.exitState
<1> DEFINE d == InfoSignal("traded", n, o)
<1>1. "traded" \in SignalKind
  BY DEF SignalKind
<1>2. /\ d \in SignalData /\ d.kind = "traded" /\ d.cum = o.filled /\ d.fee = 0
      /\ OfOrder(d, n)
  BY <1>1, InfoSignalType DEF InfoSignal, OfOrder
<1>3. l = "entry" => n = 1
  BY DEF Books, EntryLeg
<1>4. CASE ~(o.filled > Executed(t, l))
  <2>1. CheckAndReset(t, l, n, o) = ResetLeg(t, l)
    BY <1>4 DEF CheckAndReset
  <2>2. OthersSame(t, t, l)
    BY DEF OthersSame
  <2>3. /\ ResetLeg(t, l) \in Trade /\ Freed(t, ResetLeg(t, l), l)
        /\ ResetLeg(t, l).e = t.e /\ ResetLeg(t, l).x = t.x
        /\ ResetLeg(t, l).entryState = t.entryState /\ ResetLeg(t, l).exitState = t.exitState
    BY <2>2, ResetFrees
  <2> QED
    BY <1>4, <2>1, <2>3 DEF Executed
<1>5. CASE o.filled > Executed(t, l)
  <2>1. CheckAndReset(t, l, n, o) = ResetLeg(OrderSignal(t, d), l)
    BY <1>5 DEF CheckAndReset
  <2> HIDE DEF d
  <2>2. ASSUME l = "entry"
        PROVE  \E w \in Trade :
                 /\ w = ResetLeg(OrderSignal(t, d), l) /\ Freed(t, w, l)
                 /\ w.e = o.filled /\ w.x = t.x /\ w.exitState = t.exitState
                 /\ w.entryState \in {"filled", "partially_filled"}
    <3>1. PICK v \in Trade :
            /\ OrderSignal(t, d) = v /\ OthersSame(t, v, "entry")
            /\ v.e = o.filled /\ v.x = t.x /\ v.exitState = t.exitState
            /\ v.entryState \in {"filled", "partially_filled"}
      BY <1>2, <1>3, <1>5, <2>2, EntryChecked DEF Executed
    <3>2. /\ ResetLeg(v, l) \in Trade /\ Freed(t, ResetLeg(v, l), l)
          /\ ResetLeg(v, l).e = v.e /\ ResetLeg(v, l).x = v.x
          /\ ResetLeg(v, l).exitState = v.exitState /\ ResetLeg(v, l).entryState = v.entryState
      BY <2>2, <3>1, ResetFrees, FreedAfter
    <3> QED
      BY <3>1, <3>2
  <2>3. ASSUME l # "entry"
        PROVE  \E w \in Trade :
                 /\ w = ResetLeg(OrderSignal(t, d), l) /\ Freed(t, w, l)
                 /\ w.e = t.e /\ w.entryState = t.entryState
                 /\ w.x = t.x + (o.filled - t.exec[l])
                 /\ w.exitState = ExitStateAfter(t, w.x, d)
    <3>1. l \in ExitLegs
      BY <2>3 DEF Legs, ExitLegs
    <3>2. PICK v \in Trade, y \in Nat :
            /\ OrderSignal(t, d) = v /\ OthersSame(t, v, l)
            /\ v.e = t.e /\ v.x = y /\ y = t.x + (o.filled - t.exec[l])
            /\ v.entryState = t.entryState /\ v.exitState = ExitStateAfter(t, y, d)
      BY <1>2, <1>5, <2>3, <3>1, ExitChecked DEF Executed
    <3>3. /\ ResetLeg(v, l) \in Trade /\ Freed(t, ResetLeg(v, l), l)
          /\ ResetLeg(v, l).e = v.e /\ ResetLeg(v, l).x = v.x
          /\ ResetLeg(v, l).entryState = v.entryState /\ ResetLeg(v, l).exitState = v.exitState
      BY <3>2, ResetFrees, FreedAfter
    <3> QED
      BY <3>2, <3>3
  <2>4. CASE l = "entry"
    BY <1>5, <2>1, <2>2, <2>4 DEF Executed
  <2>5. CASE l # "entry"
    BY <1>5, <2>1, <2>3, <2>5 DEF Executed, d
  <2> QED
    BY <2>4, <2>5
<1> QED
  BY <1>4, <1>5

\* A freed leg stays freed when the state is set
LEMMA FreedThenSame ==
  ASSUME NEW t, NEW v, NEW w, NEW l, Freed(t, v, l), SameLegs(v, w), l \in Legs
  PROVE  Freed(t, w, l)
  BY DEF Freed, OthersSame, SameLegs

---------------------------------------------------------------------------
(***************************************************************************)
(* The steps.  The books follow as long as no REST reply and no report is  *)
(* lost, and nothing else than the reports tells the trade of executions.  *)
(***************************************************************************)
Undisturbed ==
  /\ ~IntIds /\ MaxOutages = 0
  /\ ApiFaults \subseteq {"cancel", "info", "create", "funds"}
  /\ Operations \cap {"resize", "check"} = {}

Opening == op["command"].name = "open_ok"

BooksInv == Books(trade, orders, channel, listed, Opening)

CommandNames == {"idle", "open_ok", "open_failed", "clean"}

MutexNames == {"idle", "cancel_open", "take_profit", "stop_loss", "close", "finalize",
               "terminate", "dirty_stop", "dirty_done"}

\* The operation places an exit order once it freed the exit legs
Frees(o) == o.name = "close" \/ (o.name \in {"take_profit", "stop_loss"} /\ o.hard /\ o.price)

\* The exit legs that have an order are still to be freed
ToFree(t, todo) == \A l \in ExitLegs : t.oid[l] = None \/ \E i \in 1 .. Len(todo) : todo[i] = l

OpInv ==
  /\ op["command"].name \in CommandNames
  /\ op["command"].name # "clean" => op["command"].todo = <<>>
  /\ op["command"].name = "open_failed" => orders = <<>>
  /\ op["mutex"].name \in MutexNames
  /\ Frees(op["mutex"]) => ToFree(trade, op["mutex"].todo)
  /\ connected /\ checked = "normal"

\* What the lemmas below know of the variables
LEMMA VariablesType ==
  ASSUME TypeInv
  PROVE  /\ trade \in Trade /\ orders \in Seq(Order) /\ channel \in Seq(SignalData)
         /\ op \in [Thread -> Op] /\ listed \in BOOLEAN
         /\ account \in [bought : Nat, sold : Nat]
         /\ account.bought \in Nat /\ account.sold \in Nat
         /\ "mutex" \in Thread /\ "command" \in Thread
         /\ op["mutex"] \in Op /\ op["command"] \in Op
         /\ Len(orders) \in Nat /\ DOMAIN orders = 1 .. Len(orders)
         /\ \A n \in 1 .. Len(orders) : n \in 1 .. MaxOrders /\ orders[n] \in Order
<1>1. /\ trade \in Trade /\ orders \in Seq(Order) /\ channel \in Seq(SignalData)
      /\ op \in [Thread -> Op] /\ listed \in BOOLEAN
      /\ account \in [bought : Nat, sold : Nat]
  BY DEF TypeInv, TypeOK
<1>2. DOMAIN orders = 1 .. Len(orders)
  BY <1>1, LenProperties
<1> QED
  BY <1>1, <1>2, Names1, OrdersType

\* An execution and its report
LEMMA FillTells ==
  ASSUME TypeInv, OpInv, NEW n \in DOMAIN orders, NEW k \in FillSizes, Fill(n, k)
  PROVE  \E p \in Order, d \in SignalData :
           /\ orders' = [orders EXCEPT ![n] = p] /\ channel' = Append(channel, d)
           /\ GoesOn(orders[n], p) /\ Tells(d, orders[n], p, n)
           /\ p.filled = orders[n].filled + k /\ d.kind = "traded"
           /\ orders[n].side = "buy" => d.fee = BaseFee[k]
           /\ orders[n].side = "sell" => d.fee = 0
<1> USE ConstantsAssumption DEF ConstantsAssumption
<1> DEFINE o == orders[n]
           cum == o.filled + k
           fee == IF o.side = "buy" THEN BaseFee[k] ELSE 0
           status == IF cum = o.qty THEN "closed" ELSE "live"
           p == [o EXCEPT !.filled = cum, !.fee = o.fee + fee, !.status = status]
           full == cum = o.qty
           d == [Signal("traded", n) EXCEPT !.cum = cum, !.filled = k, !.full = full,
                                            !.fee = fee]
<1>1. o \in Order /\ n \in 1 .. MaxOrders /\ n \in 0 .. MaxOrders
  BY OrdersType
<1>2. k \in Nat \ {0} /\ BaseFee[k] \in Nat
  OBVIOUS
<1>3. o.filled \in Nat /\ o.fee \in Nat /\ o.qty \in Int
  BY <1>1 DEF Order
<1>4. cum \in Nat /\ fee \in Nat /\ o.fee + fee \in Nat /\ full \in BOOLEAN /\ o.filled < cum /\ 0 < cum
  BY <1>2, <1>3
<1>5. /\ orders' = [orders EXCEPT ![n] = p] /\ Report(d)
      /\ o.status = "live" /\ cum <= o.qty
  BY DEF Fill, Live
<1>6. status \in OrderStatus /\ (status = "live" => cum < o.qty)
  BY <1>3, <1>4, <1>5 DEF OrderStatus
<1>9. fee = (IF o.side = "buy" THEN BaseFee[k] ELSE 0) /\ full = (cum = o.qty)
  OBVIOUS
<1>10. cum = orders[n].filled + k
  OBVIOUS
<1> HIDE DEF cum, fee, status, full
<1>7. /\ p \in Order /\ p.side = o.side /\ p.qty = o.qty /\ p.filled = cum /\ p.status = status
  BY <1>1, <1>4, <1>6 DEF Order
<1>8. /\ d \in SignalData /\ d.kind = "traded" /\ d.id = n /\ d.ref = Ref(n)
      /\ d.cum = cum /\ d.full = full /\ d.fee = fee
  <2>1. /\ Signal("traded", n) \in SignalData /\ Signal("traded", n).kind = "traded"
        /\ Signal("traded", n).id = n /\ Signal("traded", n).ref = Ref(n)
    <3>1. "traded" \in SignalKind
      BY DEF SignalKind
    <3> QED
      BY <1>1, <3>1, SignalType DEF Signal
  <2> QED
    BY <2>1, <1>2, <1>4 DEF SignalData
<1>11. channel' = Append(channel, d)
  BY <1>5 DEF Report, OpInv
<1> HIDE DEF p, d
<1>12. GoesOn(o, p)
  BY <1>3, <1>4, <1>5, <1>6, <1>7 DEF GoesOn
<1>13. Tells(d, o, p, n)
  <2>1. d.full => d.cum = p.qty
    <3>1. full => cum = o.qty
      BY <1>9
    <3> QED
      BY <1>7, <1>8, <3>1
  <2>2. ReportOf(d, p, n)
    <3>1. cum \in Nat /\ 0 < d.cum /\ d.cum <= p.filled
      BY <1>4, <1>7, <1>8
    <3> QED
      BY <1>8, <2>1, <3>1 DEF ReportOf
  <2> QED
    BY <1>4, <1>7, <1>8, <2>2 DEF Tells
<1>14. /\ o.side = "buy" => d.fee = BaseFee[k]
       /\ o.side = "sell" => d.fee = 0
  BY <1>8, <1>9
<1> QED
  BY <1>5, <1>7, <1>8, <1>10, <1>11, <1>12, <1>13, <1>14

\* The end of an order and its report
LEMMA EndOrderTells ==
  ASSUME TypeInv, OpInv, NEW n \in DOMAIN orders, NEW status \in ExchangeEvents, EndOrder(n, status)
  PROVE  \E p \in Order, d \in SignalData :
           /\ orders' = [orders EXCEPT ![n] = p] /\ channel' = Append(channel, d)
           /\ BooksInv => GoesOn(orders[n], p)
           /\ Tells(d, orders[n], p, n)
           /\ p.filled = orders[n].filled /\ p.status = status /\ status # "live"
           /\ d.kind # "traded" /\ d.fee = 0
           /\ d.kind = "rejected" => status = "rejected"
<1> DEFINE o == orders[n]
           p == [o EXCEPT !.status = status]
           d == CASE status = "expired"  -> [Signal("deleted", n) EXCEPT !.ref = None]
                  [] status = "canceled" -> Signal("canceled", n)
                  [] status = "rejected" -> [Signal("rejected", n) EXCEPT !.id = Ref(n), !.ref = None]
<1>1. o \in Order /\ n \in 1 .. MaxOrders /\ n \in 0 .. MaxOrders
  BY OrdersType
<1>2. status \in {"expired", "canceled", "rejected"}
  BY ConstantsAssumption DEF ConstantsAssumption
<1>3. /\ p \in Order /\ p.side = o.side /\ p.qty = o.qty /\ p.filled = o.filled
      /\ p.status = status
  BY <1>1, <1>2 DEF Order, OrderStatus
<1>4. orders' = [orders EXCEPT ![n] = p] /\ Report(d) /\ o.status = "live"
  BY DEF EndOrder, Live
<1>5. channel' = Append(channel, d)
  BY <1>4 DEF Report, OpInv
<1>6. o.filled \in Nat /\ o.qty \in Int
  BY <1>1 DEF Order
<1>7. BooksInv => o.filled <= o.qty
  <2>1. n \in 1 .. Len(orders)
    BY VariablesType
  <2> QED
    BY <2>1 DEF BooksInv, Books, Ledger, Kept
<1> HIDE DEF p
<1>8. BooksInv => GoesOn(o, p)
  BY <1>2, <1>3, <1>4, <1>6, <1>7 DEF GoesOn
<1>9. /\ d \in SignalData /\ ReportOf(d, p, n) /\ d.kind \notin {"opened", "traded"} /\ d.fee = 0
      /\ d.kind = "rejected" => status = "rejected"
  <2>1. \A kind \in SignalKind : Signal(kind, n) \in SignalData
    BY <1>1, SignalType
  <2>2. \A kind \in SignalKind : LET s == Signal(kind, n)
          IN  s.kind = kind /\ s.id = n /\ s.ref = Ref(n) /\ s.fee = 0
    BY DEF Signal
  <2>3. {"deleted", "canceled", "rejected"} \subseteq SignalKind
    BY DEF SignalKind
  <2>4. Ref(n) \in -MaxOrders .. MaxOrders /\ None \in -MaxOrders .. 0
    BY <1>1 DEF Ref, None
  <2>5. CASE status = "expired"
    <3> DEFINE s == Signal("deleted", n)
    <3>1. d = [s EXCEPT !.ref = None]
      BY <2>5
    <3>2. s \in SignalData /\ s.kind = "deleted" /\ s.id = n /\ s.fee = 0
      BY <2>1, <2>2, <2>3
    <3> HIDE DEF s, d
    <3>3. d \in SignalData /\ d.kind = "deleted" /\ d.id = n /\ d.ref = None /\ d.fee = 0
      BY <2>4, <3>1, <3>2 DEF SignalData
    <3> QED
      BY <1>3, <2>5, <3>3 DEF ReportOf
  <2>6. CASE status = "canceled"
    <3>1. d = Signal("canceled", n)
      BY <2>6
    <3> HIDE DEF d
    <3>2. d \in SignalData /\ d.kind = "canceled" /\ d.id = n /\ d.ref = Ref(n) /\ d.fee = 0
      BY <2>1, <2>2, <2>3, <3>1
    <3> QED
      BY <1>3, <2>6, <3>2 DEF ReportOf
  <2>7. CASE status = "rejected"
    <3> DEFINE s == Signal("rejected", n)
    <3>1. d = [s EXCEPT !.id = Ref(n), !.ref = None]
      BY <2>7
    <3>2. s \in SignalData /\ s.kind = "rejected" /\ s.fee = 0
      BY <2>1, <2>2, <2>3
    <3> HIDE DEF s, d
    <3>3. d \in SignalData /\ d.kind = "rejected" /\ d.id = Ref(n) /\ d.ref = None /\ d.fee = 0
      BY <2>4, <3>1, <3>2 DEF SignalData
    <3> QED
      BY <1>3, <2>7, <3>3 DEF ReportOf
  <2> QED
    BY <1>2, <2>5, <2>6, <2>7
<1> HIDE DEF d
<1>10. Tells(d, o, p, n)
  BY <1>3, <1>9 DEF Tells
<1> QED
  BY <1>2, <1>3, <1>4, <1>5, <1>8, <1>9, <1>10

\* The entry command may go on waiting
LEMMA BooksOpening ==
  ASSUME NEW t, NEW os, NEW c, NEW ls, NEW a, NEW b, Books(t, os, c, ls, a), a => b
  PROVE  Books(t, os, c, ls, b)
  BY DEF Books, EntryLeg

\* The exchange's own steps
LEMMA ExchangeBooks ==
  ASSUME TypeInv, BooksInv, OpInv, Exchange
  PROVE  BooksInv' /\ OpInv'
<1>1. /\ UNCHANGED <<trade, listed, op, connected, checked, outages>>
      /\ \E n \in DOMAIN orders, p \in Order, d \in SignalData :
           /\ orders' = [orders EXCEPT ![n] = p] /\ channel' = Append(channel, d)
           /\ GoesOn(orders[n], p) /\ Tells(d, orders[n], p, n)
  <2>1. CASE \E n \in DOMAIN orders, k \in FillSizes : Fill(n, k)
    <3>1. PICK n \in DOMAIN orders, k \in FillSizes : Fill(n, k)
      BY <2>1
    <3>2. UNCHANGED <<trade, listed, op, connected, checked, outages>>
      BY <3>1 DEF Fill
    <3> QED
      BY <3>1, <3>2, FillTells
  <2>2. CASE \E n \in DOMAIN orders, status \in ExchangeEvents : EndOrder(n, status)
    <3>1. PICK n \in DOMAIN orders, status \in ExchangeEvents : EndOrder(n, status)
      BY <2>2
    <3>2. UNCHANGED <<trade, listed, op, connected, checked, outages>>
      BY <3>1 DEF EndOrder
    <3> QED
      BY <3>1, <3>2, EndOrderTells
  <2> QED
    BY <2>1, <2>2 DEF Exchange
<1>2. PICK n \in DOMAIN orders, p \in Order, d \in SignalData :
           /\ orders' = [orders EXCEPT ![n] = p] /\ channel' = Append(channel, d)
           /\ GoesOn(orders[n], p) /\ Tells(d, orders[n], p, n)
  BY <1>1
<1>3. n \in 1 .. Len(orders) /\ orders # <<>>
  BY VariablesType, EmptySeq
<1>4. Books(trade, orders', channel', listed, Opening)
  BY <1>2, <1>3, VariablesType, OrderGoesOn DEF BooksInv
<1>5. BooksInv'
  BY <1>1, <1>4 DEF BooksInv, Opening
<1>6. OpInv'
  BY <1>1, <1>3 DEF OpInv
<1> QED
  BY <1>5, <1>6

\* Without an order the books are empty
LEMMA EmptyBooks ==
  ASSUME NEW t \in Trade, NEW os \in Seq(Order), os = <<>>, NEW c \in Seq(SignalData), Reports(c, os),
         NEW ls, NEW opening, t.e = 0, t.ref["entry"] \in {None, Ref(1)}, t.oid["entry"] = None,
         \A l \in ExitLegs : t.oid[l] = None /\ t.ref[l] = None
  PROVE  Books(t, os, c, ls, opening)
<1>1. \A n \in 1 .. Len(os) : FALSE
  BY EmptySeq
<1>2. \A n \in 2 .. Len(os) : FALSE
  BY EmptySeq
<1>3. Ledger(os, t.oq)
  BY <1>1 DEF Ledger
<1>4. EntryLeg(t, os, opening)
  BY DEF EntryLeg, None
<1>5. Exits(t, os, c, ls)
  BY <1>2, FieldsType DEF Exits
<1> QED
  BY <1>3, <1>4, <1>5 DEF Books

\* The entry command adds the trade and places the entry order, or fails to
LEMMA OpenBooks ==
  ASSUME Undisturbed, TypeInv, TypeInv', BooksInv, OpInv, Open
  PROVE  BooksInv' /\ OpInv'
<1>0. orders = <<>> /\ Len(orders) = 0 /\ Ref(Len(orders) + 1) = Ref(1)
  BY EmptySeq DEF Open
<1>1. PICK tp \in BOOLEAN, sl \in BOOLEAN :
        trade' = [NewTrade EXCEPT !.ref["entry"] = Ref(1), !.oq = Quantity, !.tp = tp, !.sl = sl]
  BY <1>0 DEF Open
<1>2. /\ trade' \in Trade /\ trade'.e = 0 /\ trade'.oq = Quantity /\ trade'.oid = trade.oid
      /\ trade'.ref["entry"] = Ref(1)
      /\ \A l \in ExitLegs : trade'.ref[l] = None /\ trade'.oid[l] = None /\ trade.ref[l] = None
      /\ trade'.oid["entry"] = None
  <2>1. trade' \in Trade
    BY DEF TypeInv, TypeOK
  <2>2. trade = NewTrade
    BY DEF Open
  <2> QED
    BY <1>1, <2>1, <2>2 DEF NewTrade, Legs, ExitLegs, None
<1>3. Reports(channel, orders) /\ trade \in Trade /\ channel \in Seq(SignalData) /\ orders \in Seq(Order)
  BY VariablesType DEF BooksInv, Books
<1>4. op["mutex"].name = "idle" /\ op \in [Thread -> Op]
  BY VariablesType DEF Open, Free
<1>5. UNCHANGED <<connected, checked>>
  BY DEF Open
<1>6. ASSUME NEW name \in {"open_ok", "open_failed"},
             op' = [op EXCEPT !["command"] = Operation(name, <<>>)], name = "open_ok" \/ orders' = <<>>
      PROVE  OpInv' /\ (Opening' <=> name = "open_ok")
  <2>1. op'["command"] = Operation(name, <<>>) /\ op'["mutex"] = op["mutex"]
    BY <1>4, <1>6 DEF Thread
  <2>2. op'["command"].name = name /\ op'["command"].todo = <<>>
    BY <2>1 DEF Operation
  <2>3. ~Frees(op'["mutex"]) /\ op'["mutex"].name \in MutexNames
    BY <1>4, <2>1 DEF Frees, MutexNames
  <2> QED
    BY <1>5, <1>6, <2>2, <2>3 DEF OpInv, CommandNames, Opening
<1>7. CASE Accept("buy", Quantity) /\ op' = [op EXCEPT !["command"] = Operation("open_ok", <<>>)]
  <2> DEFINE d == Signal("opened", 1)
  <2>1. orders' = Append(orders, NewOrder("buy", Quantity)) /\ channel' = Append(channel, d)
    BY <1>0, <1>7 DEF Accept, NewOrder, Report, OpInv
  <2>2. d \in SignalData /\ d.kind = "opened" /\ d.id = 1 /\ d.ref = Ref(1)
    BY SignalType DEF SignalKind, Signal
  <2>3. Quantity \in Nat \ {0}
    BY ConstantsAssumption DEF ConstantsAssumption
  <2> HIDE DEF d
  <2>4. Books(trade', Append(orders, NewOrder("buy", Quantity)), Append(channel, d), listed', TRUE)
    <3>1. \A l \in ExitLegs : trade'.ref[l] = trade.ref[l]
      BY <1>2
    <3>2. Books(trade, orders, channel, listed, Opening)
      BY DEF BooksInv
    <3> QED
      BY <1>0, <1>2, <1>3, <2>2, <2>3, <3>1, <3>2, EntryPlacedBooks
  <2>5. OpInv' /\ Opening'
    BY <1>6, <1>7
  <2>6. Books(trade', orders', channel', listed', TRUE)
    BY <2>1, <2>4
  <2>7. Books(trade', orders', channel', listed', Opening')
    BY <2>5, <2>6 DEF Books, EntryLeg
  <2> QED
    BY <2>5, <2>7 DEF BooksInv
<1>8. CASE Refuse /\ op' = [op EXCEPT !["command"] = Operation("open_failed", <<>>)]
  <2>1. orders' = <<>> /\ channel' = channel /\ orders' = orders
    BY <1>0, <1>8 DEF Refuse
  <2>2. OpInv'
    BY <1>6, <1>8, <2>1
  <2>3. Books(trade', orders, channel, listed', Opening')
    BY <1>0, <1>2, <1>3, EmptyBooks
  <2>4. BooksInv'
    BY <2>1, <2>3 DEF BooksInv
  <2> QED
    BY <2>2, <2>4
<1>9. "lost_reply" \notin ApiFaults
  BY DEF Undisturbed
<1> QED
  BY <1>7, <1>8, <1>9 DEF Open

\* create_order answers open
LEMMA OpenReturnBooks ==
  ASSUME Undisturbed, TypeInv, TypeInv', BooksInv, OpInv, OpenReturn
  PROVE  BooksInv' /\ OpInv'
<1>1. /\ trade \in Trade /\ trade' \in Trade /\ orders # <<>> /\ op \in [Thread -> Op]
  BY VariablesType DEF TypeInv, TypeOK, OpenReturn
<1>2. /\ trade' = [trade EXCEPT !.oid["entry"] = 1]
      /\ op' = [op EXCEPT !["command"] = Idle]
      /\ UNCHANGED <<account, listed, orders, channel, connected, checked, outages>>
  BY DEF OpenReturn, Undisturbed
<1>3. /\ trade'.oid = [trade.oid EXCEPT !["entry"] = 1]
      /\ trade'.oq = trade.oq /\ trade'.ref = trade.ref /\ trade'.qty = trade.qty
      /\ trade'.exec = trade.exec /\ trade'.e = trade.e
  BY <1>1, <1>2 DEF Trade
<1>4. trade'.oid["entry"] = 1 /\ \A l \in ExitLegs : trade'.oid[l] = trade.oid[l]
  BY <1>1, <1>3 DEF Trade, Legs, ExitLegs
<1>5. Books(trade', orders, channel, listed, Opening')
  <2>1. Books(trade, orders, channel, listed, Opening)
    BY DEF BooksInv
  <2> QED
    BY <1>1, <1>3, <1>4, <2>1, EntryNamedBooks
<1>6. BooksInv'
  BY <1>2, <1>5 DEF BooksInv
<1>7. op'["command"] = Idle /\ op'["mutex"] = op["mutex"]
  BY <1>1, <1>2 DEF Thread
<1>8. ToFree(trade, op["mutex"].todo) => ToFree(trade', op'["mutex"].todo)
  BY <1>4, <1>7 DEF ToFree
<1>9. OpInv'
  BY <1>2, <1>7, <1>8 DEF OpInv, Idle, Operation, CommandNames
<1> QED
  BY <1>6, <1>9

---------------------------------------------------------------------------
\* An operation starts, goes on or returns
LEMMA OpMoves ==
  ASSUME TypeInv, OpInv, NEW th \in Thread, NEW o, Start(th, o),
         orders = <<>> => orders' = <<>>,
         \A l \in ExitLegs : trade'.oid[l] = trade.oid[l] \/ trade'.oid[l] = None \/ th = "mutex",
         IF th = "mutex" THEN o.name \in MutexNames /\ (Frees(o) => ToFree(trade', o.todo))
                         ELSE (o.name = "idle" /\ o.todo = <<>>) \/ o.name = "clean",
         UNCHANGED <<connected, checked>>
  PROVE  OpInv'
<1>1. op \in [Thread -> Op] /\ th \in {"mutex", "command"}
  BY VariablesType DEF Thread
<1>2. CASE th = "mutex"
  <2>1. op'["mutex"] = o /\ op'["command"] = op["command"]
    BY <1>1, <1>2 DEF Start, Thread
  <2> QED
    BY <1>2, <2>1 DEF OpInv
<1>3. CASE th = "command"
  <2>1. op'["command"] = o /\ op'["mutex"] = op["mutex"]
    BY <1>1, <1>3 DEF Start, Thread
  <2>2. ToFree(trade, op["mutex"].todo) => ToFree(trade', op["mutex"].todo)
    BY <1>3 DEF ToFree
  <2>3. op'["command"].name \in CommandNames /\ op'["command"].name # "open_failed"
    BY <1>3, <2>1 DEF CommandNames
  <2>4. op'["command"].name # "clean" => op'["command"].todo = <<>>
    BY <1>3, <2>1
  <2> QED
    BY <2>1, <2>2, <2>3, <2>4 DEF OpInv
<1> QED
  BY <1>1, <1>2, <1>3

\* So the command thread is in no operation but the entry and the clean commands
LEMMA CommandIdle ==
  ASSUME TypeInv, OpInv, NEW th \in Thread,
         Pending(th) # {} \/ op[th].name \notin CommandNames
  PROVE  th = "mutex" \/ op[th].name = "clean"
<1> SUFFICES ASSUME th = "command", op[th].name # "clean" PROVE FALSE
  BY DEF Thread
<1>1. op[th].todo = <<>> /\ op[th].name \in CommandNames
  BY DEF OpInv
<1>2. Pending(th) = {}
  BY <1>1, EmptySeq DEF Pending
<1> QED
  BY <1>1, <1>2

\* A step that changes nothing the books are about
LEMMA QuietBooks ==
  ASSUME TypeInv, TypeInv', BooksInv, SameLegs(trade, trade'), trade'.e = trade.e,
         UNCHANGED <<orders, channel>>, listed' => listed, Opening => Opening'
  PROVE  BooksInv'
<1>1. trade \in Trade /\ trade' \in Trade
  BY DEF TypeInv, TypeOK
<1>2. Books(trade, orders, channel, listed, Opening')
  BY BooksOpening DEF BooksInv
<1>3. Books(trade', orders, channel, listed', Opening')
  BY <1>1, <1>2, SameBooks
<1> QED
  BY <1>3 DEF BooksInv

\* The fields that are not about the orders
LEMMA FlagsSame ==
  ASSUME NEW t \in Trade, NEW b \in BOOLEAN
  PROVE  /\ SameLegs(t, t)
         /\ SameLegs(t, [t EXCEPT !.tp = b]) /\ [t EXCEPT !.tp = b].e = t.e
         /\ SameLegs(t, [t EXCEPT !.sl = b]) /\ [t EXCEPT !.sl = b].e = t.e
         /\ SameLegs(t, [t EXCEPT !.dirty = b]) /\ [t EXCEPT !.dirty = b].e = t.e
         /\ \A s : SameLegs(t, [t EXCEPT !.entryState = s]) /\ [t EXCEPT !.entryState = s].e = t.e
  BY DEF SameLegs, Trade

\* The legs the operations that place an exit free
LEMMA FreesExits ==
  ASSUME NEW t, NEW name \in {"take_profit", "stop_loss"}, NEW hard \in BOOLEAN,
         NEW price \in BOOLEAN, NEW dirty \in BOOLEAN
  PROVE  LET o == ModifyOperation(name, hard, price, dirty)
         IN  /\ o.name = name /\ (Frees(o) => ToFree(t, o.todo))
             /\ \A failed : LET p == [o EXCEPT !.failed = failed]
                            IN  p.name = name /\ (Frees(p) => ToFree(t, p.todo))
<1> SUFFICES ASSUME NEW failed
             PROVE  LET o == ModifyOperation(name, hard, price, dirty)
                        p == [o EXCEPT !.failed = failed]
                    IN  /\ o.name = name /\ p.name = name
                        /\ Frees(o) => ToFree(t, o.todo)
                        /\ Frees(p) => ToFree(t, p.todo)
  OBVIOUS
<1> DEFINE own == IF name = "take_profit" THEN "limit" ELSE "stop"
           other == IF name = "take_profit" THEN "stop" ELSE "limit"
           o == ModifyOperation(name, hard, price, dirty)
           p == [o EXCEPT !.failed = failed]
           todo == IF hard THEN <<own, other>> ELSE <<own>>
<1>1. \A l \in ExitLegs : l = own \/ l = other
  BY DEF ExitLegs
<1>2. /\ o.name = name /\ o.hard = hard /\ o.todo = todo
      /\ p.name = name /\ p.hard = hard /\ p.todo = todo
  BY DEF ModifyOperation, Operation
<1>3. name # "close"
  OBVIOUS
<1> HIDE DEF own, other, o, p
<1>4. ToFree(t, <<own, other>>)
  <2>1. /\ Len(<<own, other>>) = 2
        /\ <<own, other>>[1] = own /\ <<own, other>>[2] = other /\ 1 \in 1 .. 2 /\ 2 \in 1 .. 2
    OBVIOUS
  <2> QED
    BY <1>1, <2>1 DEF ToFree
<1>5. hard => todo = <<own, other>>
  OBVIOUS
<1> HIDE DEF todo
<1>6. /\ Frees(o) => ToFree(t, o.todo)
      /\ Frees(p) => ToFree(t, p.todo)
  BY <1>2, <1>3, <1>4, <1>5 DEF Frees
<1> QED
  BY <1>2, <1>6 DEF o, p

\* close frees both exit legs, and what the other operations do with them is no matter
LEMMA OtherFrees ==
  ASSUME NEW t
  PROVE  /\ CloseOperation.name = "close" /\ ToFree(t, CloseOperation.todo)
         /\ \A name, todo : Operation(name, todo).name = name /\ Operation(name, todo).todo = todo
         /\ \A o : o.name \in MutexNames \ {"close", "take_profit", "stop_loss"} => ~Frees(o)
<1>1. ToFree(t, <<"entry", "limit", "stop">>)
  <2>1. LET s == <<"entry", "limit", "stop">>
        IN  Len(s) = 3 /\ s[2] = "limit" /\ s[3] = "stop" /\ 2 \in 1 .. 3 /\ 3 \in 1 .. 3
    OBVIOUS
  <2> QED
    BY <2>1 DEF ToFree, ExitLegs
<1> QED
  BY <1>1 DEF CloseOperation, Operation, Frees, MutexNames

\* A step under the mutex that changes nothing the books are about
LEMMA QuietStep ==
  ASSUME TypeInv, TypeInv', BooksInv, OpInv, NEW o, Start("mutex", o),
         SameLegs(trade, trade'), trade'.e = trade.e, UNCHANGED <<orders, channel, connected, checked>>,
         listed' => listed, o.name \in MutexNames, Frees(o) => ToFree(trade', o.todo)
  PROVE  BooksInv' /\ OpInv'
<1>1. op \in [Thread -> Op] /\ "mutex" \in Thread /\ "command" \in Thread
  BY VariablesType
<1>2. op'["command"] = op["command"]
  BY <1>1 DEF Start
<1>3. Opening => Opening'
  BY <1>2 DEF Opening
<1>4. \A l \in ExitLegs : trade'.oid[l] = trade.oid[l] \/ trade'.oid[l] = None \/ "mutex" = "mutex"
  OBVIOUS
<1>5. OpInv'
  BY <1>1, <1>4, OpMoves
<1>6. BooksInv'
  BY <1>3, QuietBooks
<1> QED
  BY <1>5, <1>6

\* An operation starts under the mutex
LEMMA StartBooks ==
  ASSUME TypeInv, TypeInv', BooksInv, OpInv, CancelOpen \/ Close \/ SoftClose \/ Terminate
  PROVE  BooksInv' /\ OpInv'
<1>1. /\ UNCHANGED <<trade, listed, orders, channel, connected, checked>>
      /\ \E o : /\ Start("mutex", o)
                /\ \/ o = CloseOperation
                   \/ o = Operation("cancel_open", <<"entry">>)
                   \/ o = Operation("terminate", <<"entry", "stop", "limit">>)
  BY DEF CancelOpen, Close, SoftClose, Terminate
<1>2. PICK o : /\ Start("mutex", o)
               /\ \/ o = CloseOperation
                  \/ o = Operation("cancel_open", <<"entry">>)
                  \/ o = Operation("terminate", <<"entry", "stop", "limit">>)
  BY <1>1
<1>3. o.name \in MutexNames /\ (Frees(o) => ToFree(trade, o.todo))
  BY <1>2, OtherFrees DEF MutexNames
<1>4. SameLegs(trade, trade') /\ trade'.e = trade.e /\ trade' = trade
  BY <1>1, FlagsSame, VariablesType
<1> QED
  BY <1>1, <1>2, <1>3, <1>4, QuietStep

\* The clean command starts, update_trades drops the trade
LEMMA CleanBooks ==
  ASSUME TypeInv, TypeInv', BooksInv, OpInv, Clean \/ CleanupTrades
  PROVE  BooksInv' /\ OpInv'
<1>1. UNCHANGED <<trade, orders, channel, connected, checked>> /\ (listed' => listed)
  BY DEF Clean, CleanupTrades
<1>2. SameLegs(trade, trade') /\ trade'.e = trade.e /\ trade' = trade
  BY <1>1, FlagsSame, VariablesType
<1>3. CASE CleanupTrades
  <2>1. UNCHANGED op
    BY <1>3 DEF CleanupTrades
  <2>2. Opening => Opening'
    BY <2>1 DEF Opening
  <2>3. BooksInv'
    BY <1>1, <1>2, <2>2, QuietBooks
  <2> QED
    BY <1>1, <1>2, <2>1, <2>3 DEF OpInv
<1>4. CASE Clean
  <2> DEFINE o == Operation("clean", <<"entry", "stop", "limit">>)
  <2>1. Start("command", o) /\ o.name = "clean" /\ "command" \in Thread /\ op["command"].name = "idle"
    BY <1>4, OtherFrees, VariablesType DEF Clean, Free
  <2> HIDE DEF o
  <2>2. OpInv'
    BY <1>1, <1>2, <2>1, OpMoves
  <2>3. Opening => Opening'
    BY <2>1 DEF Opening
  <2>4. BooksInv'
    BY <1>1, <1>2, <2>3, QuietBooks
  <2> QED
    BY <2>2, <2>4
<1> QED
  BY <1>3, <1>4

\* A modification starts, or sets a price
LEMMA ModifyBooks ==
  ASSUME TypeInv, TypeInv', BooksInv, OpInv, NEW name \in {"take_profit", "stop_loss"}, Modify(name)
  PROVE  BooksInv' /\ OpInv'
<1>1. /\ UNCHANGED <<listed, orders, channel, connected, checked>>
      /\ \E hard, price \in BOOLEAN :
           \/ Start("mutex", ModifyOperation(name, hard, price, FALSE)) /\ UNCHANGED trade
           \/ trade' = [trade EXCEPT !.tp = price] /\ UNCHANGED op
           \/ trade' = [trade EXCEPT !.sl = price] /\ UNCHANGED op
  BY DEF Modify
<1>2. PICK hard \in BOOLEAN, price \in BOOLEAN :
           \/ Start("mutex", ModifyOperation(name, hard, price, FALSE)) /\ UNCHANGED trade
           \/ trade' = [trade EXCEPT !.tp = price] /\ UNCHANGED op
           \/ trade' = [trade EXCEPT !.sl = price] /\ UNCHANGED op
  BY <1>1
<1>3. SameLegs(trade, trade') /\ trade'.e = trade.e /\ trade'.oid = trade.oid
  <2>1. trade \in Trade
    BY VariablesType
  <2>2. \/ trade' = trade \/ trade' = [trade EXCEPT !.tp = price] \/ trade' = [trade EXCEPT !.sl = price]
    BY <1>2
  <2>3. SameLegs(trade, trade') /\ trade'.e = trade.e
    <3>1. /\ SameLegs(trade, trade)
          /\ SameLegs(trade, [trade EXCEPT !.tp = price]) /\ [trade EXCEPT !.tp = price].e = trade.e
          /\ SameLegs(trade, [trade EXCEPT !.sl = price]) /\ [trade EXCEPT !.sl = price].e = trade.e
      BY <2>1, FlagsSame
    <3>2. CASE trade' = trade
      BY <3>1, <3>2
    <3>3. CASE trade' = [trade EXCEPT !.tp = price]
      BY <3>1, <3>3, Zenon
    <3>4. CASE trade' = [trade EXCEPT !.sl = price]
      BY <3>1, <3>4, Zenon
    <3> QED
      BY <2>2, <3>2, <3>3, <3>4
  <2> QED
    BY <2>3 DEF SameLegs
<1>4. CASE Start("mutex", ModifyOperation(name, hard, price, FALSE)) /\ UNCHANGED trade
  <2> DEFINE no == FALSE
             o == ModifyOperation(name, hard, price, no)
  <2>0. no \in BOOLEAN
    OBVIOUS
  <2> HIDE DEF no
  <2>1. o.name = name /\ (Frees(o) => ToFree(trade', o.todo))
    <3> DEFINE u == trade'
    <3>1. hard \in BOOLEAN /\ price \in BOOLEAN /\ name \in {"take_profit", "stop_loss"}
      OBVIOUS
    <3> HIDE DEF u
    <3>2. o.name = name /\ (Frees(o) => ToFree(u, o.todo))
      BY ONLY <2>0, <3>1, FreesExits
    <3> QED
      BY <3>2 DEF u
  <2> HIDE DEF o
  <2>2. Start("mutex", o) /\ o.name \in MutexNames
    BY <1>4, <2>1 DEF MutexNames, o, no
  <2> QED
    BY <1>1, <1>3, <2>1, <2>2, QuietStep
<1>5. CASE UNCHANGED op
  <2>1. Opening => Opening'
    BY <1>5 DEF Opening
  <2>2. BooksInv'
    BY <1>1, <1>3, <2>1, QuietBooks
  <2>3. ToFree(trade, op["mutex"].todo) => ToFree(trade', op["mutex"].todo)
    BY <1>3 DEF ToFree
  <2>4. OpInv'
    BY <1>1, <1>5, <2>3 DEF OpInv
  <2> QED
    BY <2>2, <2>4
<1> QED
  BY <1>2, <1>4, <1>5

\* The steps of update_dirty
LEMMA UpdateDirtyBooks ==
  ASSUME TypeInv, TypeInv', BooksInv, OpInv, UpdateDirty \/ UpdateDirtyStop \/ UpdateDirtyDone
  PROVE  BooksInv' /\ OpInv'
<1>1. UNCHANGED <<listed, orders, channel, connected, checked>>
  BY DEF UpdateDirty, UpdateDirtyStop, UpdateDirtyDone
<1>2. SameLegs(trade, trade') /\ trade'.e = trade.e
  <2>1. trade \in Trade /\ op["mutex"].failed \in BOOLEAN
    BY VariablesType DEF Op
  <2>2. trade' = trade \/ trade' = [trade EXCEPT !.dirty = op["mutex"].failed]
    BY DEF UpdateDirty, UpdateDirtyStop, UpdateDirtyDone
  <2> QED
    BY <2>1, <2>2, FlagsSame, Zenon
<1>3. \E o : Start("mutex", o) /\ o.name \in MutexNames /\ (Frees(o) => ToFree(trade', o.todo))
  <2>1. {"dirty_stop", "dirty_done", "idle", "close", "take_profit", "stop_loss"} \subseteq MutexNames
    BY DEF MutexNames
  <2>2. CASE UpdateDirty
    <3>1. \/ Start("mutex", ModifyOperation("take_profit", TRUE, TRUE, TRUE))
          \/ Start("mutex", Operation("dirty_stop", <<>>))
      BY <2>2 DEF UpdateDirty
    <3>2. CASE Start("mutex", ModifyOperation("take_profit", TRUE, TRUE, TRUE))
      <4> DEFINE o == ModifyOperation("take_profit", TRUE, TRUE, TRUE)
      <4>1. o.name = "take_profit" /\ (Frees(o) => ToFree(trade', o.todo))
        BY FreesExits, Zenon
      <4> HIDE DEF o
      <4> QED
        BY <2>1, <3>2, <4>1 DEF o
    <3>3. CASE Start("mutex", Operation("dirty_stop", <<>>))
      BY <2>1, <3>3, OtherFrees
    <3> QED
      BY <3>1, <3>2, <3>3
  <2>3. CASE UpdateDirtyStop
    <3> DEFINE failed == op["mutex"].failed
               p == [ModifyOperation("stop_loss", TRUE, TRUE, TRUE) EXCEPT !.failed = failed]
               q == [op["mutex"] EXCEPT !.name = "dirty_done"]
    <3>1. Start("mutex", p) \/ Start("mutex", q)
      BY <2>3 DEF UpdateDirtyStop
    <3>2. q.name = "dirty_done"
      BY VariablesType DEF Op
    <3> HIDE DEF failed
    <3>3. p.name = "stop_loss" /\ (Frees(p) => ToFree(trade', p.todo))
      BY FreesExits
    <3> HIDE DEF p, q
    <3>4. ~Frees(q)
      BY <2>1, <3>2, OtherFrees
    <3> QED
      BY <2>1, <3>1, <3>2, <3>3, <3>4
  <2>4. CASE UpdateDirtyDone
    <3>1. Start("mutex", Idle) \/ Start("mutex", CloseOperation)
      BY <2>4 DEF UpdateDirtyDone
    <3> QED
      BY <2>1, <3>1, OtherFrees DEF Idle
  <2> QED
    BY <2>2, <2>3, <2>4
<1>4. listed' => listed
  BY <1>1
<1> QED
  BY <1>1, <1>2, <1>3, <1>4, QuietStep

\* create_order failed: the trade leaves the list
LEMMA OpenFailedBooks ==
  ASSUME TypeInv, TypeInv', BooksInv, OpInv, OpenFailed
  PROVE  BooksInv' /\ OpInv'
<1>1. /\ Start("command", Idle) /\ UNCHANGED <<orders, channel, connected, checked>>
      /\ trade' = [trade EXCEPT !.entryState = "rejected"] /\ listed' = FALSE
      /\ op["command"].name = "open_failed"
  BY DEF OpenFailed, Start
<1>2. SameLegs(trade, trade') /\ trade'.e = trade.e /\ trade'.oid = trade.oid
  BY <1>1, FlagsSame, VariablesType DEF SameLegs
<1>3. Idle.name = "idle" /\ Idle.todo = <<>> /\ "command" \in Thread
  BY VariablesType DEF Idle, Operation
<1>4. OpInv'
  BY <1>1, <1>2, <1>3, OpMoves
<1>5. Opening => Opening'
  BY <1>1 DEF Opening
<1>6. BooksInv'
  BY <1>1, <1>2, <1>5, QuietBooks
<1> QED
  BY <1>4, <1>6

---------------------------------------------------------------------------
\* The operation that returned places no exit
LEMMA ReturnFrees ==
  ASSUME TypeInv, NEW th \in Thread, NEW negative \in BOOLEAN, Return(th, negative)
  PROVE  \E o : /\ Start(th, o) /\ o.name \in {"idle", "dirty_stop", "dirty_done"}
                /\ ~Frees(o) /\ o.name \in MutexNames
<1>1. op \in [Thread -> Op]
  BY VariablesType
<1>2. PICK o \in Op : /\ op' = [op EXCEPT ![th] = o]
                      /\ o.name \in {"idle", "dirty_stop", "dirty_done"}
  BY <1>1, ReturnType
<1>3. ~Frees(o) /\ o.name \in MutexNames
  BY <1>2 DEF Frees, MutexNames
<1> QED
  BY <1>2, <1>3 DEF Start

\* The last steps that place no order
LEMMA LastBooks ==
  ASSUME TypeInv, TypeInv', BooksInv, OpInv, NEW th \in Thread,
         NothingToExit(th) \/ SoftPrice(th) \/ Unlist(th) \/ Finish(th)
  PROVE  BooksInv' /\ OpInv'
<1>1. /\ UNCHANGED <<orders, channel, connected>> /\ (listed' => listed)
      /\ Return(th, FALSE) \/ Start(th, Idle)
  <2>1. UNCHANGED <<orders, channel, connected>> /\ (Return(th, FALSE) \/ Start(th, Idle))
    BY DEF NothingToExit, SoftPrice, Unlist, Finish
  <2>2. CASE Unlist(th)
    <3>1. listed' = (listed /\ op[th].name = "terminate" /\ op[th].failed)
      BY <2>2 DEF Unlist
    <3>2. listed' => listed
      BY <3>1, Zenon
    <3> QED
      BY <2>1, <3>2
  <2>3. CASE ~Unlist(th)
    <3>1. UNCHANGED listed
      BY <2>3 DEF NothingToExit, SoftPrice, Finish
    <3> QED
      BY <2>1, <3>1
  <2> QED
    BY <2>2, <2>3
<1>2. checked' = checked
  BY DEF OpInv, NothingToExit, SoftPrice, Unlist, Finish
<1>3. SameLegs(trade, trade') /\ trade'.e = trade.e /\ trade'.oid = trade.oid
  <2>1. trade \in Trade /\ op[th].price \in BOOLEAN
    BY VariablesType DEF Op
  <2>2. /\ SameLegs(trade, trade)
        /\ SameLegs(trade, [trade EXCEPT !.tp = op[th].price])
        /\ [trade EXCEPT !.tp = op[th].price].e = trade.e
        /\ SameLegs(trade, [trade EXCEPT !.sl = op[th].price])
        /\ [trade EXCEPT !.sl = op[th].price].e = trade.e
    BY <2>1, FlagsSame
  <2>3. \/ trade' = trade
        \/ trade' = [trade EXCEPT !.tp = op[th].price]
        \/ trade' = [trade EXCEPT !.sl = op[th].price]
    BY DEF NothingToExit, SoftPrice, Unlist, Finish
  <2>4. SameLegs(trade, trade') /\ trade'.e = trade.e
    <3>1. CASE trade' = trade
      BY <2>2, <3>1
    <3>2. CASE trade' = [trade EXCEPT !.tp = op[th].price]
      BY <2>2, <3>2, Zenon
    <3>3. CASE trade' = [trade EXCEPT !.sl = op[th].price]
      BY <2>2, <3>3, Zenon
    <3> QED
      BY <2>3, <3>1, <3>2, <3>3
  <2> QED
    BY <2>4 DEF SameLegs
<1>4. Idle.name = "idle" /\ Idle.todo = <<>> /\ ~Frees(Idle) /\ Idle.name \in MutexNames
  BY DEF Idle, Operation, Frees, MutexNames
<1>5. CASE th = "mutex"
  <2> DEFINE no == FALSE
  <2>1. no \in BOOLEAN /\ (Return(th, no) \/ Start(th, Idle))
    BY <1>1
  <2> HIDE DEF no
  <2>2. \E o : Start(th, o) /\ ~Frees(o) /\ o.name \in MutexNames
    BY <1>4, <2>1, ReturnFrees
  <2>3. PICK o : Start("mutex", o) /\ ~Frees(o) /\ o.name \in MutexNames
    BY <1>5, <2>2
  <2> QED
    BY <1>1, <1>2, <1>3, <2>3, QuietStep
<1>6. CASE th = "command"
  <2>1. op[th].name \in CommandNames
    BY <1>6 DEF OpInv
  <2>2. Start(th, Idle) /\ op[th].name # "open_ok"
    BY <1>1, <2>1 DEF CommandNames, NothingToExit, SoftPrice, Unlist, Finish, Last, Removals
  <2>3. OpInv'
    BY <1>1, <1>2, <1>3, <1>4, <1>6, <2>2, OpMoves
  <2>4. Opening => Opening'
    BY <1>6, <2>2 DEF Opening
  <2>5. BooksInv'
    BY <1>1, <1>3, <2>4, QuietBooks
  <2> QED
    BY <2>3, <2>5
<1> QED
  BY <1>5, <1>6 DEF Thread

\* The identifier of a leg is that of an order
LEMMA LegOrder ==
  ASSUME TypeInv, BooksInv, NEW l \in Legs, HasOrder(trade, l)
  PROVE  /\ trade.oid[l] \in 1 .. Len(orders) /\ trade.oid[l] \in 1 .. MaxOrders
         /\ OrderOf(trade.oid[l]) = trade.oid[l] /\ Known(trade, l)
         /\ trade.oid[l] # None /\ orders # <<>>
         /\ l = "entry" => trade.oid[l] = 1
         /\ l # "entry" => l \in ExitLegs /\ trade.oid[l] \in 2 .. Len(orders)
                           /\ LegOf(trade, l, orders, channel, listed, trade.oid[l])
<1>1. /\ trade \in Trade /\ orders \in Seq(Order) /\ Len(orders) \in Nat
      /\ \A n \in 1 .. Len(orders) : n \in 1 .. MaxOrders
  BY VariablesType
<1>2. trade.oid[l] # None
  BY DEF HasOrder
<1>3. CASE l = "entry"
  <2>1. trade.oid[l] = 1 /\ orders # <<>>
    BY <1>2, <1>3 DEF BooksInv, Books, EntryLeg
  <2>2. Len(orders) # 0
    BY <1>1, <2>1, EmptySeq
  <2>3. 1 \in 1 .. Len(orders) /\ 1 \in 1 .. MaxOrders
    BY <1>1, <2>2
  <2> QED
    BY <1>2, <1>3, <2>1, <2>3 DEF OrderOf, Known
<1>4. CASE l # "entry"
  <2>1. l \in ExitLegs
    BY <1>4 DEF Legs, ExitLegs
  <2>2. LegOf(trade, l, orders, channel, listed, trade.oid[l])
    BY <1>2, <2>1 DEF BooksInv, Books, Exits
  <2>3. trade.oid[l] \in 2 .. Len(orders)
    BY <2>2 DEF LegOf
  <2>4. trade.oid[l] \in 1 .. Len(orders) /\ trade.oid[l] \in 1 .. MaxOrders
    BY <1>1, <2>3
  <2>5. orders # <<>>
    BY <1>1, <2>3, EmptySeq
  <2> QED
    BY <1>2, <1>4, <2>1, <2>2, <2>3, <2>4, <2>5 DEF OrderOf, Known
<1> QED
  BY <1>3, <1>4

\* What a removal that goes on, after a failure, does of its legs is no matter
LEMMA AdvanceMoves ==
  ASSUME TypeInv, NEW th \in Thread, Pending(th) # {}, NEW failed \in BOOLEAN, Advance(th, failed)
  PROVE  \E o \in Op : /\ Start(th, o) /\ o.name = op[th].name
                       /\ o.hard = op[th].hard /\ o.price = op[th].price
                       /\ o.todo = SubSeq(op[th].todo, NextPlace(th) + 1, Len(op[th].todo))
<1>1. op \in [Thread -> Op] /\ op[th] \in Op
  BY VariablesType
<1> DEFINE rest == SubSeq(op[th].todo, NextPlace(th) + 1, Len(op[th].todo))
           o == [op[th] EXCEPT !.todo = rest, !.failed = @ \/ failed]
<1>2. op' = [op EXCEPT ![th] = o]
  BY DEF Advance, Start
<1> HIDE DEF rest
<1>3. o.name = op[th].name /\ o.hard = op[th].hard /\ o.price = op[th].price /\ o.todo = rest
  BY <1>1 DEF Op
<1>4. op' \in [Thread -> Op]
  BY <1>1, AdvanceType
<1> HIDE DEF o
<1>5. o \in Op
  BY <1>1, <1>2, <1>4
<1> QED
  BY <1>2, <1>3, <1>5 DEF Start, rest

\* cancel_order fails and order_info knows the order, or fails too: nothing but the
\* operation changes
LEMMA CancelRefusedBooks ==
  ASSUME Undisturbed, TypeInv, TypeInv', BooksInv, OpInv, NEW th \in Thread, CancelRefused(th)
  PROVE  BooksInv' /\ OpInv'
<1> DEFINE l == op[th].todo[NextPlace(th)]
<1>1. l \in Legs /\ HasOrder(trade, l) /\ Pending(th) # {} /\ op \in [Thread -> Op]
  BY VariablesType, NextPlaceType DEF CancelRefused
<1>2. Known(trade, l)
  BY <1>1, LegOrder
<1>3. /\ UNCHANGED <<trade, orders, channel, listed, connected, checked>>
      /\ IF op[th].name \in Removals THEN Advance(th, TRUE) ELSE Return(th, TRUE)
  BY <1>2 DEF CancelRefused, Undisturbed
<1>4. trade' = trade /\ SameLegs(trade, trade') /\ trade'.e = trade.e
  BY <1>3 DEF SameLegs
<1>5. \E o : /\ Start(th, o) /\ ~Frees(o)
             /\ \/ op[th].name \in Removals /\ o.name = op[th].name
                \/ op[th].name \notin Removals /\ o.name \in MutexNames
  <2> DEFINE yes == TRUE
  <2>1. /\ yes \in BOOLEAN
        /\ IF op[th].name \in Removals THEN Advance(th, yes) ELSE Return(th, yes)
    BY <1>3
  <2> HIDE DEF yes
  <2>2. CASE op[th].name \in Removals
    <3>1. PICK o \in Op : Start(th, o) /\ o.name = op[th].name
      BY <1>1, <2>1, <2>2, AdvanceMoves
    <3>2. ~Frees(o)
      BY <2>2, <3>1 DEF Frees, Removals
    <3> QED
      BY <2>2, <3>1, <3>2
  <2>3. CASE op[th].name \notin Removals
    BY <2>1, <2>3, ReturnFrees
  <2> QED
    BY <2>2, <2>3
<1>6. PICK o : /\ Start(th, o) /\ ~Frees(o)
               /\ \/ op[th].name \in Removals /\ o.name = op[th].name
                  \/ op[th].name \notin Removals /\ o.name \in MutexNames
  BY <1>5
<1>7. CASE th = "mutex"
  <2>1. o.name \in MutexNames
    BY <1>6, <1>7 DEF OpInv
  <2> QED
    BY <1>3, <1>4, <1>6, <1>7, <2>1, QuietStep
<1>8. CASE th # "mutex"
  <2>1. op[th].name = "clean" /\ o.name = "clean"
    BY <1>1, <1>6, <1>8, CommandIdle DEF Removals
  <2>2. OpInv'
    BY <1>3, <1>4, <1>6, <1>8, <2>1, OpMoves
  <2>3. th = "command"
    BY <1>8 DEF Thread
  <2>4. Opening => Opening'
    BY <2>1, <2>3 DEF Opening
  <2>5. BooksInv'
    BY <1>3, <1>4, <2>4, QuietBooks
  <2> QED
    BY <2>2, <2>5
<1> QED
  BY <1>7, <1>8

\* The steps that never happen when nothing is lost
LEMMA NeverBooks ==
  ASSUME Undisturbed, TypeInv, BooksInv, OpInv, NEW th \in Thread
  PROVE  /\ ~WatcherConnected /\ ~Resize /\ ~Check /\ ~CheckTrades
         /\ ~Disconnect /\ ~Reconnect /\ ~Restart /\ ~CheckLeg(th) /\ ~Reopen(th)
<1>1. ~WatcherConnected
  <2> SUFFICES ASSUME channel # <<>>, Head(channel).kind = "connected" PROVE FALSE
    BY DEF WatcherConnected
  <2>1. Reports(channel, orders) /\ channel \in Seq(SignalData)
    BY VariablesType DEF BooksInv, Books
  <2>2. 1 \in 1 .. Len(channel) /\ Head(channel) = channel[1]
    BY <2>1, TailElements
  <2>3. PICK n : ReportOf(channel[1], orders[n], n)
    BY <2>1, <2>2 DEF Reports
  <2> QED
    BY <2>2, <2>3 DEF ReportOf
<1>2. ~Resize /\ ~Check
  BY DEF Resize, Check, Ready, Undisturbed
<1>3. ~CheckTrades
  BY DEF CheckTrades, OpInv
<1>4. ~Reconnect
  BY DEF Reconnect, OpInv
<1>5. ~Disconnect /\ ~Restart
  <2>1. outages \in Nat /\ MaxOutages = 0
    BY DEF TypeInv, TypeOK, Undisturbed
  <2> QED
    BY <2>1 DEF Disconnect, Restart
<1>6. op[th].name \notin {"check", "recheck", "resize"}
  <2>1. th = "mutex" \/ th = "command"
    BY DEF Thread
  <2> QED
    BY <2>1 DEF OpInv, CommandNames, MutexNames
<1>7. ~CheckLeg(th)
  BY <1>6 DEF CheckLeg, Checks
<1>8. ~Reopen(th)
  BY <1>6 DEF Reopen, Last
<1> QED
  BY <1>1, <1>2, <1>3, <1>4, <1>5, <1>7, <1>8

---------------------------------------------------------------------------
\* The strategy thread takes a report and gives it to the trade, if it is in the list and
\* the report is about it
LEMMA DeliverBooks ==
  ASSUME TypeInv, BooksInv, OpInv, DeliverSignal
  PROVE  BooksInv' /\ OpInv'
<1>1. /\ trade \in Trade /\ orders \in Seq(Order) /\ channel \in Seq(SignalData) /\ channel # <<>>
      /\ op \in [Thread -> Op]
  BY VariablesType DEF DeliverSignal
<1>2. /\ channel' = Tail(channel) /\ UNCHANGED <<listed, orders, connected, checked>>
      /\ op["mutex"].name = "idle"
  BY DEF DeliverSignal, Free
<1>3. Books(trade, orders, channel, listed, Opening)
  BY DEF BooksInv
<1>4. /\ UNCHANGED op \/ Start("mutex", Operation("finalize", <<"entry", "stop", "limit">>))
      /\ IF listed /\ IsTargetOrder(trade, Head(channel))
         THEN trade' = OrderSignal(trade, Head(channel)) ELSE trade' = trade
  BY DEF DeliverSignal
<1>5. Books(trade', orders, Tail(channel), listed, Opening)
  <2>1. CASE listed /\ IsTargetOrder(trade, Head(channel))
    BY <1>1, <1>3, <1>4, <2>1, DeliveredBooks
  <2>2. CASE ~(listed /\ IsTargetOrder(trade, Head(channel)))
    BY <1>1, <1>3, <1>4, <2>2, IgnoredBooks
  <2> QED
    BY <2>1, <2>2
<1>6. /\ op'["command"] = op["command"]
      /\ op'["mutex"].name \in {"idle", "finalize"}
  <2>1. CASE UNCHANGED op
    BY <1>2, <2>1
  <2>2. CASE Start("mutex", Operation("finalize", <<"entry", "stop", "limit">>))
    BY <1>1, <2>2 DEF Start, Operation, Thread
  <2> QED
    BY <1>4, <2>1, <2>2
<1>7. OpInv'
  BY <1>2, <1>6 DEF OpInv, Frees, MutexNames
<1>8. Opening' = Opening
  BY <1>6 DEF Opening
<1>9. BooksInv'
  <2>1. Books(trade', orders, Tail(channel), listed, Opening')
    BY <1>5, <1>8, BooksOpening
  <2> QED
    BY <1>2, <2>1 DEF BooksInv
<1> QED
  BY <1>7, <1>9

\* The legs before the next one have no order
LEMMA NextPlaceFirst ==
  ASSUME NEW th \in Thread, op \in [Thread -> Op], Pending(th) # {}
  PROVE  \A j \in Pending(th) : NextPlace(th) <= j
<1> DEFINE todo == op[th].todo
<1>1. todo \in Seq(Legs) /\ Len(todo) \in Nat /\ Len(todo) <= 3
  BY TodoType
<1>2. Pending(th) \subseteq {1, 2, 3}
  BY <1>1 DEF Pending
<1>3. \E i \in Pending(th) : \A j \in Pending(th) : i <= j
  <2>1. CASE 1 \in Pending(th)
    BY <1>2, <2>1
  <2>2. CASE 1 \notin Pending(th) /\ 2 \in Pending(th)
    BY <1>2, <2>2
  <2>3. CASE 1 \notin Pending(th) /\ 2 \notin Pending(th)
    BY <1>2, <2>3
  <2> QED
    BY <2>1, <2>2, <2>3
<1> QED
  BY <1>3 DEF NextPlace

\* Once the next leg is freed the operation has the ones after it to free
LEMMA AdvanceFrees ==
  ASSUME NEW th \in Thread, op \in [Thread -> Op], Pending(th) # {}, ToFree(trade, op[th].todo),
         NEW u, NEW l, l = op[th].todo[NextPlace(th)],
         \A k \in ExitLegs : u.oid[k] = None \/ (u.oid[k] = trade.oid[k] /\ k # l)
  PROVE  ToFree(u, SubSeq(op[th].todo, NextPlace(th) + 1, Len(op[th].todo)))
<1> DEFINE todo == op[th].todo
           m == NextPlace(th)
           rest == SubSeq(todo, m + 1, Len(todo))
           len == Len(todo)
<1>1. todo \in Seq(Legs) /\ len \in Nat /\ m \in 1 .. len
  BY TodoType, NextPlaceType
<1>2. DOMAIN todo = 1 .. len
  BY <1>1, LenProperties
<1>3. \A i \in m + 1 .. len : todo[i] \in Legs
  BY <1>1, ElementOfSeq
<1> HIDE DEF m
<1>4. \A j \in 1 .. len : HasOrder(trade, todo[j]) => m <= j
  BY <1>2, NextPlaceFirst DEF Pending, m
<1>10. l = todo[m]
  BY DEF m
<1> HIDE DEF todo, len
<1>5. /\ Len(rest) = IF m + 1 <= len THEN len - m ELSE 0
      /\ \A i \in 1 .. len - m : rest[i] = todo[i + m]
  <2> DEFINE a == m + 1
  <2>1. a \in Int /\ len \in Int /\ \A i \in a .. len : todo[i] \in Legs
    BY <1>1, <1>3
  <2> HIDE DEF a
  <2>2. /\ Len(SubSeq(todo, a, len)) = IF a <= len THEN len - a + 1 ELSE 0
        /\ \A i \in 1 .. len - a + 1 : SubSeq(todo, a, len)[i] = todo[a + i - 1]
    BY <2>1, SubSeqProperties
  <2>3. a = m + 1 /\ len - a + 1 = len - m
    BY <1>1 DEF a
  <2>4. ASSUME NEW i \in 1 .. len - m PROVE SubSeq(todo, a, len)[i] = todo[i + m]
    <3>1. a + i - 1 = i + m /\ i \in 1 .. len - a + 1
      BY <1>1, <2>3
    <3> QED
      BY <2>2, <3>1
  <2>5. rest = SubSeq(todo, a, len)
    BY DEF a, len
  <2> HIDE DEF rest
  <2> QED
    BY <2>2, <2>3, <2>4, <2>5
<1> HIDE DEF rest
<1>6. ASSUME NEW k \in ExitLegs, u.oid[k] # None
      PROVE  \E i \in 1 .. Len(rest) : rest[i] = k
  <2>1. u.oid[k] = trade.oid[k] /\ k # l
    BY <1>6
  <2>2. PICK i \in 1 .. len : todo[i] = k
    BY <1>6, <2>1 DEF ToFree, todo, len
  <2>3. m <= i /\ i # m
    BY <1>4, <1>6, <1>10, <2>1, <2>2 DEF HasOrder
  <2>4. i - m \in 1 .. len - m /\ i - m \in 1 .. Len(rest) /\ (i - m) + m = i
    BY <1>1, <1>5, <2>3
  <2>5. rest[i - m] = k
    BY <1>5, <2>2, <2>4
  <2> QED
    BY <2>4, <2>5
<1>7. ToFree(u, rest)
  BY <1>6 DEF ToFree
<1> QED
  BY <1>7 DEF rest, todo, len, m

\* What order_info showed of a canceled order is counted and the leg loses it
LEMMA CheckFrees ==
  ASSUME NEW t \in Trade, NEW os \in Seq(Order), NEW c, NEW ls, NEW opening,
         Books(t, os, c, ls, opening), NEW l \in Legs, NEW n, n = t.oid[l], n # None,
         NEW o \in Order, n \in 1 .. MaxOrders
  PROVE  CheckAndReset(t, l, n, o) \in Trade /\ Freed(t, CheckAndReset(t, l, n, o), l)
<1>1. \E w \in Trade : w = CheckAndReset(t, l, n, o) /\ Freed(t, w, l)
  BY CheckAndResetFrees
<1> QED
  BY <1>1

\* cancel_order succeeds: what the order executed, when order_info shows it, is counted and
\* the leg loses its order
LEMMA CancelAcceptedShape ==
  ASSUME Undisturbed, TypeInv, BooksInv, OpInv, NEW th \in Thread, CancelAccepted(th)
  PROVE  \E l \in Legs, n \in 1 .. Len(orders), p \in Order, d \in SignalData, v \in Trade :
           /\ l = op[th].todo[NextPlace(th)] /\ n = trade.oid[l] /\ HasOrder(trade, l)
           /\ orders' = [orders EXCEPT ![n] = p] /\ channel' = Append(channel, d)
           /\ GoesOn(orders[n], p) /\ Tells(d, orders[n], p, n)
           /\ p.filled = orders[n].filled /\ p.status = "canceled" /\ d.kind = "canceled" /\ d.fee = 0
           /\ \/ v = CheckAndReset(trade, l, n, p)
              \/ "info" \in ApiFaults /\ v = ResetLeg(trade, l)
           /\ Freed(trade, v, l)
           /\ trade' = AfterCancel(op[th].name, l, v)
<1> DEFINE l == op[th].todo[NextPlace(th)]
           n == OrderOf(trade.oid[l])
           p == [orders[n] EXCEPT !.status = "canceled"]
           d == Signal("canceled", n)
<1>1. l \in Legs /\ HasOrder(trade, l)
  BY VariablesType, NextPlaceType DEF CancelAccepted
<1>2. /\ n = trade.oid[l] /\ n \in 1 .. Len(orders) /\ n \in 1 .. MaxOrders /\ n \in 0 .. MaxOrders
      /\ Known(trade, l) /\ n # None
  BY <1>1, LegOrder
<1>3. orders[n] \in Order /\ trade \in Trade
  BY <1>2, VariablesType
<1>4. /\ Live(n) /\ orders' = [orders EXCEPT ![n] = p] /\ Report(d)
      /\ \/ trade' = AfterCancel(op[th].name, l, CheckAndReset(trade, l, n, p))
         \/ "info" \in ApiFaults /\ trade' = AfterCancel(op[th].name, l, ResetLeg(trade, l))
  BY <1>2 DEF CancelAccepted, CancelOnExchange, InfoFails
<1>5. channel' = Append(channel, d)
  BY <1>4 DEF Report, OpInv
<1>6. d \in SignalData /\ d.kind = "canceled" /\ d.id = n /\ d.ref = Ref(n) /\ d.fee = 0
  <2>1. "canceled" \in SignalKind
    BY DEF SignalKind
  <2> HIDE DEF n
  <2> QED
    BY <1>2, <2>1, SignalType DEF Signal
<1> HIDE DEF l, n
<1>7. /\ p \in Order /\ p.side = orders[n].side /\ p.qty = orders[n].qty
      /\ p.filled = orders[n].filled /\ p.status = "canceled"
  BY <1>3 DEF Order, OrderStatus
<1> HIDE DEF p, d
<1>8. GoesOn(orders[n], p)
  <2>1. orders[n].status = "live"
    BY <1>4 DEF Live
  <2>2. orders[n].filled <= orders[n].qty
    BY <1>2 DEF BooksInv, Books, Ledger, Kept
  <2>3. orders[n].filled \in Nat
    BY <1>3 DEF Order
  <2> QED
    BY <1>7, <2>1, <2>2, <2>3 DEF GoesOn
<1>9. Tells(d, orders[n], p, n)
  BY <1>6, <1>7 DEF Tells, ReportOf
<1>10. Books(trade, orders, channel, listed, Opening)
  BY DEF BooksInv
<1>11. CASE trade' = AfterCancel(op[th].name, l, CheckAndReset(trade, l, n, p))
  <2>1. PICK v \in Trade : v = CheckAndReset(trade, l, n, p) /\ Freed(trade, v, l)
    <3>1. CheckAndReset(trade, l, n, p) \in Trade /\ Freed(trade, CheckAndReset(trade, l, n, p), l)
      BY <1>1, <1>2, <1>3, <1>7, <1>10, VariablesType, CheckFrees
    <3> QED
      BY <3>1
  <2>2. trade' = AfterCancel(op[th].name, l, v)
    BY <1>11, <2>1
  <2> QED
    BY <1>1, <1>2, <1>4, <1>5, <1>6, <1>7, <1>8, <1>9, <2>1, <2>2 DEF l
<1>12. CASE "info" \in ApiFaults /\ trade' = AfterCancel(op[th].name, l, ResetLeg(trade, l))
  <2>1. ResetLeg(trade, l) \in Trade /\ Freed(trade, ResetLeg(trade, l), l)
    BY <1>1, <1>3, ResetFrees
  <2> QED
    BY <1>1, <1>2, <1>4, <1>5, <1>6, <1>7, <1>8, <1>9, <1>12, <2>1 DEF l
<1> QED
  BY <1>4, <1>11, <1>12

\* So the books and the operation agree as before
LEMMA CancelAcceptedBooks ==
  ASSUME Undisturbed, TypeInv, TypeInv', BooksInv, OpInv, NEW th \in Thread, CancelAccepted(th)
  PROVE  BooksInv' /\ OpInv'
<1>1. PICK l \in Legs, n \in 1 .. Len(orders), p \in Order, d \in SignalData, v \in Trade :
           /\ l = op[th].todo[NextPlace(th)] /\ n = trade.oid[l] /\ HasOrder(trade, l)
           /\ orders' = [orders EXCEPT ![n] = p] /\ channel' = Append(channel, d)
           /\ GoesOn(orders[n], p) /\ Tells(d, orders[n], p, n)
           /\ p.status = "canceled"
           /\ Freed(trade, v, l)
           /\ trade' = AfterCancel(op[th].name, l, v)
  BY CancelAcceptedShape
<1>2. /\ trade \in Trade /\ orders \in Seq(Order) /\ channel \in Seq(SignalData)
      /\ op \in [Thread -> Op] /\ Pending(th) # {} /\ trade' \in Trade
      /\ UNCHANGED <<listed, connected, checked>> /\ Advance(th, FALSE)
  BY VariablesType DEF CancelAccepted, TypeInv, TypeOK
<1>3. SameLegs(v, trade')
  BY <1>1, AfterCancelSame
<1>4. Freed(trade, trade', l)
  BY <1>1, <1>3, FreedThenSame
<1>5. Books(trade, orders', channel', listed, Opening)
  BY <1>1, <1>2, OrderGoesOn DEF BooksInv
<1>6. orders # <<>> /\ orders' # <<>> /\ n # None /\ (l = "entry" => n = 1) /\ (l # "entry" => l \in ExitLegs)
  <2>1. orders # <<>> /\ n # None /\ (l = "entry" => n = 1) /\ (l # "entry" => l \in ExitLegs)
    BY <1>1, LegOrder
  <2>2. Len(orders') = Len(orders) /\ orders' \in Seq(Order)
    <3>1. n \in DOMAIN orders
      BY VariablesType
    <3> QED
      BY <1>1, <3>1, OrderChanges
  <2> QED
    BY <1>2, <2>1, <2>2, EmptySeq
<1>7. Over(trade, orders', l)
  <2>1. orders'[n] = p
    BY <1>1, VariablesType
  <2> QED
    BY <1>1, <1>6, <2>1 DEF Over
<1>8. Books(trade', orders', channel', listed, Opening)
  BY <1>2, <1>4, <1>5, <1>6, <1>7, FreedBooks
<1>9. PICK o \in Op : /\ Start(th, o) /\ o.name = op[th].name
                      /\ o.hard = op[th].hard /\ o.price = op[th].price
                      /\ o.todo = SubSeq(op[th].todo, NextPlace(th) + 1, Len(op[th].todo))
  <2> DEFINE no == FALSE
  <2>1. no \in BOOLEAN /\ Advance(th, no)
    BY <1>2
  <2> HIDE DEF no
  <2> QED
    BY <1>2, <2>1, AdvanceMoves
<1>10. \A k \in ExitLegs : trade'.oid[k] = None \/ (trade'.oid[k] = trade.oid[k] /\ k # l)
  BY <1>4, FieldsType DEF Freed, OthersSame
<1>11. Opening => Opening'
  BY <1>2, <1>9 DEF Start, Opening, Thread
<1>12. BooksInv'
  <2>1. Books(trade', orders', channel', listed, Opening')
    BY <1>8, <1>11, BooksOpening
  <2> QED
    BY <1>2, <2>1 DEF BooksInv
<1>13. CASE th = "mutex"
  <2>1. o.name \in MutexNames
    BY <1>9, <1>13 DEF OpInv
  <2>2. ASSUME Frees(o) PROVE ToFree(trade', o.todo)
    <3>1. Frees(op[th])
      BY <1>9, <2>2 DEF Frees
    <3>2. ToFree(trade, op[th].todo)
      BY <1>13, <3>1 DEF OpInv
    <3>3. op \in [Thread -> Op] /\ Pending(th) # {} /\ l = op[th].todo[NextPlace(th)]
      BY <1>1, <1>2
    <3>4. ToFree(trade', SubSeq(op[th].todo, NextPlace(th) + 1, Len(op[th].todo)))
      BY <1>10, <3>2, <3>3, AdvanceFrees
    <3> QED
      BY <1>9, <3>4
  <2> QED
    BY <1>2, <1>6, <1>9, <1>12, <1>13, <2>1, <2>2, OpMoves
<1>14. CASE th # "mutex"
  <2>1. o.name = "clean"
    BY <1>2, <1>9, <1>14, CommandIdle
  <2>2. \A k \in ExitLegs : trade'.oid[k] = trade.oid[k] \/ trade'.oid[k] = None
    BY <1>10
  <2> QED
    BY <1>2, <1>6, <1>9, <1>12, <1>14, <2>1, <2>2, OpMoves
<1> QED
  BY <1>13, <1>14

\* When an exit order is to be placed, no exit leg has one and the entry has executed
LEMMA ExitFree ==
  ASSUME TypeInv, BooksInv, OpInv, NEW th \in Thread, CreateExit(th)
  PROVE  /\ th = "mutex" /\ op[th].name \in {"take_profit", "stop_loss", "close"}
         /\ \A l \in ExitLegs : trade.oid[l] = None
         /\ Remaining(trade) \in Nat \ {0} /\ orders # <<>>
         /\ ExitLeg(op[th].name) \in ExitLegs
<1>1. /\ op[th].name \in {"take_profit", "stop_loss", "close"} /\ Pending(th) = {}
      /\ trade.x < trade.e
      /\ op[th].name # "close" => op[th].hard /\ op[th].price
  BY DEF CreateExit, Last
<1>2. th = "mutex"
  BY <1>1, CommandIdle DEF CommandNames
<1>3. ToFree(trade, op[th].todo)
  BY <1>1, <1>2 DEF OpInv, Frees
<1>4. \A l \in ExitLegs : trade.oid[l] = None
  <2>1. DOMAIN op[th].todo = 1 .. Len(op[th].todo)
    BY VariablesType, TodoType, LenProperties
  <2> QED
    BY <1>1, <1>3, <2>1 DEF ToFree, Pending, HasOrder
<1>5. trade.e \in Int /\ trade.x \in Nat
  BY VariablesType, FieldsType
<1>6. Remaining(trade) \in Nat \ {0}
  BY <1>1, <1>5 DEF Remaining
<1>7. orders # <<>>
  BY <1>1, <1>5 DEF BooksInv, Books, EntryLeg
<1>8. ExitLeg(op[th].name) \in ExitLegs
  BY <1>1 DEF ExitLeg, ExitLegs
<1> QED
  BY <1>1, <1>2, <1>4, <1>6, <1>7, <1>8

\* The trade whose exit order was accepted
LEMMA PlacedGiven ==
  ASSUME Undisturbed, NEW t \in Trade, NEW name \in {"take_profit", "stop_loss", "close"}
  PROVE  /\ GivenExit(t, Placed(t, name), ExitLeg(name), Len(orders) + 1, Remaining(t))
         /\ Placed(t, name).x = t.x /\ Placed(t, name).e = t.e
         /\ Placed(t, name).entryState = t.entryState /\ Placed(t, name).exitState = t.exitState
<1> DEFINE l == ExitLeg(name)
           id == Len(orders) + 1
           rf == Ref(id)
           qty == Remaining(t)
           u == [t EXCEPT !.oid[l] = id, !.ref[l] = rf, !.qty[l] = qty, !.exec[l] = 0]
<1>1. l \in Legs
  BY DEF ExitLeg, Legs
<1>2. NextId = id /\ rf = Ref(id)
  BY DEF NextId, Undisturbed
<1>3. Placed(t, name) \in {[u EXCEPT !.tp = TRUE], [u EXCEPT !.sl = TRUE], [u EXCEPT !.closing = TRUE]}
  BY <1>2 DEF Placed
<1> HIDE DEF l, id, rf, qty
<1>4. /\ u.oid = [t.oid EXCEPT ![l] = id] /\ u.ref = [t.ref EXCEPT ![l] = rf]
      /\ u.qty = [t.qty EXCEPT ![l] = qty] /\ u.exec = [t.exec EXCEPT ![l] = 0]
      /\ u.oq = t.oq /\ u.e = t.e /\ u.x = t.x
      /\ u.entryState = t.entryState /\ u.exitState = t.exitState
  BY DEF Trade
<1>7. {"oid", "ref", "qty", "exec", "oq", "e", "x", "entryState", "exitState"} \subseteq DOMAIN u
  BY DEF Trade
<1> DEFINE w == Placed(t, name)
<1> HIDE DEF u, w
<1>8. w \in {[u EXCEPT !.tp = TRUE], [u EXCEPT !.sl = TRUE], [u EXCEPT !.closing = TRUE]}
  BY <1>3 DEF w
<1>5. /\ w.oid = u.oid /\ w.ref = u.ref /\ w.qty = u.qty /\ w.exec = u.exec
      /\ w.oq = u.oq /\ w.e = u.e /\ w.x = u.x
      /\ w.entryState = u.entryState /\ w.exitState = u.exitState
  <2>1. CASE w = [u EXCEPT !.tp = TRUE]
    BY <1>7, <2>1
  <2>2. CASE w = [u EXCEPT !.sl = TRUE]
    BY <1>7, <2>2
  <2>3. CASE w = [u EXCEPT !.closing = TRUE]
    BY <1>7, <2>3
  <2> QED
    BY <1>8, <2>1, <2>2, <2>3
<1>6. GivenExit(t, w, l, id, qty)
  BY <1>1, <1>2, <1>4, <1>5 DEF GivenExit, Trade
<1> QED
  BY <1>4, <1>5, <1>6 DEF w, l, id, qty

\* A trade without exit order keeps none when the exit order it asks is refused
LEMMA RefusedBooks ==
  ASSUME TypeInv, BooksInv, NEW l \in ExitLegs, trade.oid[l] = None, NEW opening,
         opening = Opening, orders # <<>>
  PROVE  /\ Books(ResetLeg(trade, l), orders, channel, listed, opening)
         /\ Books(OutOfFunds(trade, l), orders, channel, listed, opening)
<1> DEFINE u == ResetLeg(trade, l)
           w == OutOfFunds(trade, l)
<1>1. trade \in Trade /\ l \in Legs /\ l # "entry"
  BY VariablesType, FieldsType
<1>2. Books(trade, orders, channel, listed, opening)
  BY DEF BooksInv
<1>3. Over(trade, orders, l)
  BY <1>1 DEF Over, None
<1>4. u \in Trade /\ Freed(trade, u, l)
  BY <1>1, ResetFrees
<1>5. Books(u, orders, channel, listed, opening)
  BY <1>1, <1>2, <1>3, <1>4, FreedBooks
<1>6. w \in Trade /\ SameLegs(u, w) /\ w.e = u.e
  BY <1>4, StateSame, StateNames DEF OutOfFunds
<1> HIDE DEF u, w
<1>7. Books(w, orders, channel, listed, opening)
  BY <1>4, <1>5, <1>6, SameBooks
<1> QED
  BY <1>5, <1>7 DEF u, w

\* The exit order is placed, or refused
LEMMA CreateExitBooks ==
  ASSUME Undisturbed, TypeInv, TypeInv', BooksInv, OpInv, NEW th \in Thread, CreateExit(th)
  PROVE  BooksInv' /\ OpInv'
<1> DEFINE name == op[th].name
           l == ExitLeg(name)
           qty == Remaining(trade)
<1>1. /\ th = "mutex" /\ name \in {"take_profit", "stop_loss", "close"}
      /\ \A k \in ExitLegs : trade.oid[k] = None
      /\ qty \in Nat \ {0} /\ orders # <<>> /\ l \in ExitLegs
  BY ExitFree
<1>2. /\ trade \in Trade /\ orders \in Seq(Order) /\ channel \in Seq(SignalData)
      /\ op \in [Thread -> Op] /\ trade' \in Trade
  BY VariablesType DEF TypeInv, TypeOK
<1>3. UNCHANGED <<listed, connected, checked>> /\ (Return(th, FALSE) \/ Return(th, TRUE))
  BY DEF CreateExit
<1>4. \/ Accept("sell", qty) /\ trade' = Placed(trade, name)
      \/ Refuse /\ trade' = ResetLeg(trade, l)
      \/ Refuse /\ trade' = OutOfFunds(trade, l)
  BY DEF CreateExit, Undisturbed
<1>5. \E negative \in BOOLEAN : Return(th, negative)
  BY <1>3
<1>6. PICK o : Start("mutex", o) /\ ~Frees(o) /\ o.name \in MutexNames
  <2>1. PICK negative \in BOOLEAN : Return(th, negative)
    BY <1>5
  <2> QED
    BY <1>1, <2>1, ReturnFrees
<1>7. OpInv'
  BY <1>1, <1>2, <1>3, <1>6, OpMoves
<1>8. Opening' = Opening
  BY <1>2, <1>6 DEF Opening, Start, Thread
<1> HIDE DEF name, l, qty
<1>9. Books(trade', orders', channel', listed, Opening)
  <2>1. CASE Accept("sell", qty) /\ trade' = Placed(trade, name)
    <3> DEFINE n == Len(orders) + 1
               d == Signal("opened", n)
    <3>1. orders' = Append(orders, NewOrder("sell", qty)) /\ channel' = Append(channel, d)
      BY <2>1 DEF Accept, Report, NewOrder, OpInv
    <3>2. d \in SignalData /\ d.kind = "opened" /\ d.id = n /\ d.ref = Ref(n)
      <4>1. n \in 0 .. MaxOrders
        BY <2>1, OrdersType DEF Accept, Room
      <4> HIDE DEF n
      <4> QED
        BY <4>1, SignalType DEF SignalKind, Signal
    <3>3. GivenExit(trade, trade', l, n, qty)
      BY <1>1, <1>2, <2>1, PlacedGiven DEF l, qty
    <3>4. Books(trade, orders, channel, listed, Opening)
      BY DEF BooksInv
    <3>5. n = Len(orders) + 1
      OBVIOUS
    <3> HIDE DEF n, d
    <3> QED
      BY <1>1, <1>2, <3>1, <3>2, <3>3, <3>4, <3>5, ExitPlacedBooks
  <2>2. CASE Refuse /\ trade' = ResetLeg(trade, l)
    <3>1. Books(ResetLeg(trade, l), orders, channel, listed, Opening)
      BY <1>1, RefusedBooks
    <3> QED
      BY <2>2, <3>1 DEF Refuse
  <2>3. CASE Refuse /\ trade' = OutOfFunds(trade, l)
    <3>1. Books(OutOfFunds(trade, l), orders, channel, listed, Opening)
      BY <1>1, RefusedBooks
    <3> QED
      BY <2>3, <3>1 DEF Refuse
  <2> QED
    BY <1>4, <2>1, <2>2, <2>3
<1>10. BooksInv'
  <2>1. Books(trade', orders', channel', listed, Opening')
    BY <1>8, <1>9, BooksOpening
  <2> QED
    BY <1>3, <2>1 DEF BooksInv
<1> QED
  BY <1>7, <1>10

---------------------------------------------------------------------------
(***************************************************************************)
(* The invariant and what it says of the trade.                            *)
(***************************************************************************)
LEMMA InitBooks == Init => BooksInv /\ OpInv
<1> SUFFICES ASSUME Init PROVE BooksInv /\ OpInv
  OBVIOUS
<1>1. TypeInv
  BY InitType
<1>2. trade \in Trade /\ orders \in Seq(Order) /\ channel \in Seq(SignalData)
  BY <1>1, VariablesType
<1>3. orders = <<>> /\ channel = <<>> /\ trade = NewTrade
  BY DEF Init
<1>4. Reports(channel, orders)
  BY <1>3, EmptySeq DEF Reports
<1>5. /\ trade.e = 0 /\ trade.ref["entry"] \in {None, Ref(1)} /\ trade.oid["entry"] = None
      /\ \A l \in ExitLegs : trade.oid[l] = None /\ trade.ref[l] = None
  BY <1>3 DEF NewTrade, Legs, ExitLegs
<1>6. BooksInv
  BY <1>2, <1>3, <1>4, <1>5, EmptyBooks DEF BooksInv
<1>7. /\ op["mutex"].name = "idle" /\ op["command"].name = "idle" /\ op["command"].todo = <<>>
      /\ connected /\ checked = "normal"
  BY DEF Init, Idle, Operation, Thread
<1>8. OpInv
  BY <1>7 DEF OpInv, Frees, CommandNames, MutexNames
<1> QED
  BY <1>6, <1>8

\* Every step of the system preserves the books
LEMMA StepBooks ==
  ASSUME Undisturbed, TypeInv, TypeInv', BooksInv, OpInv, [Next]_vars
  PROVE  BooksInv' /\ OpInv'
<1>1. CASE Exchange
  BY <1>1, ExchangeBooks
<1>2. CASE Open \/ OpenReturn \/ OpenFailed
  BY <1>2, OpenBooks, OpenReturnBooks, OpenFailedBooks
<1>3. CASE DeliverSignal
  BY <1>3, DeliverBooks
<1>4. CASE CancelOpen \/ Close \/ SoftClose \/ Terminate
  BY <1>4, StartBooks
<1>5. CASE Clean \/ CleanupTrades
  BY <1>5, CleanBooks
<1>6. CASE Modify("take_profit") \/ Modify("stop_loss")
  BY <1>6, ModifyBooks
<1>7. CASE UpdateDirty \/ UpdateDirtyStop \/ UpdateDirtyDone
  BY <1>7, UpdateDirtyBooks
<1>8. CASE WatcherConnected \/ Resize \/ Check \/ CheckTrades \/ Disconnect \/ Reconnect \/ Restart
  BY <1>8, NeverBooks, VariablesType
<1>9. ASSUME NEW th \in Thread, Step(th) PROVE BooksInv' /\ OpInv'
  BY <1>9, CancelAcceptedBooks, CancelRefusedBooks, NeverBooks, LastBooks, CreateExitBooks DEF Step
<1>10. CASE UNCHANGED vars
  BY <1>10 DEF vars, BooksInv, OpInv, Opening
<1> QED
  BY <1>1, <1>2, <1>3, <1>4, <1>5, <1>6, <1>7, <1>8, <1>9, <1>10 DEF Next

\* The books of the trade agree with its orders in every state
THEOREM BooksAgree ==
  ASSUME Undisturbed
  PROVE  Spec => [](TypeInv /\ BooksInv /\ OpInv)
<1> DEFINE Inv == TypeInv /\ BooksInv /\ OpInv
<1>1. Init => Inv
  BY InitType, InitBooks
<1>2. Inv /\ [Next]_vars => Inv'
  BY StepType, StepBooks
<1>3. Spec => []Inv
  BY <1>1, <1>2, PTL DEF Spec
<1> QED
  BY <1>3

\* Two live sell orders would be on two exit legs
LEMMA OneSell ==
  ASSUME TypeInv, BooksInv, NEW m \in LiveSells, NEW n \in LiveSells
  PROVE  m = n /\ n \in 2 .. Len(orders) /\ \E l \in ExitLegs : trade.oid[l] = n
<1>1. DOMAIN orders = 1 .. Len(orders) /\ Len(orders) \in Nat
  BY VariablesType
<1>2. \A k \in LiveSells : k \in 2 .. Len(orders) /\ orders[k].status = "live"
  BY <1>1 DEF LiveSells, Live, BooksInv, Books, Ledger, Kept
<1>3. \A k \in LiveSells : \E l \in ExitLegs : trade.oid[l] = k
  BY <1>2 DEF BooksInv, Books, Exits
<1>4. trade.oid["limit"] = None \/ trade.oid["stop"] = None
  BY DEF BooksInv, Books, Exits
<1>5. m # None /\ n # None
  BY <1>2 DEF None
<1> QED
  BY <1>2, <1>3, <1>4, <1>5 DEF ExitLegs

\* On the spot market one exit order at a time, whatever fails of the cancellations, the
\* placements and the look-ups, and whatever the user and the exchange do
THEOREM OneExitOrder ==
  ASSUME Undisturbed
  PROVE  Spec => []SingleExit
<1>1. TypeInv /\ BooksInv /\ OpInv => SingleExit
  <2> SUFFICES ASSUME TypeInv, BooksInv PROVE Cardinality(LiveSells) <= 1
    BY DEF SingleExit
  <2>1. CASE LiveSells = {}
    BY <2>1, FS_EmptySet
  <2>2. CASE LiveSells # {}
    <3>1. PICK n : n \in LiveSells
      BY <2>2
    <3>2. LiveSells = {n}
      BY <3>1, OneSell
    <3>3. Cardinality({n}) = 1
      BY FS_Singleton
    <3> QED
      BY <3>2, <3>3
  <2> QED
    BY <2>1, <2>2
<1>2. Spec => [](TypeInv /\ BooksInv /\ OpInv)
  BY BooksAgree
<1> QED
  BY <1>1, <1>2, PTL

\* Once nothing is under way the trade holds the identifier of each of its live orders, so
\* that the next operation can cancel it
THEOREM LiveOrdersTracked ==
  ASSUME Undisturbed
  PROVE  Spec => []Tracked
<1>1. TypeInv /\ BooksInv /\ OpInv => Tracked
  <2> SUFFICES ASSUME TypeInv, BooksInv, AtRest, NEW n \in DOMAIN orders, Live(n)
               PROVE  \E l \in Legs : trade.oid[l] = n
    BY DEF Tracked
  <2>1. n \in 1 .. Len(orders) /\ orders[n].status = "live" /\ Len(orders) \in Nat
    BY VariablesType DEF Live
  <2>2. CASE n = 1
    <3>1. ~Opening
      BY DEF AtRest, Free, Opening
    <3>2. orders # <<>>
      BY <2>1, EmptySeq
    <3>3. trade.oid["entry"] = 1
      BY <2>1, <2>2, <3>1, <3>2 DEF BooksInv, Books, EntryLeg
    <3> QED
      BY <2>2, <3>3 DEF Legs
  <2>3. CASE n # 1
    <3>1. n \in 2 .. Len(orders)
      BY <2>1, <2>3
    <3> QED
      BY <2>1, <3>1 DEF BooksInv, Books, Exits, Legs, ExitLegs
  <2> QED
    BY <2>2, <2>3
<1>2. Spec => [](TypeInv /\ BooksInv /\ OpInv)
  BY BooksAgree
<1> QED
  BY <1>1, <1>2, PTL

---------------------------------------------------------------------------
(***************************************************************************)
(* The sums.  When order_info always answers, and no commission is taken   *)
(* in lots, what the trade counted and what it will be told are what the   *)
(* account received and gave.                                              *)
(***************************************************************************)
Counting ==
  /\ Undisturbed
  /\ "info" \notin ApiFaults
  /\ \A k \in FillSizes : BaseFee[k] = 0

\* The lots sold: those the trade counted, and those of its exit order it did not yet
Sold(t, os, sold) ==
  /\ \A l \in ExitLegs : t.oid[l] # None => t.x + (os[t.oid[l]].filled - t.exec[l]) = sold
  /\ (\A l \in ExitLegs : t.oid[l] = None) => t.x = sold

\* The trade knows its entry order, by its identifier or its reference
KnowsEntry(t) == t.oid["entry"] = 1 \/ t.ref["entry"] = Ref(1)

\* The lots bought: those the trade counted or, in the list, will be told of
Bought(t, os, c, bought, ls) ==
  /\ bought = IF os = <<>> THEN 0 ELSE os[1].filled
  /\ \A i \in 1 .. Len(c) : c[i].fee = 0
  /\ 0 <= t.e /\ t.e <= bought
  /\ ls => t.e = bought \/ (KnowsEntry(t) /\ LastComing(c, os, 1))
  /\ (\E i \in 1 .. Len(c) : Executes(c[i], 1)) => LastComing(c, os, 1)

\* The lots sold, and those a live exit order may still sell, were bought
Covered(os, bought, sold) ==
  /\ sold <= bought
  /\ \A n \in 2 .. Len(os) : os[n].status = "live" => sold + (os[n].qty - os[n].filled) <= bought

SumsInv ==
  /\ Sold(trade, orders, account.sold)
  /\ Bought(trade, orders, channel, account.bought, listed)
  /\ Covered(orders, account.bought, account.sold)

\* The last execution is still to come when another report is taken
LEMMA LastTail ==
  ASSUME NEW c \in Seq(SignalData), c # <<>>, NEW os, NEW n, LastComing(c, os, n),
         ~(Executes(Head(c), n) /\ Head(c).cum = os[n].filled)
  PROVE  LastComing(Tail(c), os, n)
<1>1. PICK i \in 1 .. Len(c) : Executes(c[i], n) /\ c[i].cum = os[n].filled
  BY DEF LastComing
<1>2. /\ Head(c) = c[1] /\ Len(c) \in Nat /\ Len(Tail(c)) = Len(c) - 1
      /\ \A j \in 1 .. Len(c) : j = 1 \/ (j - 1 \in 1 .. Len(c) - 1 /\ Tail(c)[j - 1] = c[j])
  BY TailElements
<1>3. i # 1
  BY <1>1, <1>2
<1>4. i - 1 \in 1 .. Len(Tail(c)) /\ Tail(c)[i - 1] = c[i]
  BY <1>2, <1>3
<1> QED
  BY <1>1, <1>4 DEF LastComing

\* or sent
LEMMA LastAppend ==
  ASSUME NEW c \in Seq(SignalData), NEW d \in SignalData, NEW os, NEW os2, NEW n,
         LastComing(c, os, n), os2[n].filled = os[n].filled
  PROVE  LastComing(Append(c, d), os2, n)
<1>1. PICK i \in 1 .. Len(c) : Executes(c[i], n) /\ c[i].cum = os[n].filled
  BY DEF LastComing
<1>2. /\ Len(Append(c, d)) = Len(c) + 1 /\ Len(c) \in Nat
      /\ \A j \in 1 .. Len(c) : Append(c, d)[j] = c[j]
  BY AppendProperties
<1>3. i \in 1 .. Len(Append(c, d)) /\ Append(c, d)[i] = c[i]
  BY <1>2
<1> QED
  BY <1>1, <1>3 DEF LastComing

\* No execution is to come after the end of the order
LEMMA NoneAfterEnd ==
  ASSUME NEW c \in Seq(SignalData), c # <<>>, NEW os, Reports(c, os),
         NEW n, Head(c).kind \in Ends, About(Head(c)) = n
  PROVE  \A i \in 1 .. Len(c) : ~Executes(c[i], n)
<1> SUFFICES ASSUME NEW i \in 1 .. Len(c), Executes(c[i], n) PROVE FALSE
  OBVIOUS
<1>1. Head(c) = c[1] /\ 1 \in 1 .. Len(c) /\ Len(c) \in Nat
  BY TailElements
<1>2. c[i].kind = "traded" /\ c[i].id = n
  BY DEF Executes
<1>3. i # 1
  BY <1>1, <1>2 DEF Ends
<1>4. 1 < i
  BY <1>1, <1>3
<1>5. Follows(c[1], c[i])
  BY <1>1, <1>4 DEF Reports
<1> QED
  BY <1>1, <1>2, <1>5 DEF Follows

\* A report taken
LEMMA ExecutesTail ==
  ASSUME NEW c \in Seq(SignalData), c # <<>>
  PROVE  \A i \in 1 .. Len(Tail(c)) : \E j \in 1 .. Len(c) : j # 1 /\ Tail(c)[i] = c[j]
<1>1. /\ Len(c) \in Nat \ {0} /\ Len(Tail(c)) = Len(c) - 1
      /\ \A i \in 1 .. Len(c) - 1 : i + 1 \in 1 .. Len(c) /\ Tail(c)[i] = c[i + 1]
  BY TailElements
<1>2. \A i \in 1 .. Len(Tail(c)) : i + 1 \in 1 .. Len(c) /\ i + 1 # 1 /\ Tail(c)[i] = c[i + 1]
  BY <1>1
<1> QED
  BY <1>2

\* A step that changes neither the orders nor what the trade counted of them
LEMMA SameSums ==
  ASSUME SumsInv, UNCHANGED <<orders, channel, account>>, listed' => listed,
         trade'.e = trade.e, trade'.x = trade.x,
         \A l \in ExitLegs : /\ trade'.oid[l] = trade.oid[l]
                             /\ trade.oid[l] # None => trade'.exec[l] = trade.exec[l],
         KnowsEntry(trade) => KnowsEntry(trade')
  PROVE  SumsInv'
<1>1. Sold(trade', orders', account'.sold)
  BY DEF SumsInv, Sold
<1>2. Bought(trade', orders', channel', account'.bought, listed')
  BY DEF SumsInv, Bought
<1>3. Covered(orders', account'.bought, account'.sold)
  BY DEF SumsInv
<1> QED
  BY <1>1, <1>2, <1>3 DEF SumsInv

\* The sums hold numbers
LEMMA SumsType ==
  ASSUME TypeInv
  PROVE  /\ account.bought \in Nat /\ account.sold \in Nat
         /\ trade.e \in Int /\ trade.x \in Nat /\ \A l \in ExitLegs : trade.exec[l] \in Nat
         /\ \A n \in 1 .. Len(orders) : orders[n].filled \in Nat /\ orders[n].qty \in Int
         /\ Len(orders) \in Nat
         /\ orders # <<>> => 1 \in 1 .. Len(orders)
         /\ \A n \in 2 .. Len(orders) : n \in 1 .. Len(orders) /\ n # 1 /\ n # None
<1>1. trade \in Trade /\ Len(orders) \in Nat /\ orders \in Seq(Order)
  BY VariablesType
<1>2. \A n \in 1 .. Len(orders) : orders[n].filled \in Nat /\ orders[n].qty \in Int
  <2> SUFFICES ASSUME NEW n \in 1 .. Len(orders) PROVE orders[n].filled \in Nat /\ orders[n].qty \in Int
    OBVIOUS
  <2>1. orders[n] \in Order
    BY VariablesType
  <2> QED
    BY <2>1 DEF Order
<1>3. orders # <<>> => 1 \in 1 .. Len(orders)
  BY <1>1, EmptySeq
<1>4. \A n \in 2 .. Len(orders) : n \in 1 .. Len(orders) /\ n # 1 /\ n # None
  BY <1>1 DEF None
<1>5. trade.e \in Int /\ trade.x \in Nat /\ \A l \in ExitLegs : trade.exec[l] \in Nat
  BY <1>1, FieldsType
<1> QED
  BY <1>1, <1>2, <1>3, <1>4, <1>5, VariablesType


---------------------------------------------------------------------------
\* A step that is about no order
LEMMA QuietSums ==
  ASSUME TypeInv, SumsInv, UNCHANGED <<orders, channel, account>>, listed' => listed,
         SameLegs(trade, trade'), trade'.e = trade.e, trade'.x = trade.x
  PROVE  SumsInv'
<1>1. ExitLegs \subseteq Legs
  BY DEF ExitLegs, Legs
<1>2. trade'.oid = trade.oid /\ trade'.ref = trade.ref
  BY DEF SameLegs
<1>3. \A l \in ExitLegs : trade.oid[l] # None => trade'.exec[l] = trade.exec[l]
  BY <1>1 DEF SameLegs
<1>4. KnowsEntry(trade) => KnowsEntry(trade')
  BY <1>2 DEF KnowsEntry
<1> QED
  BY <1>2, <1>3, <1>4, SameSums

\* The flags of the trade are about no order
LEMMA FlagSums ==
  ASSUME TypeInv, SumsInv, UNCHANGED <<orders, channel, account>>, listed' => listed,
         \/ UNCHANGED trade
         \/ \E b \in BOOLEAN : \/ trade' = [trade EXCEPT !.tp = b]
                               \/ trade' = [trade EXCEPT !.sl = b]
                               \/ trade' = [trade EXCEPT !.dirty = b]
         \/ \E s : trade' = [trade EXCEPT !.entryState = s]
  PROVE  SumsInv'
<1>1. trade \in Trade
  BY VariablesType
<1>2. SameLegs(trade, trade') /\ trade'.e = trade.e /\ trade'.x = trade.x
  <2>1. CASE UNCHANGED trade
    BY <2>1 DEF SameLegs
  <2>2. ASSUME NEW b \in BOOLEAN,
               \/ trade' = [trade EXCEPT !.tp = b]
               \/ trade' = [trade EXCEPT !.sl = b]
               \/ trade' = [trade EXCEPT !.dirty = b]
        PROVE  SameLegs(trade, trade') /\ trade'.e = trade.e /\ trade'.x = trade.x
    BY <1>1, <2>2 DEF SameLegs, Trade
  <2>3. ASSUME NEW s, trade' = [trade EXCEPT !.entryState = s]
        PROVE  SameLegs(trade, trade') /\ trade'.e = trade.e /\ trade'.x = trade.x
    BY <1>1, <2>3 DEF SameLegs, Trade
  <2> QED
    BY <2>1, <2>2, <2>3
<1> QED
  BY <1>2, QuietSums

\* The steps that start, end or go on with an operation, and those of the list
LEMMA StartSums ==
  ASSUME TypeInv, SumsInv,
         \/ CancelOpen \/ Close \/ SoftClose \/ Terminate \/ Clean \/ CleanupTrades
         \/ UpdateDirty \/ UpdateDirtyStop
         \/ \E th \in Thread : NothingToExit(th) \/ Unlist(th) \/ Finish(th)
  PROVE  SumsInv'
<1>1. UNCHANGED <<trade, orders, channel, account>>
  BY DEF CancelOpen, Close, SoftClose, Terminate, Clean, CleanupTrades, UpdateDirty, UpdateDirtyStop,
         NothingToExit, Unlist, Finish
<1>2. listed' => listed
  <2>1. CASE CancelOpen \/ Close \/ SoftClose \/ Terminate \/ Clean \/ UpdateDirty \/ UpdateDirtyStop
    BY <2>1 DEF CancelOpen, Close, SoftClose, Terminate, Clean, UpdateDirty, UpdateDirtyStop
  <2>2. CASE CleanupTrades
    BY <2>2 DEF CleanupTrades
  <2>3. ASSUME NEW th \in Thread, NothingToExit(th) \/ Finish(th) PROVE listed' => listed
    BY <2>3 DEF NothingToExit, Finish
  <2>4. ASSUME NEW th \in Thread, Unlist(th) PROVE listed' => listed
    <3>1. listed' = (listed /\ op[th].name = "terminate" /\ op[th].failed)
      BY <2>4 DEF Unlist
    <3> QED
      BY <3>1, Zenon
  <2> QED
    BY <2>1, <2>2, <2>3, <2>4
<1> QED
  BY <1>1, <1>2, FlagSums

\* The steps that set a flag, a soft price or a state of the trade
LEMMA FlagStepSums ==
  ASSUME TypeInv, SumsInv, OpInv,
         \/ Modify("take_profit") \/ Modify("stop_loss") \/ UpdateDirtyDone \/ OpenFailed
         \/ \E th \in Thread : SoftPrice(th)
  PROVE  SumsInv'
<1>1. CASE Modify("take_profit") \/ Modify("stop_loss")
  <2>1. /\ UNCHANGED <<orders, channel, account, listed>>
        /\ \/ UNCHANGED trade
           \/ \E b \in BOOLEAN : \/ trade' = [trade EXCEPT !.tp = b]
                                 \/ trade' = [trade EXCEPT !.sl = b]
    BY <1>1 DEF Modify
  <2> QED
    BY <2>1, FlagSums
<1>2. CASE UpdateDirtyDone
  <2> DEFINE b == op["mutex"].failed
  <2>1. b \in BOOLEAN
    BY VariablesType DEF Op
  <2>2. trade' = [trade EXCEPT !.dirty = b] /\ UNCHANGED <<orders, channel, account, listed>>
    BY <1>2 DEF UpdateDirtyDone
  <2> HIDE DEF b
  <2> QED
    BY <2>1, <2>2, FlagSums
<1>3. CASE OpenFailed
  <2>1. trade' = [trade EXCEPT !.entryState = "rejected"] /\ ~listed' /\ UNCHANGED <<orders, channel, account>>
    BY <1>3 DEF OpenFailed
  <2> QED
    BY <2>1, FlagSums
<1>4. ASSUME NEW th \in Thread, SoftPrice(th) PROVE SumsInv'
  <2> DEFINE b == op[th].price
  <2>1. b \in BOOLEAN
    BY VariablesType DEF Op, Thread
  <2>2. /\ trade' = [trade EXCEPT !.tp = b] \/ trade' = [trade EXCEPT !.sl = b]
        /\ UNCHANGED <<orders, channel, account, listed>>
    BY <1>4 DEF SoftPrice
  <2> HIDE DEF b
  <2> QED
    BY <2>1, <2>2, FlagSums
<1> QED
  BY <1>1, <1>2, <1>3, <1>4

\* A cancellation refused changes no order
LEMMA CancelRefusedSums ==
  ASSUME Undisturbed, TypeInv, BooksInv, OpInv, SumsInv, NEW th \in Thread, CancelRefused(th)
  PROVE  SumsInv'
<1> DEFINE l == op[th].todo[NextPlace(th)]
<1>1. l \in Legs /\ HasOrder(trade, l)
  BY VariablesType, NextPlaceType DEF CancelRefused
<1>2. Known(trade, l)
  BY <1>1, LegOrder
<1>3. UNCHANGED <<trade, orders, channel, listed, account>>
  BY <1>2 DEF CancelRefused, Undisturbed
<1> QED
  BY <1>3, FlagSums

\* create_order returned the identifier of the entry
LEMMA OpenReturnSums ==
  ASSUME Undisturbed, TypeInv, SumsInv, OpenReturn
  PROVE  SumsInv'
<1>1. /\ trade' = [trade EXCEPT !.oid["entry"] = 1]
      /\ UNCHANGED <<account, listed, orders, channel>>
  BY DEF OpenReturn, Undisturbed
<1>2. trade \in Trade
  BY VariablesType
<1>3. /\ trade'.oid = [trade.oid EXCEPT !["entry"] = 1]
      /\ trade'.exec = trade.exec /\ trade'.e = trade.e /\ trade'.x = trade.x
  BY <1>1, <1>2 DEF Trade
<1>4. trade'.oid["entry"] = 1 /\ \A l \in ExitLegs : trade'.oid[l] = trade.oid[l]
  BY <1>2, <1>3 DEF Trade, Legs, ExitLegs
<1>5. KnowsEntry(trade')
  BY <1>4 DEF KnowsEntry
<1> QED
  BY <1>1, <1>3, <1>4, <1>5, SameSums


---------------------------------------------------------------------------
\* The reports of a queue with one more
LEMMA AppendElements ==
  ASSUME NEW c \in Seq(SignalData), NEW d \in SignalData
  PROVE  /\ Len(Append(c, d)) = Len(c) + 1 /\ Len(c) \in Nat
         /\ \A i \in 1 .. Len(c) : i \in 1 .. Len(Append(c, d)) /\ Append(c, d)[i] = c[i]
         /\ \A i \in 1 .. Len(Append(c, d)) : \/ i \in 1 .. Len(c) /\ Append(c, d)[i] = c[i]
                                              \/ i = Len(c) + 1 /\ Append(c, d)[i] = d
<1> DEFINE b == Append(c, d)
<1>1. /\ Len(b) = Len(c) + 1 /\ Len(c) \in Nat
      /\ \A i \in 1 .. Len(c) : b[i] = c[i]
      /\ b[Len(c) + 1] = d
  BY AppendProperties
<1> HIDE DEF b
<1>2. \A i \in 1 .. Len(b) : i \in 1 .. Len(c) \/ i = Len(c) + 1
  BY <1>1
<1>3. \A i \in 1 .. Len(c) : i \in 1 .. Len(b)
  BY <1>1
<1> QED
  BY <1>1, <1>2, <1>3 DEF b

\* An order goes on, by an end or an execution
LEMMA OrderStep ==
  ASSUME TypeInv, NEW n \in 1 .. Len(orders), NEW p \in Order, orders' = [orders EXCEPT ![n] = p]
  PROVE  /\ Len(orders') = Len(orders) /\ orders # <<>> /\ orders' # <<>>
         /\ \A m \in 1 .. Len(orders) : orders'[m] = IF m = n THEN p ELSE orders[m]
         /\ 1 \in 1 .. Len(orders)
<1>1. n \in DOMAIN orders /\ orders \in Seq(Order) /\ Len(orders) \in Nat
  BY VariablesType
<1>2. Len(orders') = Len(orders) /\ orders' \in Seq(Order)
  BY <1>1, OrderChanges
<1>3. orders # <<>> /\ 1 \in 1 .. Len(orders)
  BY <1>1, EmptySeq
<1>4. orders' # <<>>
  BY <1>2, <1>3, EmptySeq
<1>5. DOMAIN orders = 1 .. Len(orders)
  BY VariablesType
<1> QED
  BY <1>1, <1>2, <1>3, <1>4, <1>5

\* An order ends with what it executed
LEMMA EndedSums ==
  ASSUME TypeInv, BooksInv, SumsInv, NEW n \in 1 .. Len(orders), NEW p \in Order,
         NEW d \in SignalData, orders' = [orders EXCEPT ![n] = p],
         channel' = Append(channel, d), p.filled = orders[n].filled, p.status # "live",
         d.kind # "traded", d.fee = 0
  PROVE  /\ Sold(trade, orders', account.sold)
         /\ Bought(trade, orders', channel', account.bought, listed)
         /\ Covered(orders', account.bought, account.sold)
<1>1. /\ Len(orders') = Len(orders) /\ orders # <<>> /\ orders' # <<>> /\ 1 \in 1 .. Len(orders)
      /\ \A m \in 1 .. Len(orders) : orders'[m] = IF m = n THEN p ELSE orders[m]
  BY OrderStep
<1>2. \A m \in 1 .. Len(orders) :
        /\ orders'[m].filled = orders[m].filled
        /\ orders'[m].status = "live" => orders'[m] = orders[m]
  BY <1>1
<1>3. Sold(trade, orders', account.sold)
  <2>1. \A l \in ExitLegs : trade.oid[l] # None => trade.oid[l] \in 1 .. Len(orders)
    BY SumsType DEF BooksInv, Books, Exits, LegOf
  <2> QED
    BY <1>2, <2>1 DEF SumsInv, Sold
<1>4. Bought(trade, orders', channel', account.bought, listed)
  <2>1. channel \in Seq(SignalData)
    BY VariablesType
  <2>2. orders'[1].filled = orders[1].filled
    BY <1>1, <1>2
  <2>3. LastComing(channel, orders, 1) => LastComing(channel', orders', 1)
    BY <2>1, <2>2, LastAppend
  <2>4. /\ \A i \in 1 .. Len(channel') : \/ i \in 1 .. Len(channel) /\ channel'[i] = channel[i]
                                         \/ channel'[i] = d
    BY <2>1, AppendElements
  <2>5. ~Executes(d, 1)
    BY DEF Executes
  <2>6. (\E i \in 1 .. Len(channel') : Executes(channel'[i], 1)) => LastComing(channel', orders', 1)
    BY <2>3, <2>4, <2>5 DEF SumsInv, Bought
  <2>7. \A i \in 1 .. Len(channel') : channel'[i].fee = 0
    BY <2>4 DEF SumsInv, Bought
  <2> QED
    BY <1>1, <2>2, <2>3, <2>6, <2>7 DEF SumsInv, Bought
<1>5. Covered(orders', account.bought, account.sold)
  <2>1. \A m \in 2 .. Len(orders) : m \in 1 .. Len(orders)
    BY SumsType
  <2> QED
    BY <1>1, <1>2, <2>1 DEF SumsInv, Covered
<1> QED
  BY <1>3, <1>4, <1>5

\* The exchange ends an order
LEMMA EndOrderSums ==
  ASSUME TypeInv, BooksInv, OpInv, SumsInv, NEW n \in DOMAIN orders,
         NEW status \in ExchangeEvents, EndOrder(n, status)
  PROVE  SumsInv'
<1>1. PICK p \in Order, d \in SignalData :
           /\ orders' = [orders EXCEPT ![n] = p] /\ channel' = Append(channel, d)
           /\ p.filled = orders[n].filled /\ p.status # "live"
           /\ d.kind # "traded" /\ d.fee = 0
  BY EndOrderTells
<1>2. n \in 1 .. Len(orders)
  BY VariablesType
<1>3. UNCHANGED <<trade, account, listed>>
  BY DEF EndOrder
<1>4. /\ Sold(trade, orders', account.sold)
      /\ Bought(trade, orders', channel', account.bought, listed)
      /\ Covered(orders', account.bought, account.sold)
  BY <1>1, <1>2, EndedSums
<1> QED
  BY <1>3, <1>4 DEF SumsInv

\* An order is added
LEMMA OrderAdded ==
  ASSUME TypeInv, OpInv, NEW side \in {"buy", "sell"}, NEW qty \in Int, Accept(side, qty)
  PROVE  /\ Len(orders') = Len(orders) + 1 /\ orders' # <<>>
         /\ \A m \in 1 .. Len(orders) : orders'[m] = orders[m]
         /\ orders'[Len(orders) + 1].filled = 0 /\ orders'[Len(orders) + 1].qty = qty
         /\ \E d \in SignalData : channel' = Append(channel, d) /\ d.kind = "opened" /\ d.fee = 0
<1> DEFINE n == Len(orders) + 1
           o == [side |-> side, qty |-> qty, filled |-> 0, fee |-> 0, status |-> "live"]
           d == Signal("opened", n)
<1>1. orders \in Seq(Order) /\ Len(orders) \in Nat
  BY VariablesType
<1>2. orders' = Append(orders, o) /\ channel' = Append(channel, d)
  BY DEF Accept, Report, OpInv
<1>3. o \in Order /\ o.filled = 0 /\ o.qty = qty
  BY DEF Order, OrderStatus
<1>4. d \in SignalData /\ d.kind = "opened" /\ d.fee = 0
  <2>1. n \in 0 .. MaxOrders
    BY OrdersType DEF Accept, Room
  <2> HIDE DEF n
  <2> QED
    BY <2>1, SignalType DEF SignalKind, Signal
<1> HIDE DEF o, d
<1>5. /\ Len(orders') = n /\ orders'[n] = o
      /\ \A m \in 1 .. Len(orders) : orders'[m] = orders[m]
  BY <1>1, <1>2, <1>3, AppendProperties
<1>6. orders' # <<>>
  <2>1. orders' \in Seq(Order)
    BY <1>1, <1>2, <1>3, AppendProperties
  <2>2. Len(orders') # 0
    BY <1>1, <1>5
  <2> QED
    BY <2>1, <2>2, EmptySeq
<1> QED
  BY <1>2, <1>3, <1>4, <1>5, <1>6


\* The entry: nothing is bought yet, and the trade knows its order by its reference
LEMMA OpenSums ==
  ASSUME Undisturbed, TypeInv, BooksInv, OpInv, SumsInv, Open
  PROVE  SumsInv'
<1>0. Quantity \in Int
  BY ConstantsAssumption DEF ConstantsAssumption
<1>1. /\ orders = <<>> /\ trade = NewTrade /\ Len(orders) = 0
      /\ Accept("buy", Quantity) \/ Refuse
      /\ UNCHANGED account
  BY EmptySeq DEF Open
<1>2. PICK tp \in BOOLEAN, sl \in BOOLEAN :
        trade' = [trade EXCEPT !.ref["entry"] = Ref(Len(orders) + 1), !.oq = Quantity,
                               !.tp = tp, !.sl = sl]
  BY DEF Open
<1>3. trade \in Trade
  BY VariablesType
<1>4. /\ trade'.ref = [trade.ref EXCEPT !["entry"] = Ref(1)]
      /\ trade'.oid = trade.oid /\ trade'.e = trade.e /\ trade'.x = trade.x
  BY <1>1, <1>2, <1>3 DEF Trade
<1>5. KnowsEntry(trade')
  BY <1>3, <1>4 DEF KnowsEntry, Trade, Legs
<1>6. trade.e = 0 /\ trade.x = 0 /\ \A l \in ExitLegs : trade.oid[l] = None
  BY <1>1 DEF NewTrade, Legs, ExitLegs
<1>7. account.bought = 0 /\ account.sold = 0
  BY <1>1, <1>6 DEF SumsInv, Sold, Bought
<1>8. \A i \in 1 .. Len(channel) : channel[i].fee = 0 /\ ~Executes(channel[i], 1)
  <2>1. \A i \in 1 .. Len(channel) : channel[i].fee = 0
    BY DEF SumsInv, Bought
  <2>2. \A i \in 1 .. Len(channel) : \E n \in 1 .. 0 : ReportOf(channel[i], orders[n], n)
    BY <1>1 DEF BooksInv, Books, Reports
  <2> QED
    BY <2>1, <2>2
<1>9. Sold(trade', orders', account'.sold)
  BY <1>1, <1>4, <1>6, <1>7 DEF Sold
<1>10. CASE Accept("buy", Quantity)
  <2>1. /\ Len(orders') = 1 /\ orders' # <<>> /\ orders'[1].filled = 0
        /\ \E d \in SignalData : channel' = Append(channel, d) /\ d.kind = "opened" /\ d.fee = 0
    BY <1>0, <1>1, <1>10, OrderAdded
  <2>2. PICK d \in SignalData : channel' = Append(channel, d) /\ d.kind = "opened" /\ d.fee = 0
    BY <2>1
  <2>3. channel \in Seq(SignalData)
    BY VariablesType
  <2>4. \A i \in 1 .. Len(channel') : channel'[i].fee = 0 /\ ~Executes(channel'[i], 1)
    BY <1>8, <2>2, <2>3, AppendElements DEF Executes
  <2>5. Bought(trade', orders', channel', account'.bought, listed')
    BY <1>1, <1>4, <1>6, <1>7, <2>1, <2>4 DEF Bought
  <2>6. Covered(orders', account'.bought, account'.sold)
    BY <1>1, <1>7, <2>1 DEF Covered
  <2> QED
    BY <1>9, <2>5, <2>6 DEF SumsInv
<1>11. CASE Refuse
  <2>1. UNCHANGED <<orders, channel>>
    BY <1>11 DEF Refuse
  <2>2. Bought(trade', orders', channel', account'.bought, listed')
    BY <1>1, <1>4, <1>6, <1>7, <1>8, <2>1 DEF Bought
  <2>3. Covered(orders', account'.bought, account'.sold)
    BY <1>1, <2>1 DEF SumsInv
  <2> QED
    BY <1>9, <2>2, <2>3 DEF SumsInv
<1> QED
  BY <1>1, <1>10, <1>11

\* An exit order is placed for what remains to sell, when no other one is live; one
\* refused leaves the trade without exit order
LEMMA CreateExitSums ==
  ASSUME Undisturbed, TypeInv, BooksInv, OpInv, SumsInv, NEW th \in Thread, CreateExit(th)
  PROVE  SumsInv'
<1> DEFINE name == op[th].name
           l == ExitLeg(name)
           qty == Remaining(trade)
           len == Len(orders)
<1>1. /\ name \in {"take_profit", "stop_loss", "close"}
      /\ \A k \in ExitLegs : trade.oid[k] = None
      /\ qty \in Nat \ {0} /\ orders # <<>> /\ l \in ExitLegs
  BY ExitFree
<1>2. trade \in Trade /\ channel \in Seq(SignalData) /\ len \in Nat /\ l \in Legs /\ l # "entry"
  BY <1>1, VariablesType, FieldsType
<1>3. UNCHANGED <<listed, account>>
  BY DEF CreateExit
<1>4. \/ Accept("sell", qty) /\ trade' = Placed(trade, name)
      \/ Refuse /\ trade' = ResetLeg(trade, l)
      \/ Refuse /\ trade' = OutOfFunds(trade, l)
  BY DEF CreateExit, Undisturbed
<1>5. trade.x = account.sold /\ qty = trade.e - trade.x
  BY <1>1 DEF SumsInv, Sold, Remaining
<1>6. trade.e \in Int /\ trade.x \in Nat /\ account.sold \in Nat /\ account.bought \in Nat /\ qty \in Int
  BY <1>1, SumsType
<1> HIDE DEF name, l, qty
<1>7. CASE Accept("sell", qty) /\ trade' = Placed(trade, name)
  <2>1. /\ Len(orders') = len + 1 /\ orders' # <<>>
        /\ \A m \in 1 .. len : orders'[m] = orders[m]
        /\ orders'[len + 1].filled = 0 /\ orders'[len + 1].qty = qty
        /\ \E d \in SignalData : channel' = Append(channel, d) /\ d.kind = "opened" /\ d.fee = 0
    <3>1. "sell" \in {"buy", "sell"}
      OBVIOUS
    <3> QED
      BY <1>6, <1>7, <3>1, OrderAdded
  <2>2. PICK d \in SignalData : channel' = Append(channel, d) /\ d.kind = "opened" /\ d.fee = 0
    BY <2>1
  <2>3. GivenExit(trade, trade', l, len + 1, qty) /\ trade'.x = trade.x /\ trade'.e = trade.e
    BY <1>1, <1>2, <1>7, PlacedGiven DEF l, qty
  <2>4. 1 \in 1 .. len /\ len + 1 # None
    BY <1>1, <1>2, SumsType DEF None
  <2>5. Sold(trade', orders', account'.sold)
    <3>1. ASSUME NEW k \in ExitLegs, k # l PROVE trade'.oid[k] = None
      BY <1>1, <1>2, <2>3, <3>1, FieldsType DEF GivenExit
    <3>2. trade'.oid[l] = len + 1 /\ trade'.exec[l] = 0
      BY <2>3 DEF GivenExit
    <3>3. trade'.x + (orders'[len + 1].filled - 0) = account.sold
      BY <1>5, <1>6, <2>1, <2>3
    <3> QED
      BY <1>1, <1>3, <2>4, <3>1, <3>2, <3>3 DEF Sold
  <2>6. Bought(trade', orders', channel', account'.bought, listed')
    <3>1. KnowsEntry(trade) => KnowsEntry(trade')
      BY <1>2, <2>3, FieldsType DEF KnowsEntry, GivenExit
    <3>2. orders'[1].filled = orders[1].filled
      BY <2>1, <2>4
    <3>3. LastComing(channel, orders, 1) => LastComing(channel', orders', 1)
      BY <1>2, <2>2, <3>2, LastAppend
    <3>4. \A i \in 1 .. Len(channel') : \/ i \in 1 .. Len(channel) /\ channel'[i] = channel[i]
                                        \/ channel'[i] = d
      BY <1>2, <2>2, AppendElements
    <3>5. (\E i \in 1 .. Len(channel') : Executes(channel'[i], 1)) => LastComing(channel', orders', 1)
      BY <2>2, <3>3, <3>4 DEF SumsInv, Bought, Executes
    <3>6. \A i \in 1 .. Len(channel') : channel'[i].fee = 0
      BY <2>2, <3>4 DEF SumsInv, Bought
    <3>7. trade'.e = trade.e
      BY <2>3
    <3> QED
      BY <1>1, <1>3, <2>1, <3>1, <3>2, <3>3, <3>5, <3>6, <3>7 DEF SumsInv, Bought
  <2>7. Covered(orders', account'.bought, account'.sold)
    <3>1. trade.e <= account.bought
      BY DEF SumsInv, Bought
    <3>2. account.sold + (orders'[len + 1].qty - orders'[len + 1].filled) <= account.bought
      BY <1>5, <1>6, <2>1, <3>1
    <3>3. \A m \in 2 .. len + 1 : m = len + 1 \/ (m \in 2 .. len /\ m \in 1 .. len)
      BY <1>2
    <3> QED
      BY <1>3, <2>1, <3>2, <3>3 DEF SumsInv, Covered
  <2> QED
    BY <2>5, <2>6, <2>7 DEF SumsInv
<1>8. CASE Refuse /\ (trade' = ResetLeg(trade, l) \/ trade' = OutOfFunds(trade, l))
  <2> DEFINE u == ResetLeg(trade, l)
  <2>1. u \in Trade /\ Freed(trade, u, l) /\ u.e = trade.e /\ u.x = trade.x
    BY <1>2, ResetFrees
  <2>2. SameLegs(u, trade') /\ trade'.e = u.e /\ trade'.x = u.x
    <3>1. CASE trade' = u
      BY <3>1 DEF SameLegs
    <3>2. CASE trade' = [u EXCEPT !.exitState = "error"]
      <4>1. "error" \in ExitState
        BY StateNames
      <4> HIDE DEF u
      <4> QED
        BY <2>1, <3>2, <4>1, StateSame
    <3> QED
      BY <1>8, <3>1, <3>2 DEF OutOfFunds
  <2> HIDE DEF u
  <2>3. Freed(trade, trade', l)
    BY <1>2, <2>1, <2>2, FreedThenSame
  <2>4. \A k \in ExitLegs : trade'.oid[k] = None
    BY <1>1, <1>2, <2>3, FieldsType DEF Freed, OthersSame
  <2>5. KnowsEntry(trade) => KnowsEntry(trade')
    BY <1>2, <2>3, FieldsType DEF KnowsEntry, Freed, OthersSame
  <2>6. UNCHANGED <<orders, channel>>
    BY <1>8 DEF Refuse
  <2> QED
    BY <1>1, <1>3, <2>1, <2>2, <2>4, <2>5, <2>6, SameSums
<1> QED
  BY <1>4, <1>7, <1>8


---------------------------------------------------------------------------
\* What an execution adds to the order, to the account and to the queue
LEMMA FillCounts ==
  ASSUME Counting, TypeInv, BooksInv, OpInv, NEW n \in DOMAIN orders, NEW k \in FillSizes,
         Fill(n, k)
  PROVE  /\ n \in 1 .. Len(orders) /\ k \in Nat \ {0} /\ orders[n].status = "live"
         /\ UNCHANGED <<trade, listed>>
         /\ account'.bought = IF n = 1 THEN account.bought + k ELSE account.bought
         /\ account'.sold = IF n = 1 THEN account.sold ELSE account.sold + k
         /\ \E p \in Order, d \in SignalData :
              /\ orders' = [orders EXCEPT ![n] = p] /\ channel' = Append(channel, d)
              /\ p.filled = orders[n].filled + k /\ p.qty = orders[n].qty /\ p.filled <= p.qty
              /\ Executes(d, n) /\ d.cum = p.filled /\ d.fee = 0
<1>1. n \in 1 .. Len(orders) /\ n \in Nat /\ account \in [bought : Nat, sold : Nat]
  BY VariablesType
<1>2. k \in Nat \ {0} /\ BaseFee[k] = 0
  BY ConstantsAssumption DEF ConstantsAssumption, Counting
<1>3. /\ orders[n].status = "live" /\ UNCHANGED <<trade, listed>>
      /\ account' = IF orders[n].side = "buy" THEN [account EXCEPT !.bought = @ + k - BaseFee[k]]
                                              ELSE [account EXCEPT !.sold = @ + k]
  BY DEF Fill, Live
<1>4. orders[n].side = IF n = 1 THEN "buy" ELSE "sell"
  BY <1>1 DEF BooksInv, Books, Ledger, Kept
<1>5. PICK p \in Order, d \in SignalData :
           /\ orders' = [orders EXCEPT ![n] = p] /\ channel' = Append(channel, d)
           /\ GoesOn(orders[n], p) /\ Tells(d, orders[n], p, n)
           /\ p.filled = orders[n].filled + k /\ d.kind = "traded"
           /\ orders[n].side = "buy" => d.fee = BaseFee[k]
           /\ orders[n].side = "sell" => d.fee = 0
  BY FillTells
<1>6. d.fee = 0
  BY <1>2, <1>4, <1>5
<1>7. Executes(d, n) /\ d.cum = p.filled
  <2>1. About(d) = n /\ d.id = n
    BY <1>1, <1>5, ReportAbout DEF Tells
  <2> QED
    BY <1>5, <2>1 DEF Tells, Executes
<1>8. p.qty = orders[n].qty /\ p.filled <= p.qty
  BY <1>5 DEF GoesOn
<1>9. /\ account'.bought = IF n = 1 THEN account.bought + k ELSE account.bought
      /\ account'.sold = IF n = 1 THEN account.sold ELSE account.sold + k
  BY <1>1, <1>2, <1>3, <1>4
<1> QED
  BY <1>1, <1>2, <1>3, <1>5, <1>6, <1>7, <1>8, <1>9

\* An execution of the entry brings its lots, and their report is on its way
LEMMA EntryFillSums ==
  ASSUME Counting, TypeInv, BooksInv, OpInv, SumsInv, NEW k \in FillSizes,
         1 \in DOMAIN orders, Fill(1, k)
  PROVE  SumsInv'
<1>1. PICK p \in Order, d \in SignalData :
              /\ orders' = [orders EXCEPT ![1] = p] /\ channel' = Append(channel, d)
              /\ p.filled = orders[1].filled + k
              /\ Executes(d, 1) /\ d.cum = p.filled /\ d.fee = 0
  BY FillCounts
<1>2. /\ k \in Nat \ {0} /\ orders[1].status = "live" /\ UNCHANGED <<trade, listed>>
      /\ account'.bought = account.bought + k /\ account'.sold = account.sold
  BY FillCounts
<1>3. /\ Len(orders') = Len(orders) /\ orders # <<>> /\ orders' # <<>> /\ 1 \in 1 .. Len(orders)
      /\ orders'[1] = p
      /\ \A m \in 1 .. Len(orders) : m # 1 => orders'[m] = orders[m]
  <2>1. 1 \in 1 .. Len(orders)
    BY VariablesType
  <2> QED
    BY <1>1, <2>1, OrderStep
<1>4. /\ account.bought \in Nat /\ account.sold \in Nat /\ trade.e \in Int
      /\ channel \in Seq(SignalData)
      /\ \A m \in 2 .. Len(orders) : m \in 1 .. Len(orders) /\ m # 1 /\ m # None
  BY SumsType, VariablesType
<1>5. \A m \in 2 .. Len(orders) : /\ orders'[m] = orders[m]
                                  /\ orders[m].filled \in Nat /\ orders[m].qty \in Int
  BY <1>3, <1>4, SumsType
<1>6. Sold(trade', orders', account'.sold)
  <2>1. \A l \in ExitLegs : trade.oid[l] # None => trade.oid[l] \in 2 .. Len(orders)
    BY DEF BooksInv, Books, Exits, LegOf
  <2> QED
    BY <1>2, <1>5, <2>1 DEF SumsInv, Sold
<1>7. Bought(trade', orders', channel', account'.bought, listed')
  <2>1. KnowsEntry(trade')
    BY <1>2, <1>3 DEF BooksInv, Books, EntryLeg, KnowsEntry
  <2>2. /\ \A i \in 1 .. Len(channel') : \/ i \in 1 .. Len(channel) /\ channel'[i] = channel[i]
                                         \/ channel'[i] = d
        /\ Len(channel) + 1 \in 1 .. Len(channel') /\ channel'[Len(channel) + 1] = d
    BY <1>1, <1>4, AppendElements, AppendProperties
  <2>3. LastComing(channel', orders', 1)
    BY <1>1, <1>3, <2>2 DEF LastComing
  <2>4. \A i \in 1 .. Len(channel') : channel'[i].fee = 0
    BY <1>1, <2>2 DEF SumsInv, Bought
  <2>5. orders[1].filled = account.bought /\ 0 <= trade.e /\ trade.e <= account.bought
    BY <1>3 DEF SumsInv, Bought
  <2>6. orders'[1].filled = account'.bought /\ 0 <= trade'.e /\ trade'.e <= account'.bought
    BY <1>1, <1>2, <1>3, <1>4, <2>5
  <2> QED
    BY <1>3, <2>1, <2>3, <2>4, <2>6 DEF Bought
<1>8. Covered(orders', account'.bought, account'.sold)
  <2>1. Len(orders') = Len(orders) /\ account'.sold = account.sold
        /\ account'.bought \in Nat /\ account.bought <= account'.bought
    BY <1>2, <1>3, <1>4
  <2>2. account.sold <= account.bought
    BY DEF SumsInv, Covered
  <2>3. ASSUME NEW m \in 2 .. Len(orders), orders'[m].status = "live"
        PROVE  account.sold + (orders'[m].qty - orders'[m].filled) <= account'.bought
    <3>1. orders'[m] = orders[m] /\ orders[m].filled \in Nat /\ orders[m].qty \in Int
      BY <1>5
    <3>2. account.sold + (orders[m].qty - orders[m].filled) <= account.bought
      BY <2>3, <3>1 DEF SumsInv, Covered
    <3> QED
      BY <1>4, <2>1, <3>1, <3>2
  <2> QED
    BY <1>4, <2>1, <2>2, <2>3 DEF Covered
<1> QED
  BY <1>6, <1>7, <1>8 DEF SumsInv

\* An execution of an exit order takes its lots, which its leg will be told of
LEMMA ExitFillSums ==
  ASSUME Counting, TypeInv, BooksInv, OpInv, SumsInv, NEW n \in DOMAIN orders, n # 1,
         NEW k \in FillSizes, Fill(n, k)
  PROVE  SumsInv'
<1>1. PICK p \in Order, d \in SignalData :
              /\ orders' = [orders EXCEPT ![n] = p] /\ channel' = Append(channel, d)
              /\ p.filled = orders[n].filled + k /\ p.qty = orders[n].qty /\ p.filled <= p.qty
              /\ Executes(d, n) /\ d.cum = p.filled /\ d.fee = 0
  BY FillCounts
<1>2. /\ n \in 1 .. Len(orders) /\ k \in Nat \ {0} /\ orders[n].status = "live"
      /\ UNCHANGED <<trade, listed>>
      /\ account'.bought = account.bought /\ account'.sold = account.sold + k
  BY FillCounts
<1>3. /\ Len(orders') = Len(orders) /\ orders # <<>> /\ orders' # <<>> /\ 1 \in 1 .. Len(orders)
      /\ orders'[n] = p
      /\ \A m \in 1 .. Len(orders) : m # n => orders'[m] = orders[m]
  BY <1>1, <1>2, OrderStep
<1>4. /\ account.bought \in Nat /\ account.sold \in Nat /\ trade.x \in Nat
      /\ channel \in Seq(SignalData) /\ Len(orders) \in Nat
      /\ orders[n].filled \in Nat /\ orders[n].qty \in Int
      /\ \A l \in ExitLegs : trade.exec[l] \in Nat
      /\ \A m \in 2 .. Len(orders) : m \in 1 .. Len(orders) /\ m # 1 /\ m # None
  BY <1>2, SumsType, VariablesType
<1>5. n \in 2 .. Len(orders)
  BY <1>2, <1>4
<1>6. PICK l \in ExitLegs : trade.oid[l] = n
  BY <1>2, <1>5 DEF BooksInv, Books, Exits
<1>7. trade.oid[l] # None /\ \A j \in ExitLegs : trade.oid[j] # None => j = l
  <2>1. trade.oid["limit"] = None \/ trade.oid["stop"] = None
    BY DEF BooksInv, Books, Exits
  <2> QED
    BY <1>4, <1>5, <1>6, <2>1 DEF ExitLegs
<1>8. Sold(trade', orders', account'.sold)
  <2>1. trade.x + (orders[n].filled - trade.exec[l]) = account.sold
    BY <1>6, <1>7 DEF SumsInv, Sold
  <2>2. trade.x + (orders'[n].filled - trade.exec[l]) = account.sold + k
    <3>1. orders'[n].filled = orders[n].filled + k
      BY <1>1, <1>3
    <3>2. /\ trade.exec[l] \in Nat /\ k \in Nat /\ trade.x \in Nat /\ account.sold \in Nat
          /\ orders[n].filled \in Nat
      BY <1>2, <1>4, <1>6
    <3> DEFINE x == trade.x
               f == orders[n].filled
               g == orders'[n].filled
               e == trade.exec[l]
               y == account.sold
    <3>3. x + (f - e) = y /\ g = f + k /\ x \in Nat /\ f \in Nat /\ e \in Nat /\ y \in Nat /\ k \in Nat
      BY <2>1, <3>1, <3>2
    <3> HIDE DEF x, f, g, e, y
    <3>4. x + (g - e) = y + k
      BY ONLY <3>3
    <3> QED
      BY <3>4 DEF x, g, e, y
  <2> QED
    BY <1>2, <1>6, <1>7, <2>2 DEF Sold
<1>9. Bought(trade', orders', channel', account'.bought, listed')
  <2>1. orders'[1] = orders[1]
    BY <1>3
  <2>2. LastComing(channel, orders, 1) => LastComing(channel', orders', 1)
    BY <1>1, <1>4, <2>1, LastAppend
  <2>3. /\ \A i \in 1 .. Len(channel') : \/ i \in 1 .. Len(channel) /\ channel'[i] = channel[i]
                                         \/ channel'[i] = d
    BY <1>1, <1>4, AppendElements
  <2>4. ~Executes(d, 1)
    BY <1>1 DEF Executes
  <2>5. (\E i \in 1 .. Len(channel') : Executes(channel'[i], 1)) => LastComing(channel', orders', 1)
    BY <2>2, <2>3, <2>4 DEF SumsInv, Bought
  <2>6. \A i \in 1 .. Len(channel') : channel'[i].fee = 0
    BY <1>1, <2>3 DEF SumsInv, Bought
  <2> QED
    BY <1>2, <1>3, <2>1, <2>2, <2>5, <2>6 DEF SumsInv, Bought
<1>10. Covered(orders', account'.bought, account'.sold)
  <2>1. account.sold + (orders[n].qty - orders[n].filled) <= account.bought
    BY <1>2, <1>5 DEF SumsInv, Covered
  <2> DEFINE a == account.sold
             b == account.bought
             q == orders[n].qty
             f == orders[n].filled
  <2>2. a \in Nat /\ b \in Nat /\ q \in Int /\ f \in Nat /\ k \in Nat /\ f + k <= q /\ a + (q - f) <= b
    BY <1>1, <1>2, <1>4, <2>1
  <2> HIDE DEF a, b, q, f
  <2>5. a + k <= b /\ a + k + (q - (f + k)) <= b
    BY ONLY <2>2
  <2>3. account.sold + k + (orders'[n].qty - orders'[n].filled) <= account.bought
    BY <1>1, <1>3, <2>5 DEF a, b, q, f
  <2>6. account.sold + k <= account.bought
    BY <2>5 DEF a, b
  <2>4. ASSUME NEW m \in 2 .. Len(orders), orders'[m].status = "live" PROVE m = n
    <3>1. ASSUME m # n PROVE FALSE
      <4>1. orders[m].status = "live"
        BY <1>3, <1>4, <2>4, <3>1
      <4>2. PICK j \in ExitLegs : trade.oid[j] = m
        BY <4>1 DEF BooksInv, Books, Exits
      <4> QED
        BY <1>4, <1>6, <1>7, <3>1, <4>2
    <3> QED
      BY <3>1
  <2> QED
    BY <1>2, <1>3, <2>6, <2>3, <2>4 DEF Covered
<1> QED
  BY <1>8, <1>9, <1>10 DEF SumsInv


---------------------------------------------------------------------------
\* cancel_order succeeds, and order_info shows what the order executed: it is counted
LEMMA CancelAcceptedSums ==
  ASSUME Counting, TypeInv, BooksInv, OpInv, SumsInv, NEW th \in Thread, CancelAccepted(th)
  PROVE  SumsInv'
<1>1. PICK l \in Legs, n \in 1 .. Len(orders), p \in Order, d \in SignalData, v \in Trade :
           /\ n = trade.oid[l] /\ HasOrder(trade, l)
           /\ orders' = [orders EXCEPT ![n] = p] /\ channel' = Append(channel, d)
           /\ p.filled = orders[n].filled /\ p.status = "canceled" /\ d.kind # "traded" /\ d.fee = 0
           /\ v = CheckAndReset(trade, l, n, p) /\ Freed(trade, v, l)
           /\ trade' = AfterCancel(op[th].name, l, v)
  BY CancelAcceptedShape DEF Counting
<1>2. /\ Sold(trade, orders', account.sold)
      /\ Bought(trade, orders', channel', account.bought, listed)
      /\ Covered(orders', account.bought, account.sold)
  BY <1>1, EndedSums
<1>3. UNCHANGED <<account, listed>> /\ trade \in Trade /\ orders \in Seq(Order)
  BY VariablesType DEF CancelAccepted
<1>4. /\ n # None /\ n \in 1 .. MaxOrders /\ (l = "entry" => n = 1)
      /\ l # "entry" => l \in ExitLegs /\ n \in 2 .. Len(orders) /\ trade.exec[l] <= orders[n].filled
  BY <1>1, LegOrder DEF LegOf
<1>5. Books(trade, orders, channel, listed, Opening)
  BY DEF BooksInv
<1>6. /\ l = "entry" =>
                /\ v.e = IF p.filled > trade.e THEN p.filled ELSE trade.e
                /\ v.x = trade.x
      /\ l # "entry" =>
                /\ v.e = trade.e
                /\ v.x = IF p.filled > trade.exec[l] THEN trade.x + (p.filled - trade.exec[l])
                                                     ELSE trade.x
  BY <1>1, <1>3, <1>4, <1>5, CheckAndResetFrees
<1>7. SameLegs(v, trade') /\ trade'.e = v.e /\ trade'.x = v.x
  BY <1>1, AfterCancelSame
<1>8. Freed(trade, trade', l)
  BY <1>1, <1>7, FreedThenSame
<1>9. ExitLegs \subseteq Legs /\ "entry" \in Legs /\ "entry" \notin ExitLegs
  BY <1>3, FieldsType
<1>10. /\ Len(orders') = Len(orders) /\ orders # <<>> /\ orders' # <<>>
       /\ orders'[n] = p
  BY <1>1, OrderStep
<1>11. /\ account.bought \in Nat /\ account.sold \in Nat /\ trade.e \in Int /\ trade.x \in Nat
       /\ \A j \in ExitLegs : trade.exec[j] \in Nat
       /\ p.filled \in Nat
  BY SumsType DEF Order
<1>12. CASE l = "entry"
  <2>1. p.filled = account.bought /\ 0 <= trade.e /\ trade.e <= account.bought
    BY <1>2, <1>4, <1>10, <1>12 DEF Bought
  <2>2. trade'.e = account.bought /\ trade'.x = trade.x
    BY <1>6, <1>7, <1>11, <1>12, <2>1
  <2>3. \A j \in ExitLegs : /\ trade'.oid[j] = trade.oid[j]
                            /\ trade.oid[j] # None => trade'.exec[j] = trade.exec[j]
    BY <1>8, <1>9, <1>12 DEF Freed, OthersSame
  <2>4. Sold(trade', orders', account.sold)
    BY <1>2, <2>2, <2>3 DEF Sold
  <2>5. Bought(trade', orders', channel', account.bought, listed)
    BY <1>2, <1>11, <2>2 DEF Bought
  <2> QED
    BY <1>2, <1>3, <2>4, <2>5 DEF SumsInv
<1>13. CASE l # "entry"
  <2>1. trade.x + (p.filled - trade.exec[l]) = account.sold
    BY <1>1, <1>2, <1>4, <1>10, <1>13 DEF Sold
  <2>2. trade'.e = trade.e /\ trade'.x = account.sold
    <3> DEFINE x == trade.x
               e == trade.exec[l]
               f == p.filled
               s == account.sold
               y == trade'.x
    <3>1. /\ x + (f - e) = s /\ e <= f /\ x \in Nat /\ e \in Nat /\ f \in Nat /\ s \in Nat
          /\ y = IF f > e THEN x + (f - e) ELSE x
      BY <1>1, <1>4, <1>6, <1>7, <1>11, <1>13, <2>1
    <3> HIDE DEF x, e, f, s, y
    <3>2. y = s
      BY ONLY <3>1
    <3> QED
      BY <1>6, <1>7, <1>13, <3>2 DEF y, s
  <2>3. \A j \in ExitLegs : trade'.oid[j] = None
    <3>1. trade'.oid[l] = None /\ \A j \in ExitLegs : j # l => trade'.oid[j] = trade.oid[j]
      BY <1>8, <1>9 DEF Freed, OthersSame
    <3>2. trade.oid["limit"] = None \/ trade.oid["stop"] = None
      BY DEF BooksInv, Books, Exits
    <3> QED
      BY <1>1, <1>4, <1>13, <3>1, <3>2 DEF ExitLegs
  <2>4. KnowsEntry(trade) => KnowsEntry(trade')
    BY <1>8, <1>9, <1>13 DEF Freed, OthersSame, KnowsEntry
  <2>5. Sold(trade', orders', account.sold)
    BY <2>2, <2>3 DEF Sold
  <2>6. Bought(trade', orders', channel', account.bought, listed)
    BY <1>2, <2>2, <2>4 DEF Bought
  <2> QED
    BY <1>2, <1>3, <2>5, <2>6 DEF SumsInv
<1> QED
  BY <1>12, <1>13

---------------------------------------------------------------------------
\* A report is taken: the last execution of the entry is still to come if one is
LEMMA BoughtTail ==
  ASSUME TypeInv, BooksInv, SumsInv, channel # <<>>, NEW u, 0 <= u.e, u.e <= account.bought,
         listed => \/ u.e = account.bought
                   \/ KnowsEntry(u) /\ LastComing(Tail(channel), orders, 1)
  PROVE  Bought(u, orders, Tail(channel), account.bought, listed)
<1> DEFINE b == Tail(channel)
<1>1. channel \in Seq(SignalData) /\ Reports(channel, orders) /\ Len(channel) \in Nat
  BY VariablesType, TailElements DEF BooksInv, Books
<1>2. \A i \in 1 .. Len(b) : \E j \in 1 .. Len(channel) : j # 1 /\ b[i] = channel[j]
  BY <1>1, ExecutesTail
<1>3. \A i \in 1 .. Len(b) : b[i].fee = 0
  BY <1>2 DEF SumsInv, Bought
<1>4. ASSUME NEW i \in 1 .. Len(b), Executes(b[i], 1) PROVE LastComing(b, orders, 1)
  <2>1. PICK j \in 1 .. Len(channel) : j # 1 /\ Executes(channel[j], 1)
    BY <1>2, <1>4
  <2>2. LastComing(channel, orders, 1)
    BY <2>1 DEF SumsInv, Bought
  <2>3. ASSUME Executes(Head(channel), 1), Head(channel).cum = orders[1].filled PROVE FALSE
    <3>1. Head(channel) = channel[1] /\ 1 \in 1 .. Len(channel) /\ 1 < j
      BY <1>1, <2>1, TailElements
    <3>2. channel[1] \in SignalData /\ channel[j] \in SignalData
      BY <1>1, <3>1, ElementOfSeq
    <3>3. Follows(channel[1], channel[j])
      BY <1>1, <3>1 DEF Reports
    <3>4. channel[1].cum < channel[j].cum
      BY <2>1, <2>3, <3>1, <3>3 DEF Follows, Executes, About
    <3>5. PICK m \in 1 .. Len(orders) : ReportOf(channel[j], orders[m], m)
      BY <1>1 DEF Reports
    <3>6. m = 1 /\ channel[j].cum <= orders[1].filled
      BY <2>1, <3>5 DEF ReportOf, Executes
    <3>7. channel[1].cum \in Nat /\ channel[j].cum \in Nat
      BY <3>2 DEF SignalData
    <3>8. channel[1].cum = orders[1].filled
      BY <2>3, <3>1
    <3> QED
      BY <3>4, <3>6, <3>7, <3>8
  <2> QED
    BY <1>1, <2>2, <2>3, LastTail
<1>5. account.bought = IF orders = <<>> THEN 0 ELSE orders[1].filled
  BY DEF SumsInv, Bought
<1> HIDE DEF b
<1>6. Bought(u, orders, b, account.bought, listed)
  BY <1>3, <1>4, <1>5 DEF Bought, b
<1> QED
  BY <1>6 DEF b

\* A report that is not the last execution of the entry, or that the trade ignores
LEMMA KeptTail ==
  ASSUME TypeInv, BooksInv, SumsInv, channel # <<>>, NEW u, u.e = trade.e,
         KnowsEntry(trade) => KnowsEntry(u),
         listed /\ KnowsEntry(trade) => ~Executes(Head(channel), 1)
  PROVE  Bought(u, orders, Tail(channel), account.bought, listed)
<1>1. channel \in Seq(SignalData)
  BY VariablesType
<1>2. listed => \/ u.e = account.bought
                \/ KnowsEntry(u) /\ LastComing(Tail(channel), orders, 1)
  BY <1>1, LastTail DEF SumsInv, Bought
<1>3. 0 <= u.e /\ u.e <= account.bought
  BY DEF SumsInv, Bought
<1> QED
  BY <1>2, <1>3, BoughtTail


\* An execution of the entry is counted: it is the last, or the leg waits for the last
LEMMA EntryTradedSums ==
  ASSUME Counting, TypeInv, BooksInv, SumsInv, channel # <<>>, Executes(Head(channel), 1),
         KnowsEntry(trade)
  PROVE  /\ Sold(EntryTraded(trade, Head(channel)), orders, account.sold)
         /\ Bought(EntryTraded(trade, Head(channel)), orders, Tail(channel), account.bought, listed)
<1> DEFINE d == Head(channel)
           u == EntryTraded(trade, d)
<1>1. /\ trade \in Trade /\ orders \in Seq(Order) /\ channel \in Seq(SignalData)
      /\ d \in SignalData /\ d.kind = "traded" /\ d.id = 1
  BY VariablesType, TailElements DEF Executes
<1>2. Books(trade, orders, channel, listed, Opening)
  BY DEF BooksInv
<1>3. PICK m \in 1 .. Len(orders) : ReportOf(d, orders[m], m)
  BY <1>1, <1>2, HeadReport
<1>4. m = 1 /\ d.cum <= orders[1].filled /\ orders # <<>>
  <2>1. m = 1 /\ d.cum <= orders[1].filled
    BY <1>1, <1>3 DEF ReportOf
  <2>2. orders # <<>>
    BY <1>3, EmptySeq
  <2> QED
    BY <2>1, <2>2
<1>5. d.fee = 0 /\ d.cum \in Nat
  <2>1. channel[1] = d /\ 1 \in 1 .. Len(channel)
    BY <1>1, TailElements
  <2> QED
    BY <1>1, <2>1 DEF SumsInv, Bought, SignalData
<1>6. PICK w \in Trade :
           /\ SameLegs(trade, w) /\ w.e = d.cum - d.fee /\ w.x = trade.x
           /\ IF w.e >= trade.oq \/ d.full
              THEN u = [ResetLeg(w, "entry") EXCEPT !.entryState = "filled"]
              ELSE u = [w EXCEPT !.entryState = "partially_filled"]
  BY <1>1, EntryTradedShape
<1>7. w.e = d.cum
  BY <1>5, <1>6
<1>8. /\ "entry" \in Legs /\ ExitLegs \subseteq Legs /\ "entry" \notin ExitLegs
      /\ "filled" \in EntryState /\ "partially_filled" \in EntryState
  BY <1>1, FieldsType, StateNames
<1>9. account.bought = orders[1].filled /\ account.bought \in Nat
  BY <1>4, SumsType DEF SumsInv, Bought
<1>10. LastComing(channel, orders, 1)
  <2>1. channel[1] = d /\ 1 \in 1 .. Len(channel)
    BY <1>1, TailElements
  <2> QED
    BY <2>1 DEF SumsInv, Bought
<1> HIDE DEF u
<1>11. CASE w.e >= trade.oq \/ d.full
  <2> DEFINE r == ResetLeg(w, "entry")
  <2>1. r \in Trade /\ Freed(w, r, "entry") /\ r.e = w.e /\ r.x = w.x
    BY <1>8, ResetFrees
  <2>2. u = [r EXCEPT !.entryState = "filled"]
    BY <1>6, <1>11
  <2> HIDE DEF r
  <2>3. SameLegs(r, u) /\ u.e = r.e /\ u.x = r.x
    BY <1>8, <2>1, <2>2, StateSame
  <2>4. \A l \in ExitLegs : /\ u.oid[l] = trade.oid[l]
                            /\ trade.oid[l] # None => u.exec[l] = trade.exec[l]
    BY <1>6, <1>8, <2>1, <2>3 DEF SameLegs, Freed, OthersSame
  <2>5. d.cum = orders[1].filled
    <3>1. Ledger(orders, trade.oq) /\ orders[1].qty = trade.oq /\ trade.oq \in Nat
      BY <1>1, <1>2, <1>4, FieldsType DEF Books, Ledger
    <3>2. d.full \/ d.cum >= orders[1].qty
      BY <1>5, <1>7, <1>11, <3>1
    <3> QED
      BY <1>1, <1>3, <1>4, <3>1, <3>2, FullIsOver
  <2>6. u.e = account.bought /\ u.x = trade.x
    BY <1>6, <1>7, <1>9, <2>1, <2>3, <2>5
  <2>7. Sold(u, orders, account.sold)
    BY <2>4, <2>6 DEF SumsInv, Sold
  <2>8. Bought(u, orders, Tail(channel), account.bought, listed)
    BY <1>9, <2>6, BoughtTail
  <2> QED
    BY <2>7, <2>8 DEF u
<1>12. CASE ~(w.e >= trade.oq \/ d.full)
  <2>1. u = [w EXCEPT !.entryState = "partially_filled"]
    BY <1>6, <1>12
  <2>2. SameLegs(w, u) /\ u.e = w.e /\ u.x = w.x
    BY <1>8, <2>1, StateSame
  <2>3. \A l \in ExitLegs : /\ u.oid[l] = trade.oid[l]
                            /\ trade.oid[l] # None => u.exec[l] = trade.exec[l]
    BY <1>6, <1>8, <2>2 DEF SameLegs
  <2>4. KnowsEntry(u)
    BY <1>6, <2>2 DEF SameLegs, KnowsEntry
  <2>5. u.e = d.cum /\ u.x = trade.x /\ 0 <= u.e /\ u.e <= account.bought
    BY <1>4, <1>5, <1>6, <1>7, <1>9, <2>2
  <2>6. u.e = account.bought \/ LastComing(Tail(channel), orders, 1)
    BY <1>1, <1>9, <1>10, <2>5, LastTail
  <2>7. Sold(u, orders, account.sold)
    BY <2>3, <2>5 DEF SumsInv, Sold
  <2>8. Bought(u, orders, Tail(channel), account.bought, listed)
    BY <2>4, <2>5, <2>6, BoughtTail
  <2> QED
    BY <2>7, <2>8 DEF u
<1> QED
  BY <1>11, <1>12

\* An execution of an exit order is counted: the leg loses its order with the last one
LEMMA ExitTradedSums ==
  ASSUME TypeInv, BooksInv, SumsInv, channel # <<>>,
         NEW l \in ExitLegs, Executes(Head(channel), trade.oid[l])
  PROVE  /\ Sold(ExitTraded(trade, l, Head(channel)), orders, account.sold)
         /\ Bought(ExitTraded(trade, l, Head(channel)), orders, Tail(channel), account.bought, listed)
<1> DEFINE d == Head(channel)
           n == trade.oid[l]
           u == ExitTraded(trade, l, d)
<1>1. /\ trade \in Trade /\ orders \in Seq(Order) /\ channel \in Seq(SignalData)
      /\ d \in SignalData /\ d.kind = "traded" /\ d.id = n
  BY VariablesType, TailElements DEF Executes
<1>2. Books(trade, orders, channel, listed, Opening)
  BY DEF BooksInv
<1>3. n # None /\ trade.exec[l] < d.cum
  BY <1>1, <1>2, HeadReport
<1>4. n \in 2 .. Len(orders) /\ n # 1 /\ trade.qty[l] = orders[n].qty /\ n \in 1 .. Len(orders)
  BY <1>2, <1>3, SumsType DEF Books, Exits, LegOf
<1>5. ReportOf(d, orders[n], n)
  <2>1. PICK m \in 1 .. Len(orders) : ReportOf(d, orders[m], m)
    BY <1>1, <1>2, HeadReport
  <2>2. m = n
    BY <1>1, <2>1 DEF ReportOf
  <2> QED
    BY <2>1, <2>2
<1>6. /\ trade.x \in Nat /\ trade.exec[l] \in Nat /\ orders[n].filled \in Nat /\ d.cum \in Nat
      /\ account.sold \in Nat
  BY <1>1, <1>4, SumsType DEF SignalData
<1>7. PICK w \in Trade :
        /\ Counted(trade, w, l, d.cum) /\ w.x = trade.x + (d.cum - trade.exec[l])
        /\ u = IF d.cum >= trade.qty[l] \/ d.full THEN ResetLeg(w, l) ELSE w
  BY <1>1, <1>3, ExitTradedShape
<1>8. /\ l \in Legs /\ "entry" \in Legs /\ l # "entry" /\ ExitLegs \subseteq Legs
  BY <1>1, FieldsType
<1>9. w.x + (orders[n].filled - d.cum) = account.sold
  <2>1. trade.x + (orders[n].filled - trade.exec[l]) = account.sold
    BY <1>3 DEF SumsInv, Sold
  <2> DEFINE x == trade.x
             f == orders[n].filled
             c == d.cum
             e == trade.exec[l]
             s == account.sold
             y == w.x
  <2>2. /\ x + (f - e) = s /\ y = x + (c - e)
        /\ x \in Nat /\ f \in Nat /\ c \in Nat /\ e \in Nat /\ s \in Nat
    BY <1>6, <1>7, <2>1
  <2> HIDE DEF x, f, c, e, s, y
  <2>3. y + (f - c) = s
    BY ONLY <2>2
  <2> QED
    BY <2>3 DEF f, c, s, y
<1>10. trade.oid["limit"] = None \/ trade.oid["stop"] = None
  BY DEF BooksInv, Books, Exits
<1> HIDE DEF u
<1>11. CASE d.cum >= trade.qty[l] \/ d.full
  <2>1. u = ResetLeg(w, l)
    BY <1>7, <1>11
  <2>2. Freed(w, u, l) /\ u.e = w.e /\ u.x = w.x
    BY <1>8, <2>1, ResetFrees
  <2>3. d.cum = orders[n].filled
    BY <1>1, <1>2, <1>4, <1>5, <1>11, FullIsOver DEF Books
  <2>4. u.x = account.sold /\ u.e = trade.e
    <3>1. w.x \in Nat
      BY FieldsType
    <3> QED
      BY <1>6, <1>7, <1>9, <2>2, <2>3, <3>1 DEF Counted
  <2>5. \A k \in ExitLegs : u.oid[k] = None
    <3>1. u.oid[l] = None /\ \A k \in ExitLegs : k # l => u.oid[k] = trade.oid[k]
      BY <1>7, <1>8, <2>2 DEF Freed, OthersSame, Counted
    <3> QED
      BY <1>3, <1>10, <3>1 DEF ExitLegs
  <2>6. KnowsEntry(trade) => KnowsEntry(u)
    BY <1>7, <1>8, <2>2 DEF Freed, OthersSame, Counted, KnowsEntry
  <2>7. ~Executes(d, 1)
    BY <1>1, <1>4 DEF Executes
  <2>8. Sold(u, orders, account.sold)
    BY <2>4, <2>5 DEF Sold
  <2>9. Bought(u, orders, Tail(channel), account.bought, listed)
    BY <2>4, <2>6, <2>7, KeptTail
  <2> QED
    BY <2>8, <2>9 DEF u
<1>12. CASE ~(d.cum >= trade.qty[l] \/ d.full)
  <2>1. u = w
    BY <1>7, <1>12
  <2>2. u.oid = trade.oid /\ u.exec[l] = d.cum /\ u.e = trade.e
    BY <1>7, <2>1 DEF Counted
  <2>3. \A k \in ExitLegs : trade.oid[k] # None => k = l
    BY <1>3, <1>10 DEF ExitLegs
  <2>4. Sold(u, orders, account.sold)
    BY <1>3, <1>9, <2>1, <2>2, <2>3 DEF Sold
  <2>5. KnowsEntry(trade) => KnowsEntry(u)
    BY <1>7, <2>1 DEF Counted, KnowsEntry
  <2>6. ~Executes(d, 1)
    BY <1>1, <1>4 DEF Executes
  <2>7. Bought(u, orders, Tail(channel), account.bought, listed)
    BY <2>2, <2>5, <2>6, KeptTail
  <2> QED
    BY <2>4, <2>7 DEF u
<1> QED
  BY <1>11, <1>12


\* The end of an order comes after its executions: the leg it frees counted them all
LEMMA EndToldSums ==
  ASSUME TypeInv, BooksInv, SumsInv, channel # <<>>, listed,
         Head(channel).kind \in Ends, NEW l \in SignalLegs(trade, Head(channel)),
         NEW u, SameLegs(ResetLeg(trade, l), u), u.e = trade.e, u.x = trade.x
  PROVE  /\ Sold(u, orders, account.sold)
         /\ Bought(u, orders, Tail(channel), account.bought, listed)
<1> DEFINE d == Head(channel)
<1>1. /\ trade \in Trade /\ orders \in Seq(Order) /\ channel \in Seq(SignalData)
      /\ d \in SignalData
  BY VariablesType, TailElements
<1>2. Books(trade, orders, channel, listed, Opening)
  BY DEF BooksInv
<1>3. PICK m \in 1 .. Len(orders) : m \in Nat \ {0} /\ ReportOf(d, orders[m], m)
  BY <1>1, <1>2, HeadReport
<1>4. About(d) = m /\ d.kind # "traded"
  BY <1>1, <1>3, ReportAbout DEF Ends
<1>5. \A i \in 1 .. Len(channel) : ~Executes(channel[i], m)
  <2>1. Reports(channel, orders)
    BY <1>2 DEF Books
  <2> QED
    BY <1>1, <1>4, <2>1, NoneAfterEnd
<1>6. ~LastComing(channel, orders, m)
  BY <1>5 DEF LastComing
<1>7. \/ l = "entry" /\ m = 1
      \/ l \in ExitLegs /\ trade.oid[l] = m /\ m \in 2 .. Len(orders)
  BY <1>1, <1>2, <1>3, SignalLeg
<1>8. "entry" \in Legs /\ ExitLegs \subseteq Legs /\ "entry" \notin ExitLegs /\ l \in Legs
  BY <1>1, <1>7, FieldsType
<1> DEFINE r == ResetLeg(trade, l)
<1>9. Freed(trade, r, l)
  BY <1>1, <1>8, ResetFrees
<1> HIDE DEF r
<1>10. Freed(trade, u, l)
  BY <1>8, <1>9, FreedThenSame DEF r
<1>11. ~Executes(d, 1)
  BY <1>4 DEF Executes
<1>12. CASE l = "entry"
  <2>1. m = 1
    BY <1>7, <1>8, <1>12
  <2>2. u.e = account.bought
    BY <1>6, <2>1 DEF SumsInv, Bought
  <2>3. 0 <= u.e /\ u.e <= account.bought
    BY DEF SumsInv, Bought
  <2>4. Bought(u, orders, Tail(channel), account.bought, listed)
    BY <2>2, <2>3, BoughtTail
  <2>5. \A k \in ExitLegs : /\ u.oid[k] = trade.oid[k]
                            /\ trade.oid[k] # None => u.exec[k] = trade.exec[k]
    BY <1>8, <1>10, <1>12 DEF Freed, OthersSame
  <2>6. Sold(u, orders, account.sold)
    BY <2>5 DEF SumsInv, Sold
  <2> QED
    BY <2>4, <2>6
<1>13. CASE l # "entry"
  <2>1. l \in ExitLegs /\ trade.oid[l] = m /\ m # None
    BY <1>3, <1>7, <1>13 DEF None
  <2>2. trade.exec[l] = orders[m].filled
    BY <1>6, <2>1 DEF BooksInv, Books, Exits, LegOf
  <2>3. u.x = account.sold
    <3>1. trade.x + (orders[m].filled - trade.exec[l]) = account.sold
      BY <2>1 DEF SumsInv, Sold
    <3>2. trade.x \in Nat /\ orders[m].filled \in Nat
      BY SumsType
    <3> QED
      BY <2>2, <3>1, <3>2
  <2>4. \A k \in ExitLegs : u.oid[k] = None
    <3>1. u.oid[l] = None /\ \A k \in ExitLegs : k # l => u.oid[k] = trade.oid[k]
      BY <1>8, <1>10 DEF Freed, OthersSame
    <3>2. trade.oid["limit"] = None \/ trade.oid["stop"] = None
      BY DEF BooksInv, Books, Exits
    <3> QED
      BY <2>1, <3>1, <3>2 DEF ExitLegs
  <2>5. KnowsEntry(trade) => KnowsEntry(u)
    BY <1>8, <1>10, <1>13 DEF Freed, OthersSame, KnowsEntry
  <2>6. Bought(u, orders, Tail(channel), account.bought, listed)
    BY <1>11, <2>5, KeptTail
  <2>7. Sold(u, orders, account.sold)
    BY <2>3, <2>4 DEF Sold
  <2> QED
    BY <2>6, <2>7
<1> QED
  BY <1>12, <1>13

\* What a leg whose order ended leaves
LEMMA RemovedSame ==
  ASSUME NEW t \in Trade, NEW l \in Legs
  PROVE  /\ SameLegs(ResetLeg(t, l), Removed(t, l)) /\ Removed(t, l).e = t.e /\ Removed(t, l).x = t.x
         /\ SameLegs(ResetLeg(t, l), Rejected(t, l)) /\ Rejected(t, l).e = t.e /\ Rejected(t, l).x = t.x
<1> DEFINE r == ResetLeg(t, l)
<1>1. r \in Trade /\ r.e = t.e /\ r.x = t.x
  BY ResetFrees
<1>2. "filled" \in EntryState /\ "rejected" \in EntryState
  BY StateNames
<1>3. Removed(t, l) = r \/ \E s \in EntryState : Removed(t, l) = [r EXCEPT !.entryState = s]
  BY <1>2 DEF Removed
<1>4. Rejected(t, l) = r \/ \E s \in EntryState : Rejected(t, l) = [r EXCEPT !.entryState = s]
  BY <1>2 DEF Rejected
<1> HIDE DEF r
<1>5. ASSUME NEW v, v = r \/ \E s \in EntryState : v = [r EXCEPT !.entryState = s]
      PROVE  SameLegs(r, v) /\ v.e = r.e /\ v.x = r.x
  <2>1. CASE v = r
    BY <2>1 DEF SameLegs
  <2>2. ASSUME NEW s \in EntryState, v = [r EXCEPT !.entryState = s]
        PROVE  SameLegs(r, v) /\ v.e = r.e /\ v.x = r.x
    BY <1>1, <2>2, StateSame
  <2> QED
    BY <1>5, <2>1, <2>2
<1>6. /\ SameLegs(r, Removed(t, l)) /\ Removed(t, l).e = t.e /\ Removed(t, l).x = t.x
      /\ SameLegs(r, Rejected(t, l)) /\ Rejected(t, l).e = t.e /\ Rejected(t, l).x = t.x
  BY <1>1, <1>3, <1>4, <1>5
<1> QED
  BY <1>6 DEF r

\* The opening of an order tells its leg what it knew, or the identifier of the entry
LEMMA OpenedSame ==
  ASSUME NEW t \in Trade, NEW l \in Legs, NEW d, l # "entry" => t.oid[l] = d.id,
         l = "entry" => d.id = 1
  PROVE  /\ Opened(t, l, d).e = t.e /\ Opened(t, l, d).x = t.x
         /\ \A k \in ExitLegs : /\ Opened(t, l, d).oid[k] = t.oid[k]
                                /\ Opened(t, l, d).exec[k] = t.exec[k]
         /\ KnowsEntry(t) => KnowsEntry(Opened(t, l, d))
<1> DEFINE u == Opened(t, l, d)
<1>1. u.e = t.e /\ u.x = t.x /\ u.exec = t.exec /\ u.ref = t.ref /\ u.oid = [t.oid EXCEPT ![l] = d.id]
  BY DEF Opened, Trade
<1> HIDE DEF u
<1>2. \A k \in Legs : u.oid[k] = IF k = l THEN d.id ELSE t.oid[k]
  BY <1>1 DEF Trade
<1>3. "entry" \in Legs /\ ExitLegs \subseteq Legs /\ "entry" \notin ExitLegs
  BY FieldsType
<1>4. /\ u.e = t.e /\ u.x = t.x
      /\ \A k \in ExitLegs : u.oid[k] = t.oid[k] /\ u.exec[k] = t.exec[k]
      /\ KnowsEntry(t) => KnowsEntry(u)
  BY <1>1, <1>2, <1>3 DEF KnowsEntry
<1> QED
  BY <1>4 DEF u


\* A report that neither counts an execution nor ends an order
LEMMA OpenedToldSums ==
  ASSUME TypeInv, BooksInv, SumsInv, channel # <<>>, Head(channel).kind = "opened",
         NEW l \in SignalLegs(trade, Head(channel))
  PROVE  /\ Sold(Opened(trade, l, Head(channel)), orders, account.sold)
         /\ Bought(Opened(trade, l, Head(channel)), orders, Tail(channel), account.bought, listed)
<1> DEFINE d == Head(channel)
           u == Opened(trade, l, d)
<1>1. /\ trade \in Trade /\ orders \in Seq(Order) /\ channel \in Seq(SignalData)
      /\ d \in SignalData
  BY VariablesType, TailElements
<1>2. Books(trade, orders, channel, listed, Opening)
  BY DEF BooksInv
<1>3. PICK m \in 1 .. Len(orders) : m \in Nat \ {0} /\ ReportOf(d, orders[m], m)
  BY <1>1, <1>2, HeadReport
<1>4. d.id = m
  BY <1>3 DEF ReportOf
<1>5. \/ l = "entry" /\ m = 1
      \/ l \in ExitLegs /\ trade.oid[l] = m
  BY <1>1, <1>2, <1>3, SignalLeg
<1>6. l \in Legs /\ "entry" \notin ExitLegs
  BY <1>1, <1>5, FieldsType
<1>7. /\ u.e = trade.e /\ u.x = trade.x
      /\ \A k \in ExitLegs : u.oid[k] = trade.oid[k] /\ u.exec[k] = trade.exec[k]
      /\ KnowsEntry(trade) => KnowsEntry(u)
  BY <1>1, <1>4, <1>5, <1>6, OpenedSame
<1>8. ~Executes(d, 1)
  BY DEF Executes
<1> HIDE DEF u
<1>9. Sold(u, orders, account.sold)
  BY <1>7 DEF SumsInv, Sold
<1>10. Bought(u, orders, Tail(channel), account.bought, listed)
  BY <1>7, <1>8, KeptTail
<1> QED
  BY <1>9, <1>10 DEF u

\* The trade takes a report: the sums follow
LEMMA DeliverSums ==
  ASSUME Counting, TypeInv, BooksInv, OpInv, SumsInv, DeliverSignal
  PROVE  SumsInv'
<1> DEFINE d == Head(channel)
<1>1. /\ trade \in Trade /\ orders \in Seq(Order) /\ channel \in Seq(SignalData) /\ channel # <<>>
      /\ d \in SignalData
  BY VariablesType, TailElements DEF DeliverSignal
<1>2. /\ channel' = Tail(channel) /\ UNCHANGED <<listed, orders, account>>
      /\ IF listed /\ IsTargetOrder(trade, d) THEN trade' = OrderSignal(trade, d)
                                              ELSE trade' = trade
  BY DEF DeliverSignal
<1>3. Books(trade, orders, channel, listed, Opening)
  BY DEF BooksInv
<1>4. PICK m \in 1 .. Len(orders) : m \in Nat \ {0} /\ ReportOf(d, orders[m], m)
  BY <1>1, <1>3, HeadReport
<1>5. Covered(orders', account'.bought, account'.sold)
  BY <1>2 DEF SumsInv
<1>6. ASSUME Executes(d, 1), KnowsEntry(trade) PROVE "entry" \in SignalLegs(trade, d) /\ IsTargetOrder(trade, d)
  <2>1. d.kind = "traded" /\ d.id = 1 /\ d.ref = Ref(1)
    BY <1>4, <1>6 DEF Executes, ReportOf
  <2>2. d.id # None /\ d.ref # None
    BY <2>1 DEF None, Ref
  <2>3. ById(trade, "entry", d.id) \/ ByRef(trade, "entry", d.ref)
    BY <1>6, <2>1, <2>2 DEF KnowsEntry, ById, ByRef
  <2>4. "entry" \in Legs
    BY DEF Legs
  <2> QED
    BY <2>1, <2>3, <2>4 DEF SignalLegs, IsTargetOrder
<1>7. CASE ~(listed /\ IsTargetOrder(trade, d)) \/ SignalLegs(trade, d) = {}
  <2>1. trade' = trade
    BY <1>2, <1>7 DEF OrderSignal
  <2>2. Bought(trade, orders, Tail(channel), account.bought, listed)
    BY <1>1, <1>6, <1>7, KeptTail
  <2> QED
    BY <1>2, <1>5, <2>1, <2>2 DEF SumsInv
<1>8. ASSUME listed, IsTargetOrder(trade, d), NEW l \in SignalLegs(trade, d) PROVE SumsInv'
  <2>1. trade' = OrderSignal(trade, d)
    BY <1>2, <1>8
  <2>2. \A k \in SignalLegs(trade, d) : k = l
    BY <1>1, <1>3, <1>4, SignalLeg
  <2>3. \/ l = "entry" /\ m = 1 /\ KnowsEntry(trade)
        \/ l \in ExitLegs /\ trade.oid[l] = m /\ l # "entry"
    BY <1>1, <1>3, <1>4, SignalLeg, FieldsType DEF KnowsEntry
  <2>4. l \in Legs
    BY <1>1, <2>3, FieldsType
  <2>5. trade' = CASE d.kind = "opened"   -> Opened(trade, l, d)
             [] d.kind = "traded"   -> IF l = "entry" THEN EntryTraded(trade, d) ELSE ExitTraded(trade, l, d)
             [] d.kind = "rejected" -> Rejected(trade, l)
             [] OTHER               -> Removed(trade, l)
    <3> HIDE DEF d
    <3> QED
      BY <2>1, <2>2, SignalBranch
  <2>6. d.kind = "traded" => Executes(d, m)
    BY <1>4 DEF ReportOf, Executes
  <2>7. Sold(trade', orders, account.sold) /\ Bought(trade', orders, Tail(channel), account.bought, listed)
    <3>1. CASE d.kind = "opened"
      BY <1>1, <2>5, <3>1, OpenedToldSums
    <3>2. CASE d.kind = "traded" /\ l = "entry"
      <4>1. trade' = EntryTraded(trade, d) /\ Executes(d, 1) /\ KnowsEntry(trade)
        BY <2>3, <2>5, <2>6, <3>2, FieldsType
      <4> QED
        BY <1>1, <4>1, EntryTradedSums
    <3>3. CASE d.kind = "traded" /\ l # "entry"
      <4>1. trade' = ExitTraded(trade, l, d) /\ Executes(d, trade.oid[l]) /\ l \in ExitLegs
        BY <2>3, <2>5, <2>6, <3>3
      <4> QED
        BY <1>1, <4>1, ExitTradedSums
    <3>4. CASE d.kind \notin {"opened", "traded"}
      <4>1. d.kind \in Ends
        BY <1>4, <3>4 DEF ReportOf, Ends
      <4>2. trade' = Rejected(trade, l) \/ trade' = Removed(trade, l)
        BY <2>5, <3>4
      <4>3. SameLegs(ResetLeg(trade, l), trade') /\ trade'.e = trade.e /\ trade'.x = trade.x
        BY <1>1, <2>4, <4>2, RemovedSame
      <4> QED
        BY <1>1, <1>8, <4>1, <4>3, EndToldSums
    <3> QED
      BY <3>1, <3>2, <3>3, <3>4
  <2> QED
    BY <1>2, <1>5, <2>7 DEF SumsInv
<1> QED
  BY <1>7, <1>8

---------------------------------------------------------------------------
(***************************************************************************)
(* The sums are an invariant, and what they say of the trade at rest.      *)
(***************************************************************************)
\* At the start nothing was bought or sold
LEMMA InitSums ==
  ASSUME Init
  PROVE  SumsInv
<1>1. /\ trade = NewTrade /\ orders = <<>> /\ channel = <<>>
      /\ account = [bought |-> 0, sold |-> 0] /\ Len(orders) = 0 /\ Len(channel) = 0
  BY EmptySeq DEF Init
<1>2. trade.e = 0 /\ trade.x = 0 /\ \A l \in ExitLegs : trade.oid[l] = None
  BY <1>1 DEF NewTrade, Legs, ExitLegs
<1>3. account.bought = 0 /\ account.sold = 0
  BY <1>1
<1>4. Sold(trade, orders, account.sold)
  BY <1>2, <1>3 DEF Sold
<1>5. Bought(trade, orders, channel, account.bought, listed)
  BY <1>1, <1>2, <1>3 DEF Bought
<1>6. Covered(orders, account.bought, account.sold)
  BY <1>1, <1>3 DEF Covered
<1> QED
  BY <1>4, <1>5, <1>6 DEF SumsInv

\* Every step keeps the sums
LEMMA StepSums ==
  ASSUME Counting, TypeInv, BooksInv, OpInv, SumsInv, [Next]_vars
  PROVE  SumsInv'
<1>0. Undisturbed
  BY DEF Counting
<1>1. ASSUME NEW n \in DOMAIN orders, NEW k \in FillSizes, Fill(n, k) PROVE SumsInv'
  <2>1. CASE n = 1
    BY <1>1, <2>1, EntryFillSums
  <2>2. CASE n # 1
    BY <1>1, <2>2, ExitFillSums
  <2> QED
    BY <2>1, <2>2
<1>2. ASSUME NEW n \in DOMAIN orders, NEW status \in ExchangeEvents, EndOrder(n, status) PROVE SumsInv'
  BY <1>2, EndOrderSums
<1>3. CASE Open \/ OpenReturn
  BY <1>0, <1>3, OpenSums, OpenReturnSums
<1>4. CASE DeliverSignal
  BY <1>4, DeliverSums
<1>5. \/ CancelOpen \/ Close \/ SoftClose \/ Terminate \/ Clean \/ CleanupTrades
      \/ UpdateDirty \/ UpdateDirtyStop
      \/ \E th \in Thread : NothingToExit(th) \/ Unlist(th) \/ Finish(th)
      => SumsInv'
  BY StartSums
<1>6. \/ Modify("take_profit") \/ Modify("stop_loss") \/ UpdateDirtyDone \/ OpenFailed
      \/ \E th \in Thread : SoftPrice(th)
      => SumsInv'
  BY FlagStepSums
<1>7. CASE WatcherConnected \/ Resize \/ Check \/ CheckTrades \/ Disconnect \/ Reconnect \/ Restart
  BY <1>0, <1>7, NeverBooks, VariablesType
<1>8. ASSUME NEW th \in Thread, Step(th) PROVE SumsInv'
  <2>1. CASE CancelAccepted(th)
    BY <2>1, CancelAcceptedSums
  <2>2. CASE CancelRefused(th)
    BY <1>0, <2>2, CancelRefusedSums
  <2>3. CASE CreateExit(th)
    BY <1>0, <2>3, CreateExitSums
  <2>4. CASE CheckLeg(th) \/ Reopen(th)
    BY <1>0, <2>4, NeverBooks
  <2>5. CASE NothingToExit(th) \/ Unlist(th) \/ Finish(th) \/ SoftPrice(th)
    BY <1>5, <1>6, <2>5
  <2> QED
    BY <1>8, <2>1, <2>2, <2>3, <2>4, <2>5 DEF Step
<1>9. CASE UNCHANGED vars
  BY <1>9 DEF vars, SumsInv
<1> QED
  BY <1>1, <1>2, <1>3, <1>4, <1>5, <1>6, <1>7, <1>8, <1>9 DEF Next, Exchange

\* The sums of the trade agree with the account in every state
THEOREM SumsAgree ==
  ASSUME Counting
  PROVE  Spec => [](TypeInv /\ BooksInv /\ OpInv /\ SumsInv)
<1> DEFINE Inv == TypeInv /\ BooksInv /\ OpInv /\ SumsInv
<1>0. Undisturbed
  BY DEF Counting
<1>1. Init => Inv
  BY InitType, InitBooks, InitSums
<1>2. Inv /\ [Next]_vars => Inv'
  BY <1>0, StepType, StepBooks, StepSums
<1>3. Spec => []Inv
  BY <1>1, <1>2, PTL DEF Spec
<1> QED
  BY <1>3

\* Once the reports are delivered and no operation is under way, the entered and exited
\* quantities of a trade of the list are what its orders executed
THEOREM ExactQuantities ==
  ASSUME Counting
  PROVE  Spec => []ExactBooks
<1>1. TypeInv /\ BooksInv /\ OpInv /\ SumsInv => ExactBooks
  <2> SUFFICES ASSUME TypeInv, BooksInv, SumsInv, AtRest, listed
               PROVE  trade.e = account.bought /\ trade.x = account.sold
    BY DEF ExactBooks
  <2>1. Len(channel) = 0
    BY EmptySeq DEF AtRest
  <2>2. \A n : ~LastComing(channel, orders, n)
    BY <2>1 DEF LastComing
  <2>3. trade.e = account.bought
    BY <2>2 DEF SumsInv, Bought
  <2>4. ASSUME NEW l \in ExitLegs, trade.oid[l] # None PROVE trade.x = account.sold
    <3> DEFINE n == trade.oid[l]
    <3>1. n \in 2 .. Len(orders) /\ trade.exec[l] = orders[n].filled
      BY <2>2, <2>4 DEF BooksInv, Books, Exits, LegOf
    <3>2. trade.x + (orders[n].filled - trade.exec[l]) = account.sold
      BY <2>4 DEF SumsInv, Sold
    <3>3. trade.x \in Nat /\ orders[n].filled \in Nat
      BY <3>1, SumsType
    <3> QED
      BY <3>1, <3>2, <3>3
  <2>5. CASE \A l \in ExitLegs : trade.oid[l] = None
    BY <2>3, <2>5 DEF SumsInv, Sold
  <2> QED
    BY <2>3, <2>4, <2>5
<1>2. Spec => [](TypeInv /\ BooksInv /\ OpInv /\ SumsInv)
  BY SumsAgree
<1> QED
  BY <1>1, <1>2, PTL

---------------------------------------------------------------------------
\* What is committed when there is at most one live sell order
LEMMA CommittedOne ==
  ASSUME NEW n, LiveSells \subseteq {n}, account.sold \in Int,
         orders[n].qty - orders[n].filled \in Int
  PROVE  Committed = IF LiveSells = {} THEN account.sold
                                       ELSE account.sold + (orders[n].qty - orders[n].filled)
<1> DEFINE c == orders[n].qty - orders[n].filled
           F(f) == [s \in SUBSET LiveSells |->
                     IF s = {} THEN 0
                     ELSE LET m == CHOOSE m \in s : TRUE
                          IN  (orders[m].qty - orders[m].filled) + f[s \ {m}]]
           sum == CHOOSE f : f = F(f)
<1>1. Committed = account.sold + sum[LiveSells]
  BY DEF Committed, MapThenFoldSet
<1>2. \A s \in SUBSET LiveSells : s # {} => s = {n} /\ (CHOOSE m \in s : TRUE) = n /\ s \ {n} = {}
  <2> SUFFICES ASSUME NEW s \in SUBSET LiveSells, s # {} PROVE s = {n} /\ (CHOOSE m \in s : TRUE) = n /\ s \ {n} = {}
    OBVIOUS
  <2>1. s = {n}
    OBVIOUS
  <2>2. (CHOOSE m \in s : TRUE) \in s
    BY <2>1
  <2> QED
    BY <2>1, <2>2
<1>3. \A f : F(f) = [s \in SUBSET LiveSells |-> IF s = {} THEN 0 ELSE c + f[{}]]
  <2> SUFFICES ASSUME NEW f PROVE F(f) = [s \in SUBSET LiveSells |-> IF s = {} THEN 0 ELSE c + f[{}]]
    OBVIOUS
  <2> DEFINE A(s) == IF s = {} THEN 0
                     ELSE LET m == CHOOSE m \in s : TRUE
                          IN  (orders[m].qty - orders[m].filled) + f[s \ {m}]
             B(s) == IF s = {} THEN 0 ELSE c + f[{}]
  <2>1. ASSUME NEW s \in SUBSET LiveSells PROVE A(s) = B(s)
    <3> DEFINE m == CHOOSE m \in s : TRUE
    <3>1. s # {} => m = n /\ s \ {m} = {}
      BY <1>2
    <3>2. A(s) = IF s = {} THEN 0 ELSE (orders[m].qty - orders[m].filled) + f[s \ {m}]
      OBVIOUS
    <3> HIDE DEF m, A
    <3> QED
      BY <3>1, <3>2
  <2>2. F(f) = [s \in SUBSET LiveSells |-> A(s)]
    OBVIOUS
  <2> HIDE DEF A, B, F
  <2>3. F(f) = [s \in SUBSET LiveSells |-> B(s)]
    BY <2>1, <2>2
  <2> QED
    BY <2>3 DEF B
<1> HIDE DEF c, F
<1>4. \E f : f = F(f)
  <2> DEFINE g == [s \in SUBSET LiveSells |-> IF s = {} THEN 0 ELSE c]
  <2>1. g[{}] = 0
    OBVIOUS
  <2>2. c + g[{}] = c
    BY <2>1 DEF c
  <2>3. F(g) = g
    BY <1>3, <2>2
  <2> QED
    BY <2>3
<1>5. sum = F(sum)
  BY <1>4
<1> HIDE DEF sum
<1>6. sum = [s \in SUBSET LiveSells |-> IF s = {} THEN 0 ELSE c + sum[{}]]
  BY <1>3, <1>5
<1>7. sum[{}] = 0
  BY <1>6
<1>8. sum[LiveSells] = IF LiveSells = {} THEN 0 ELSE c + 0
  BY <1>6, <1>7
<1>9. c \in Int
  BY DEF c
<1> QED
  BY <1>1, <1>8, <1>9 DEF c

\* Nothing is committed beyond what was sold when no sell order is live
LEMMA CommittedNone ==
  ASSUME LiveSells = {}, account.sold \in Int
  PROVE  Committed = account.sold
<1> DEFINE F(f) == [s \in SUBSET LiveSells |->
                     IF s = {} THEN 0
                     ELSE LET m == CHOOSE m \in s : TRUE
                          IN  (orders[m].qty - orders[m].filled) + f[s \ {m}]]
           sum == CHOOSE f : f = F(f)
<1>1. Committed = account.sold + sum[LiveSells]
  BY DEF Committed, MapThenFoldSet
<1>2. \A f : F(f) = [s \in SUBSET LiveSells |-> 0]
  OBVIOUS
<1> HIDE DEF F
<1>3. \E f : f = F(f)
  BY <1>2
<1>4. sum = F(sum)
  BY <1>3
<1> HIDE DEF sum
<1>5. sum[LiveSells] = 0
  BY <1>2, <1>4
<1> QED
  BY <1>1, <1>5

\* The trade never sells, or offers to sell, more than it bought: whatever is refused, and
\* whatever executes between the calls of an operation
THEOREM NothingOversold ==
  ASSUME Counting
  PROVE  Spec => []NoOversell
<1>1. TypeInv /\ BooksInv /\ OpInv /\ SumsInv => NoOversell
  <2> SUFFICES ASSUME TypeInv, BooksInv, SumsInv PROVE Committed <= account.bought
    BY DEF NoOversell
  <2>1. account.sold \in Int /\ account.sold <= account.bought
    BY SumsType DEF SumsInv, Covered
  <2>2. CASE LiveSells = {}
    <3>1. Committed = account.sold
      BY <2>1, <2>2, CommittedNone
    <3> QED
      BY <2>1, <3>1
  <2>3. ASSUME NEW n \in LiveSells PROVE Committed <= account.bought
    <3>1. LiveSells \subseteq {n} /\ LiveSells # {} /\ n \in 2 .. Len(orders)
      BY <2>3, OneSell
    <3>2. orders[n].status = "live"
      BY <2>3 DEF LiveSells, Live
    <3>3. orders[n].qty - orders[n].filled \in Int
      BY <3>1, SumsType
    <3>4. Committed = account.sold + (orders[n].qty - orders[n].filled)
      BY <2>1, <3>1, <3>3, CommittedOne
    <3>5. account.sold + (orders[n].qty - orders[n].filled) <= account.bought
      BY <3>1, <3>2 DEF SumsInv, Covered
    <3> QED
      BY <3>4, <3>5
  <2> QED
    BY <2>2, <2>3
<1>2. Spec => [](TypeInv /\ BooksInv /\ OpInv /\ SumsInv)
  BY SumsAgree
<1> QED
  BY <1>1, <1>2, PTL

---------------------------------------------------------------------------
(***************************************************************************)
(* Nothing left behind.  What the states of the trade say of its orders,   *)
(* and what an operation that ends with the trade out of the list still    *)
(* has to cancel.                                                          *)
(***************************************************************************)
EntryLive(os) == os # <<>> /\ os[1].status = "live"

NoLiveSell(os) == \A n \in 2 .. Len(os) : os[n].status # "live"

BothFilled(t) == t.entryState = "filled" /\ t.exitState = "filled"

\* The states of an entry that is over: its order is too, and the trade counted it all
EntryEnds(t, os, bought) ==
  t.entryState \in {"filled", "rejected", "canceled"} =>
    /\ ~EntryLive(os) /\ t.e = bought
    /\ t.entryState = "rejected" => bought = 0

\* The report of the opening of the entry is on its way, before those of its executions
OpeningComes(c) ==
  \E i \in 1 .. Len(c) : /\ c[i].kind = "opened" /\ c[i].id = 1
                         /\ \A j \in 1 .. i - 1 : ~Executes(c[j], 1)

\* As long as the trade has no identifier for its live entry it counted nothing
EntryComes(t, os, c) ==
  EntryLive(os) /\ t.oid["entry"] # 1 => t.e = 0 /\ Len(os) = 1 /\ OpeningComes(c)

\* The exit is not filled before the entry is over
ExitAfterEntry(t, os) == t.exitState = "filled" => ~EntryLive(os)

\* While the entry is live the trade counts more and more of it, and what a live sell order
\* may still sell is counted
EntryCovers(t, os, c, sold) ==
  EntryLive(os) =>
    /\ \A i \in 1 .. Len(c) : Executes(c[i], 1) => t.e <= c[i].cum
    /\ \A n \in 2 .. Len(os) : os[n].status = "live" => sold + (os[n].qty - os[n].filled) <= t.e

\* An entry rejected executed nothing
RejectedEmpty(c, bought) ==
  \A i \in 1 .. Len(c) : c[i].kind = "rejected" /\ c[i].id = Ref(1) => bought = 0

Selling == {"take_profit", "stop_loss", "close", "dirty_stop", "dirty_done"}

\* A trade that entered and exited has no sell order left, once finalized; the operations
\* that place one find nothing to sell
FilledQuiet(t, os, o) == o.name # "finalize" /\ BothFilled(t) => NoLiveSell(os)
FilledExits(t, o) == o.name \in Selling /\ BothFilled(t) => t.x >= t.e

\* What ends with the trade out of the list still has to cancel every live order
Clearing(t, os, o, opening) ==
  o.name \in {"finalize", "terminate"} /\ ~o.failed =>
    /\ ToFree(t, o.todo)
    /\ EntryLive(os) => ~opening /\ \E i \in 1 .. Len(o.todo) : o.todo[i] = "entry"

States(t, os, c, acc) ==
  /\ EntryEnds(t, os, acc.bought) /\ EntryComes(t, os, c) /\ ExitAfterEntry(t, os)
  /\ EntryCovers(t, os, c, acc.sold)

Doing(t, os, o, opening) ==
  FilledQuiet(t, os, o) /\ FilledExits(t, o) /\ Clearing(t, os, o, opening)

OrphanInv ==
  /\ RejectedEmpty(channel, account.bought)
  /\ listed /\ orders = <<>> => op["command"].name = "open_failed"
  /\ op["command"].name # "clean"
  /\ op["mutex"].dirty => op["mutex"].name \in {"take_profit", "stop_loss"}
  /\ listed => /\ States(trade, orders, channel, account)
               /\ Doing(trade, orders, op["mutex"], Opening)

---------------------------------------------------------------------------
\* A step that changes neither an order nor what the states of the trade tell of it
SameStates(t, u) ==
  /\ u.oid = t.oid /\ u.e = t.e /\ u.x = t.x
  /\ u.entryState = t.entryState /\ u.exitState = t.exitState

LEMMA QuietOrphan ==
  ASSUME OrphanInv, UNCHANGED <<orders, channel, account>>, listed' => listed,
         SameStates(trade, trade'), op'["command"] = op["command"],
         op'["mutex"].dirty => op'["mutex"].name \in {"take_profit", "stop_loss"},
         op["mutex"].name = "finalize" => op'["mutex"].name = "finalize" \/ ~listed',
         listed' => FilledExits(trade, op'["mutex"]) /\ Clearing(trade, orders, op'["mutex"], Opening)
  PROVE  OrphanInv'
<1>1. /\ RejectedEmpty(channel', account'.bought)
      /\ listed' /\ orders' = <<>> => op'["command"].name = "open_failed"
      /\ op'["command"].name # "clean"
  BY DEF OrphanInv
<1>2. ASSUME listed' PROVE States(trade', orders', channel', account')
  <2>1. States(trade, orders, channel, account)
    BY <1>2 DEF OrphanInv
  <2>2. EntryCovers(trade', orders', channel', account'.sold)
    BY <2>1 DEF States, SameStates, EntryCovers
  <2> QED
    BY <2>1, <2>2 DEF States, SameStates, EntryEnds, EntryComes, ExitAfterEntry
<1>3. ASSUME listed' PROVE Doing(trade', orders', op'["mutex"], Opening')
  <2>1. FilledQuiet(trade', orders', op'["mutex"])
    BY <1>3 DEF OrphanInv, Doing, FilledQuiet, SameStates, BothFilled
  <2>2. FilledExits(trade', op'["mutex"])
    BY <1>3 DEF FilledExits, SameStates, BothFilled
  <2>3. Opening' = Opening
    BY DEF Opening
  <2>4. Clearing(trade', orders', op'["mutex"], Opening)
    BY <1>3 DEF Clearing, SameStates, ToFree
  <2>5. Clearing(trade', orders', op'["mutex"], Opening')
    BY <2>3, <2>4 DEF Clearing
  <2> QED
    BY <2>1, <2>2, <2>5 DEF Doing
<1> QED
  BY <1>1, <1>2, <1>3 DEF OrphanInv

\* An operation of another kind has nothing to cancel
LEMMA NotClearing ==
  ASSUME NEW t, NEW os, NEW o, NEW opening, o.name \notin {"finalize", "terminate"}
  PROVE  Clearing(t, os, o, opening)
  BY DEF Clearing

\* The operation a thread starts
LEMMA Started ==
  ASSUME TypeInv, NEW th \in Thread, NEW o, Start(th, o)
  PROVE  op'[th] = o /\ \A k \in Thread : k # th => op'[k] = op[k]
<1>1. op \in [Thread -> Op]
  BY VariablesType
<1> QED
  BY <1>1 DEF Start

\* An operation starts
LEMMA StartOrphan ==
  ASSUME TypeInv, OrphanInv, CancelOpen \/ Close \/ SoftClose \/ Terminate
  PROVE  OrphanInv'
<1>1. UNCHANGED <<trade, listed, orders, channel, account>> /\ op["mutex"].name = "idle"
  <2>1. UNCHANGED <<trade, listed, orders, channel, account>>
    BY DEF CancelOpen, Close, SoftClose, Terminate
  <2>2. Free("mutex")
    BY DEF CancelOpen, Close, SoftClose, Terminate, Ready
  <2> QED
    BY <2>1, <2>2 DEF Free
<1>2. "mutex" \in Thread /\ "command" \in Thread /\ "command" # "mutex"
  BY DEF Thread
<1>3. SameStates(trade, trade')
  BY <1>1 DEF SameStates
<1>4. CASE CancelOpen
  <2> DEFINE o == Operation("cancel_open", <<"entry">>)
  <2>1. Start("mutex", o) /\ o.name = "cancel_open" /\ ~o.dirty
    BY <1>4 DEF CancelOpen, Operation
  <2> HIDE DEF o
  <2>2. op'["mutex"] = o /\ op'["command"] = op["command"]
    BY <1>2, <2>1, Started
  <2>3. FilledExits(trade, o) /\ Clearing(trade, orders, o, Opening)
    BY <2>1, NotClearing DEF FilledExits, Selling
  <2> QED
    BY <1>1, <1>3, <2>1, <2>2, <2>3, QuietOrphan
<1>5. CASE Close \/ SoftClose
  <2>1. Start("mutex", CloseOperation) /\ IsActive(trade)
    BY <1>5 DEF Close, SoftClose, Manageable
  <2>2. op'["mutex"] = CloseOperation /\ op'["command"] = op["command"]
    BY <1>2, <2>1, Started
  <2>3. CloseOperation.name = "close" /\ ~CloseOperation.dirty
    BY DEF CloseOperation, Operation
  <2>4. FilledExits(trade, CloseOperation) /\ Clearing(trade, orders, CloseOperation, Opening)
    BY <2>1, <2>3, NotClearing DEF FilledExits, BothFilled, IsActive
  <2> QED
    BY <1>1, <1>3, <2>2, <2>3, <2>4, QuietOrphan
<1>6. CASE Terminate
  <2> DEFINE o == Operation("terminate", <<"entry", "stop", "limit">>)
  <2>1. Start("mutex", o) /\ o.name = "terminate" /\ ~o.dirty /\ o.todo = <<"entry", "stop", "limit">>
    BY <1>6 DEF Terminate, Operation
  <2> HIDE DEF o
  <2>2. op'["mutex"] = o /\ op'["command"] = op["command"]
    BY <1>2, <2>1, Started
  <2>3. /\ Len(o.todo) = 3 /\ 1 \in 1 .. 3 /\ 2 \in 1 .. 3 /\ 3 \in 1 .. 3
        /\ o.todo[1] = "entry" /\ o.todo[2] = "stop" /\ o.todo[3] = "limit"
    BY <2>1
  <2>4. ToFree(trade, o.todo) /\ \E i \in 1 .. Len(o.todo) : o.todo[i] = "entry"
    BY <2>3 DEF ToFree, ExitLegs
  <2>5. ~Opening
    BY <1>6 DEF Terminate, Free, Opening
  <2>6. FilledExits(trade, o) /\ Clearing(trade, orders, o, Opening)
    BY <2>1, <2>4, <2>5 DEF FilledExits, Selling, Clearing
  <2> QED
    BY <1>1, <1>3, <2>1, <2>2, <2>6, QuietOrphan
<1> QED
  BY <1>4, <1>5, <1>6

\* A modification starts, or sets a price of a trade not active
LEMMA ModifyOrphan ==
  ASSUME TypeInv, OrphanInv, NEW name \in {"take_profit", "stop_loss"}, Modify(name)
  PROVE  OrphanInv'
<1>1. UNCHANGED <<listed, orders, channel, account>> /\ op["mutex"].name = "idle"
  BY DEF Modify, Ready, Free
<1>2. "mutex" \in Thread /\ "command" \in Thread /\ "command" # "mutex" /\ trade \in Trade
  BY VariablesType DEF Thread
<1>3. \E hard, price \in BOOLEAN :
         \/ /\ IsActive(trade) /\ Start("mutex", ModifyOperation(name, hard, price, FALSE))
            /\ UNCHANGED trade
         \/ /\ \/ trade' = [trade EXCEPT !.tp = price]
               \/ trade' = [trade EXCEPT !.sl = price]
            /\ UNCHANGED op
  BY DEF Modify
<1>4. PICK hard \in BOOLEAN, price \in BOOLEAN :
         \/ /\ IsActive(trade) /\ Start("mutex", ModifyOperation(name, hard, price, FALSE))
            /\ UNCHANGED trade
         \/ /\ \/ trade' = [trade EXCEPT !.tp = price]
               \/ trade' = [trade EXCEPT !.sl = price]
            /\ UNCHANGED op
  BY <1>3
<1>5. CASE IsActive(trade) /\ Start("mutex", ModifyOperation(name, hard, price, FALSE)) /\ UNCHANGED trade
  <2> DEFINE o == ModifyOperation(name, hard, price, FALSE)
  <2>1. o.name = name /\ Start("mutex", o)
    BY <1>5 DEF ModifyOperation, Operation
  <2> HIDE DEF o
  <2>2. op'["mutex"] = o /\ op'["command"] = op["command"]
    BY <1>2, <2>1, Started
  <2>3. FilledExits(trade, o) /\ Clearing(trade, orders, o, Opening)
    BY <1>5, <2>1, NotClearing DEF FilledExits, BothFilled, IsActive
  <2>4. SameStates(trade, trade')
    BY <1>5 DEF SameStates
  <2> QED
    BY <1>1, <2>1, <2>2, <2>3, <2>4, QuietOrphan
<1>6. CASE /\ \/ trade' = [trade EXCEPT !.tp = price]
              \/ trade' = [trade EXCEPT !.sl = price]
           /\ UNCHANGED op
  <2>1. SameStates(trade, trade')
    BY <1>2, <1>6 DEF SameStates, Trade
  <2>2. FilledExits(trade, op["mutex"]) /\ Clearing(trade, orders, op["mutex"], Opening)
    BY <1>1, NotClearing DEF FilledExits, Selling
  <2>3. op'["mutex"] = op["mutex"] /\ op'["command"] = op["command"]
    BY <1>6
  <2>4. op'["mutex"].dirty => op'["mutex"].name \in {"take_profit", "stop_loss"}
    BY <2>3 DEF OrphanInv
  <2> QED
    BY <1>1, <2>1, <2>2, <2>3, <2>4, QuietOrphan
<1> QED
  BY <1>4, <1>5, <1>6

\* The operations that call the exchange are those under the mutex
LEMMA OnMutex ==
  ASSUME TypeInv, OpInv, OrphanInv, NEW th \in Thread,
         Pending(th) # {} \/ op[th].name \notin {"idle", "open_ok", "open_failed"}
  PROVE  th = "mutex"
<1> SUFFICES ASSUME th # "mutex" PROVE FALSE
  OBVIOUS
<1>1. th = "command" /\ op[th].name # "clean"
  BY DEF Thread, OrphanInv
<1>2. op[th].name \notin {"idle", "open_ok", "open_failed"} => op[th].name \notin CommandNames
  BY <1>1 DEF CommandNames
<1> QED
  BY <1>1, <1>2, CommandIdle

\* The steps of update_dirty
LEMMA DirtyOrphan ==
  ASSUME TypeInv, OrphanInv, UpdateDirty \/ UpdateDirtyStop
  PROVE  OrphanInv'
<1>1. UNCHANGED <<trade, listed, orders, channel, account>>
  BY DEF UpdateDirty, UpdateDirtyStop
<1>2. "mutex" \in Thread /\ "command" \in Thread /\ "command" # "mutex" /\ SameStates(trade, trade')
  BY <1>1 DEF Thread, SameStates
<1>3. \E o : /\ Start("mutex", o) /\ o.name \in Selling
             /\ o.dirty => o.name \in {"take_profit", "stop_loss"}
  <2>1. CASE UpdateDirty
    <3>1. \/ Start("mutex", ModifyOperation("take_profit", TRUE, TRUE, TRUE))
          \/ Start("mutex", Operation("dirty_stop", <<>>))
      BY <2>1 DEF UpdateDirty
    <3>2. /\ ModifyOperation("take_profit", TRUE, TRUE, TRUE).name = "take_profit"
          /\ Operation("dirty_stop", <<>>).name = "dirty_stop"
          /\ ~Operation("dirty_stop", <<>>).dirty
      BY DEF ModifyOperation, Operation
    <3> QED
      BY <3>1, <3>2 DEF Selling
  <2>2. CASE UpdateDirtyStop
    <3> DEFINE m == ModifyOperation("stop_loss", TRUE, TRUE, TRUE)
               o == [m EXCEPT !.failed = op["mutex"].failed]
               p == [op["mutex"] EXCEPT !.name = "dirty_done"]
    <3>1. Start("mutex", o) \/ Start("mutex", p)
      BY <2>2 DEF UpdateDirtyStop
    <3>2. o.name = "stop_loss"
      BY DEF ModifyOperation, Operation
    <3>3. ~op["mutex"].dirty
      BY <2>2 DEF OrphanInv, UpdateDirtyStop
    <3>4. p.name = "dirty_done" /\ ~p.dirty
      BY <3>3, VariablesType DEF Op
    <3> HIDE DEF o, p
    <3> QED
      BY <3>1, <3>2, <3>4 DEF Selling
  <2> QED
    BY <2>1, <2>2
<1>4. PICK o : /\ Start("mutex", o) /\ o.name \in Selling
               /\ o.dirty => o.name \in {"take_profit", "stop_loss"}
  BY <1>3
<1>5. op'["mutex"] = o /\ op'["command"] = op["command"]
  BY <1>2, <1>4, Started
<1>6. op["mutex"].name # "finalize"
  BY DEF UpdateDirty, UpdateDirtyStop, Free
<1>7. listed => FilledExits(trade, o)
  <2>1. CASE UpdateDirty
    BY <2>1 DEF UpdateDirty, Manageable, IsActive, FilledExits, BothFilled
  <2>2. CASE UpdateDirtyStop
    <3>1. op["mutex"].name \in Selling
      BY <2>2 DEF UpdateDirtyStop, Selling
    <3> QED
      BY <3>1 DEF OrphanInv, Doing, FilledExits
  <2> QED
    BY <2>1, <2>2
<1>8. Clearing(trade, orders, o, Opening)
  BY <1>4, NotClearing DEF Selling
<1> QED
  BY <1>1, <1>2, <1>4, <1>5, <1>6, <1>7, <1>8, QuietOrphan

LEMMA DirtyDoneOrphan ==
  ASSUME TypeInv, OrphanInv, UpdateDirtyDone
  PROVE  OrphanInv'
<1>1. UNCHANGED <<listed, orders, channel, account>> /\ op["mutex"].name = "dirty_done"
  BY DEF UpdateDirtyDone
<1>2. "mutex" \in Thread /\ "command" \in Thread /\ "command" # "mutex"
  BY DEF Thread
<1>3. SameStates(trade, trade')
  <2>1. trade \in Trade /\ trade' = [trade EXCEPT !.dirty = op["mutex"].failed]
    BY VariablesType DEF UpdateDirtyDone
  <2> QED
    BY <2>1 DEF SameStates, Trade
<1>4. PICK o : Start("mutex", o) /\ (o = Idle \/ o = CloseOperation)
  BY DEF UpdateDirtyDone
<1>5. op'["mutex"] = o /\ op'["command"] = op["command"]
  BY <1>2, <1>4, Started
<1>6. o.name \in {"idle", "close"} /\ ~o.dirty
  BY <1>4 DEF Idle, CloseOperation, Operation
<1>7. listed => FilledExits(trade, o)
  BY <1>1 DEF OrphanInv, Doing, FilledExits, Selling
<1>8. Clearing(trade, orders, o, Opening)
  BY <1>6, NotClearing
<1> QED
  BY <1>1, <1>3, <1>5, <1>6, <1>7, <1>8, QuietOrphan

\* An operation returns
LEMMA ReturnsTo ==
  ASSUME TypeInv, OrphanInv, NEW negative, Return("mutex", negative)
  PROVE  \E o : /\ Start("mutex", o) /\ ~o.dirty
                /\ \/ o.name = "idle"
                   \/ o.name \in {"dirty_stop", "dirty_done"} /\ op["mutex"].name \in Selling
<1> DEFINE name == IF op["mutex"].name = "take_profit" THEN "dirty_stop" ELSE "dirty_done"
           o == [Operation(name, <<>>) EXCEPT !.failed = op["mutex"].failed \/ negative]
<1>1. \/ op["mutex"].dirty /\ Start("mutex", o)
      \/ Start("mutex", Idle)
  BY DEF Return
<1>2. o.name \in {"dirty_stop", "dirty_done"} /\ ~o.dirty
  BY DEF Operation
<1>3. Idle.name = "idle" /\ ~Idle.dirty
  BY DEF Idle, Operation
<1>4. op["mutex"].dirty => op["mutex"].name \in Selling
  BY DEF OrphanInv, Selling
<1> HIDE DEF o
<1> QED
  BY <1>1, <1>2, <1>3, <1>4

LEMMA ReturnOrphan ==
  ASSUME TypeInv, OrphanInv, NEW negative, Return("mutex", negative),
         UNCHANGED <<listed, orders, channel, account>>, SameStates(trade, trade'),
         op["mutex"].name # "finalize"
  PROVE  OrphanInv'
<1>1. PICK o : /\ Start("mutex", o) /\ ~o.dirty
               /\ \/ o.name = "idle"
                  \/ o.name \in {"dirty_stop", "dirty_done"} /\ op["mutex"].name \in Selling
  BY ReturnsTo
<1>2. op'["mutex"] = o /\ op'["command"] = op["command"]
  BY <1>1, Started DEF Thread
<1>3. Clearing(trade, orders, o, Opening)
  BY <1>1, NotClearing
<1>4. listed => FilledExits(trade, o)
  BY <1>1 DEF OrphanInv, Doing, FilledExits, Selling
<1> QED
  BY <1>1, <1>2, <1>3, <1>4, QuietOrphan

\* The last steps that place no order
LEMMA LastOrphan ==
  ASSUME TypeInv, OpInv, OrphanInv, NEW th \in Thread, NothingToExit(th) \/ SoftPrice(th) \/ Finish(th)
  PROVE  OrphanInv'
<1>1. /\ UNCHANGED <<listed, orders, channel, account>>
      /\ op[th].name \in {"take_profit", "stop_loss", "close", "cancel_open", "check", "recheck"}
  BY DEF NothingToExit, SoftPrice, Finish, Last
<1>2. th = "mutex"
  BY <1>1, OnMutex
<1>3. SameStates(trade, trade')
  <2>1. trade \in Trade
    BY VariablesType
  <2>2. \/ trade' = trade
        \/ trade' = [trade EXCEPT !.tp = op[th].price]
        \/ trade' = [trade EXCEPT !.sl = op[th].price]
    BY DEF NothingToExit, SoftPrice, Finish
  <2> QED
    BY <2>1, <2>2 DEF SameStates, Trade
<1>4. CASE NothingToExit(th) \/ SoftPrice(th)
  <2>1. Return("mutex", FALSE)
    BY <1>2, <1>4 DEF NothingToExit, SoftPrice
  <2> QED
    BY <1>1, <1>2, <1>3, <2>1, ReturnOrphan
<1>5. CASE Finish(th)
  <2>1. Start("mutex", Idle) /\ Idle.name = "idle" /\ ~Idle.dirty
    BY <1>2, <1>5 DEF Finish, Idle, Operation
  <2>2. op'["mutex"] = Idle /\ op'["command"] = op["command"]
    BY <2>1, Started DEF Thread
  <2>3. Clearing(trade, orders, Idle, Opening) /\ FilledExits(trade, Idle)
    BY <2>1, NotClearing DEF FilledExits, Selling
  <2> QED
    BY <1>1, <1>2, <1>3, <2>1, <2>2, <2>3, QuietOrphan
<1> QED
  BY <1>4, <1>5

\* An operation goes on to its next leg
LEMMA AdvancesTo ==
  ASSUME TypeInv, NEW failed \in BOOLEAN, Pending("mutex") # {}, Advance("mutex", failed)
  PROVE  /\ op'["mutex"].name = op["mutex"].name /\ op'["mutex"].dirty = op["mutex"].dirty
         /\ op'["mutex"].failed = (op["mutex"].failed \/ failed)
         /\ op'["mutex"].todo =
              SubSeq(op["mutex"].todo, NextPlace("mutex") + 1, Len(op["mutex"].todo))
         /\ op'["command"] = op["command"]
<1>1. op["mutex"] \in Op
  BY VariablesType
<1> DEFINE rest == SubSeq(op["mutex"].todo, NextPlace("mutex") + 1, Len(op["mutex"].todo))
           fail == op["mutex"].failed \/ failed
           o == [op["mutex"] EXCEPT !.todo = rest, !.failed = fail]
<1>2. Start("mutex", o)
  BY DEF Advance
<1> HIDE DEF rest, fail
<1>3. o.name = op["mutex"].name /\ o.dirty = op["mutex"].dirty /\ o.failed = fail /\ o.todo = rest
  BY <1>1 DEF Op
<1> HIDE DEF o
<1>4. op'["mutex"] = o /\ op'["command"] = op["command"]
  BY <1>2, Started DEF Thread
<1>5. fail = (op["mutex"].failed \/ failed)
  BY DEF fail
<1> QED
  BY <1>3, <1>4, <1>5 DEF rest

\* cancel_order fails: a removal keeps that it failed, another operation returns
LEMMA CancelRefusedOrphan ==
  ASSUME Undisturbed, TypeInv, BooksInv, OpInv, OrphanInv, NEW th \in Thread, CancelRefused(th)
  PROVE  OrphanInv'
<1>1. th = "mutex" /\ Pending(th) # {}
  BY OnMutex DEF CancelRefused
<1> DEFINE l == op[th].todo[NextPlace(th)]
           yes == TRUE
<1>2. l \in Legs /\ HasOrder(trade, l)
  BY <1>1, VariablesType, NextPlaceType
<1>3. Known(trade, l)
  BY <1>2, LegOrder
<1>4. UNCHANGED <<trade, listed, orders, channel, account>>
  BY <1>3 DEF CancelRefused, Undisturbed
<1>5. IF op[th].name \in Removals THEN Advance(th, yes) ELSE Return(th, yes)
  BY <1>3 DEF CancelRefused
<1>6. yes \in BOOLEAN /\ yes
  OBVIOUS
<1> HIDE DEF yes
<1>7. SameStates(trade, trade')
  BY <1>4 DEF SameStates
<1>8. CASE op["mutex"].name \in Removals
  <2>1. Advance("mutex", yes)
    BY <1>1, <1>5, <1>8
  <2>2. /\ op'["mutex"].name = op["mutex"].name /\ op'["mutex"].dirty = op["mutex"].dirty
        /\ op'["mutex"].failed = (op["mutex"].failed \/ yes)
        /\ op'["command"] = op["command"]
    BY <1>1, <1>6, <2>1, AdvancesTo
  <2>3. op'["mutex"].failed
    BY <1>6, <2>2
  <2>4. Clearing(trade, orders, op'["mutex"], Opening)
    BY <2>3 DEF Clearing
  <2>5. FilledExits(trade, op'["mutex"])
    BY <1>8, <2>2 DEF FilledExits, Removals, Selling
  <2>6. op'["mutex"].dirty => op'["mutex"].name \in {"take_profit", "stop_loss"}
    BY <2>2 DEF OrphanInv
  <2> QED
    BY <1>4, <1>7, <2>2, <2>4, <2>5, <2>6, QuietOrphan
<1>9. CASE op["mutex"].name \notin Removals
  <2>1. Return("mutex", yes)
    BY <1>1, <1>5, <1>9
  <2>2. op["mutex"].name # "finalize"
    BY <1>9 DEF Removals
  <2> QED
    BY <1>4, <1>7, <2>1, <2>2, ReturnOrphan
<1> QED
  BY <1>8, <1>9

\* A step after which the trade is not in the list
LEMMA UnlistedOrphan ==
  ASSUME OrphanInv, ~listed', UNCHANGED <<channel, account>>,
         op'["command"].name \in {"idle", op["command"].name},
         op'["mutex"].dirty => op'["mutex"].name \in {"take_profit", "stop_loss"}
  PROVE  OrphanInv'
  BY DEF OrphanInv

LEMMA LeaveOrphan ==
  ASSUME TypeInv, OpInv, OrphanInv, OpenFailed \/ CleanupTrades \/ \E th \in Thread : Unlist(th)
  PROVE  OrphanInv'
<1>1. CASE OpenFailed
  <2>1. Start("command", Idle) /\ ~listed' /\ UNCHANGED <<channel, account>>
    BY <1>1 DEF OpenFailed, Start
  <2>2. op'["command"] = Idle /\ op'["mutex"] = op["mutex"]
    BY <2>1, Started DEF Thread
  <2>3. op'["command"].name = "idle"
    BY <2>2 DEF Idle, Operation
  <2>4. op'["mutex"].dirty => op'["mutex"].name \in {"take_profit", "stop_loss"}
    BY <2>2 DEF OrphanInv
  <2> QED
    BY <2>1, <2>3, <2>4, UnlistedOrphan
<1>2. CASE CleanupTrades
  <2>1. ~listed' /\ UNCHANGED <<op, channel, account>>
    BY <1>2 DEF CleanupTrades
  <2> QED
    BY <2>1, UnlistedOrphan DEF OrphanInv
<1>3. ASSUME NEW th \in Thread, Unlist(th) PROVE OrphanInv'
  <2>1. op[th].name \in {"finalize", "terminate", "clean"}
    BY <1>3 DEF Unlist, Last, Removals
  <2>2. th = "mutex" /\ op["mutex"].name # "clean"
    BY <2>1, OnMutex DEF OpInv, MutexNames
  <2>3. Start("mutex", Idle) /\ UNCHANGED <<trade, orders, channel, account>>
    BY <1>3, <2>2 DEF Unlist
  <2>4. op'["mutex"] = Idle /\ op'["command"] = op["command"] /\ Idle.name = "idle" /\ ~Idle.dirty
    BY <2>3, Started DEF Thread, Idle, Operation
  <2>5. CASE listed'
    <3>1. listed' = (listed /\ op[th].name = "terminate" /\ op[th].failed)
      BY <1>3 DEF Unlist
    <3>2. listed /\ op["mutex"].name = "terminate"
      BY <2>2, <2>5, <3>1
    <3>3. SameStates(trade, trade')
      BY <2>3 DEF SameStates
    <3>4. Clearing(trade, orders, Idle, Opening) /\ FilledExits(trade, Idle)
      BY <2>4, NotClearing DEF FilledExits, Selling
    <3> QED
      BY <2>3, <2>4, <3>2, <3>3, <3>4, QuietOrphan
  <2>6. CASE ~listed'
    BY <2>3, <2>4, <2>6, UnlistedOrphan
  <2> QED
    BY <2>5, <2>6
<1> QED
  BY <1>1, <1>2, <1>3

\* create_order returned the identifier of the entry
LEMMA OpenReturnOrphan ==
  ASSUME Undisturbed, TypeInv, OpInv, OrphanInv, OpenReturn
  PROVE  OrphanInv'
<1>1. /\ trade' = [trade EXCEPT !.oid["entry"] = 1]
      /\ UNCHANGED <<account, listed, orders, channel>>
      /\ op["command"].name = "open_ok" /\ Start("command", Idle)
  BY DEF OpenReturn, Undisturbed, Start
<1>2. op'["command"] = Idle /\ op'["mutex"] = op["mutex"] /\ Idle.name = "idle"
  BY <1>1, Started DEF Thread, Idle, Operation
<1>3. /\ trade'.oid["entry"] = 1 /\ \A l \in ExitLegs : trade'.oid[l] = trade.oid[l]
      /\ trade'.e = trade.e /\ trade'.x = trade.x
      /\ trade'.entryState = trade.entryState /\ trade'.exitState = trade.exitState
  BY <1>1, VariablesType DEF Trade, Legs, ExitLegs
<1>4. ASSUME listed PROVE States(trade', orders, channel, account)
  <2>1. States(trade, orders, channel, account)
    BY <1>4 DEF OrphanInv
  <2>2. EntryCovers(trade', orders, channel, account.sold)
    BY <1>3, <2>1 DEF States, EntryCovers
  <2> QED
    BY <1>3, <2>1, <2>2 DEF States, EntryEnds, EntryComes, ExitAfterEntry
<1>5. ASSUME listed PROVE Doing(trade', orders, op["mutex"], Opening')
  <2>1. Doing(trade, orders, op["mutex"], Opening)
    BY <1>5 DEF OrphanInv
  <2>2. ~Opening'
    BY <1>2 DEF Opening
  <2>3. FilledQuiet(trade', orders, op["mutex"]) /\ FilledExits(trade', op["mutex"])
    BY <1>3, <2>1 DEF Doing, FilledQuiet, FilledExits, BothFilled
  <2>4. Clearing(trade', orders, op["mutex"], Opening')
    BY <1>3, <2>1, <2>2 DEF Doing, Clearing, ToFree
  <2> QED
    BY <2>3, <2>4 DEF Doing
<1>6. listed => orders # <<>>
  BY <1>1 DEF OrphanInv
<1> QED
  BY <1>1, <1>2, <1>4, <1>5, <1>6 DEF OrphanInv

---------------------------------------------------------------------------
\* The report of the opening is still to come when another report is sent
LEMMA OpeningAppend ==
  ASSUME NEW c \in Seq(SignalData), NEW d \in SignalData, OpeningComes(c)
  PROVE  OpeningComes(Append(c, d))
<1>1. PICK i \in 1 .. Len(c) : /\ c[i].kind = "opened" /\ c[i].id = 1
                               /\ \A j \in 1 .. i - 1 : ~Executes(c[j], 1)
  BY DEF OpeningComes
<1>2. /\ Len(c) \in Nat
      /\ \A j \in 1 .. Len(c) : j \in 1 .. Len(Append(c, d)) /\ Append(c, d)[j] = c[j]
  BY AppendElements
<1>3. \A j \in 1 .. i - 1 : j \in 1 .. Len(c)
  BY <1>2
<1>4. \A j \in 1 .. i - 1 : Append(c, d)[j] = c[j]
  BY <1>2, <1>3
<1>5. i \in 1 .. Len(Append(c, d)) /\ Append(c, d)[i] = c[i]
  BY <1>2
<1> QED
  BY <1>1, <1>4, <1>5 DEF OpeningComes

\* An order goes on
LEMMA GoesOnStates ==
  ASSUME TypeInv, NEW n \in 1 .. Len(orders), NEW p \in Order, NEW d \in SignalData,
         orders' = [orders EXCEPT ![n] = p], channel' = Append(channel, d),
         p.status = "live" => orders[n].status = "live"
  PROVE  /\ EntryLive(orders') => EntryLive(orders)
         /\ NoLiveSell(orders) => NoLiveSell(orders')
         /\ Len(orders') = Len(orders) /\ orders # <<>>
         /\ OpeningComes(channel) => OpeningComes(channel')
<1>1. /\ Len(orders') = Len(orders) /\ orders # <<>> /\ orders' # <<>>
      /\ \A m \in 1 .. Len(orders) : orders'[m] = IF m = n THEN p ELSE orders[m]
      /\ 1 \in 1 .. Len(orders) /\ Len(orders) \in Nat
  BY OrderStep, VariablesType
<1>2. EntryLive(orders') => EntryLive(orders)
  BY <1>1 DEF EntryLive
<1>3. \A m \in 2 .. Len(orders) : m \in 1 .. Len(orders)
  BY <1>1
<1>4. NoLiveSell(orders) => NoLiveSell(orders')
  BY <1>1, <1>3 DEF NoLiveSell
<1>5. OpeningComes(channel) => OpeningComes(channel')
  BY OpeningAppend, VariablesType
<1> QED
  BY <1>1, <1>2, <1>4, <1>5

LEMMA ExchangeGoesOn ==
  ASSUME TypeInv, OrphanInv, NEW n \in 1 .. Len(orders), NEW p \in Order, NEW d \in SignalData,
         orders' = [orders EXCEPT ![n] = p], channel' = Append(channel, d),
         orders[n].status = "live", UNCHANGED <<trade, listed, op>>,
         account'.bought = account.bought \/ n = 1, RejectedEmpty(channel', account'.bought),
         listed => EntryCovers(trade, orders', channel', account'.sold)
  PROVE  OrphanInv'
<1>1. /\ EntryLive(orders') => EntryLive(orders)
      /\ NoLiveSell(orders) => NoLiveSell(orders')
      /\ Len(orders') = Len(orders) /\ orders # <<>>
      /\ OpeningComes(channel) => OpeningComes(channel')
  BY GoesOnStates
<1>2. n = 1 => EntryLive(orders)
  BY <1>1 DEF EntryLive
<1>3. ASSUME listed PROVE States(trade, orders', channel', account')
  <2>1. States(trade, orders, channel, account) /\ EntryCovers(trade, orders', channel', account'.sold)
    BY <1>3 DEF OrphanInv
  <2>2. EntryEnds(trade, orders', account'.bought)
    BY <1>1, <1>2, <2>1 DEF States, EntryEnds
  <2>3. EntryComes(trade, orders', channel')
    BY <1>1, <2>1 DEF States, EntryComes
  <2>4. ExitAfterEntry(trade, orders')
    BY <1>1, <2>1 DEF States, ExitAfterEntry
  <2> QED
    BY <2>1, <2>2, <2>3, <2>4 DEF States
<1>4. ASSUME listed PROVE Doing(trade, orders', op["mutex"], Opening)
  BY <1>1, <1>4 DEF OrphanInv, Doing, FilledQuiet, Clearing
<1>5. Opening' = Opening
  BY DEF Opening
<1>6. listed => orders # <<>>
  BY <1>1
<1>7. listed' => States(trade', orders', channel', account') /\ Doing(trade', orders', op'["mutex"], Opening)
  BY <1>3, <1>4
<1>8. listed' => Doing(trade', orders', op'["mutex"], Opening')
  BY <1>5, <1>7 DEF Doing, Clearing
<1>9. listed' /\ orders' = <<>> => op'["command"].name = "open_failed"
  <2>1. Len(orders') = 0 <=> Len(orders) = 0
    BY <1>1
  <2>2. orders' # <<>>
    BY OrderStep
  <2> QED
    BY <2>2
<1> QED
  BY <1>7, <1>8, <1>9 DEF OrphanInv

\* Every report of a rejection of the entry, one more report included
LEMMA RejectedAppend ==
  ASSUME NEW c \in Seq(SignalData), NEW d \in SignalData, NEW b,
         RejectedEmpty(c, b), d.kind = "rejected" /\ d.id = Ref(1) => b = 0
  PROVE  RejectedEmpty(Append(c, d), b)
<1>1. \A i \in 1 .. Len(Append(c, d)) : \/ i \in 1 .. Len(c) /\ Append(c, d)[i] = c[i]
                                        \/ Append(c, d)[i] = d
  BY AppendElements
<1> QED
  BY <1>1 DEF RejectedEmpty

\* More executions, or the end of a sell order, and what the live sell orders may still sell
LEMMA FillCovers ==
  ASSUME TypeInv, BooksInv, SumsInv, listed, EntryCovers(trade, orders, channel, account.sold),
         NEW n \in 1 .. Len(orders), NEW p \in Order, NEW d \in SignalData,
         NEW k \in Nat, orders[n].status = "live",
         orders' = [orders EXCEPT ![n] = p], channel' = Append(channel, d),
         p.filled = orders[n].filled + k, p.qty = orders[n].qty,
         n = 1 /\ d.kind = "traded" => d.cum = p.filled,
         n # 1 => ~Executes(d, 1),
         account'.sold = IF n = 1 THEN account.sold ELSE account.sold + k
  PROVE  EntryCovers(trade, orders', channel', account'.sold)
<1> SUFFICES ASSUME EntryLive(orders') PROVE
      /\ \A i \in 1 .. Len(channel') : Executes(channel'[i], 1) => trade.e <= channel'[i].cum
      /\ \A m \in 2 .. Len(orders') : orders'[m].status = "live" =>
           account'.sold + (orders'[m].qty - orders'[m].filled) <= trade.e
  BY DEF EntryCovers
<1>1. /\ Len(orders') = Len(orders) /\ orders # <<>>
      /\ \A m \in 1 .. Len(orders) : orders'[m] = IF m = n THEN p ELSE orders[m]
      /\ 1 \in 1 .. Len(orders)
  BY OrderStep
<1>2. EntryLive(orders)
  BY <1>1 DEF EntryLive
<1>3. /\ \A i \in 1 .. Len(channel) : Executes(channel[i], 1) => trade.e <= channel[i].cum
      /\ \A m \in 2 .. Len(orders) : orders[m].status = "live" =>
           account.sold + (orders[m].qty - orders[m].filled) <= trade.e
  BY <1>2 DEF EntryCovers
<1>4. ASSUME NEW i \in 1 .. Len(channel'), Executes(channel'[i], 1) PROVE trade.e <= channel'[i].cum
  <2>1. (i \in 1 .. Len(channel) /\ channel'[i] = channel[i]) \/ channel'[i] = d
    BY AppendElements, VariablesType
  <2>2. CASE channel'[i] = d
    <3>1. n = 1 /\ d.cum = orders[1].filled + k
      BY <1>4, <2>2 DEF Executes
    <3>2. trade.e <= orders[1].filled
      BY <1>1 DEF SumsInv, Bought
    <3>3. trade.e \in Int /\ orders[1].filled \in Nat
      BY <1>1, SumsType
    <3> QED
      BY <2>2, <3>1, <3>2, <3>3
  <2> QED
    BY <1>3, <1>4, <2>1, <2>2
<1>5. ASSUME NEW m \in 2 .. Len(orders'), orders'[m].status = "live"
      PROVE  account'.sold + (orders'[m].qty - orders'[m].filled) <= trade.e
  <2>1. m \in 2 .. Len(orders) /\ m \in 1 .. Len(orders) /\ m # 1
    BY <1>1, SumsType
  <2>2. orders[m].status = "live"
    BY <1>1, <1>5, <2>1
  <2>3. account.sold + (orders[m].qty - orders[m].filled) <= trade.e
    BY <1>3, <2>1, <2>2
  <2>4. /\ account.sold \in Nat /\ orders[m].qty \in Int /\ orders[m].filled \in Nat /\ trade.e \in Int
        /\ k \in Nat
    BY <2>1, SumsType
  <2>5. \/ m = n /\ orders'[m].qty = orders[m].qty /\ orders'[m].filled = orders[m].filled + k
        \/ m # n /\ orders'[m] = orders[m] /\ n = 1
    <3>1. n # 1 => m = n
      <4>1. \A j \in 2 .. Len(orders) : orders[j].status = "live" => \E l \in ExitLegs : trade.oid[l] = j
        BY DEF BooksInv, Books, Exits
      <4>2. trade.oid["limit"] = None \/ trade.oid["stop"] = None
        BY DEF BooksInv, Books, Exits
      <4>3. n # 1 => n \in 2 .. Len(orders) /\ n # None /\ m # None
        BY <2>1, SumsType
      <4> QED
        BY <2>1, <2>2, <4>1, <4>2, <4>3 DEF ExitLegs
    <3> QED
      BY <1>1, <2>1, <3>1
  <2>6. account'.sold = IF n = 1 THEN account.sold ELSE account.sold + k
    OBVIOUS
  <2> DEFINE a == account.sold
             b == account'.sold
             q == orders[m].qty
             f == orders[m].filled
             g == orders'[m].filled
             e == trade.e
  <2>7. a + (q - f) <= e /\ a \in Nat /\ q \in Int /\ f \in Nat /\ e \in Int
    BY <2>3, <2>4
  <2>8. (b = a /\ g = f) \/ (b = a + k /\ g = f + k)
    BY <2>1, <2>5, <2>6
  <2>9. orders'[m].qty = q
    BY <2>5
  <2> HIDE DEF a, b, q, f, g, e
  <2>10. b + (q - g) <= e
    BY ONLY <2>7, <2>8, k \in Nat
  <2> QED
    BY <2>9, <2>10 DEF b, g, e
<1> QED
  BY <1>4, <1>5

LEMMA ExchangeOrphan ==
  ASSUME Counting, TypeInv, BooksInv, OpInv, SumsInv, OrphanInv, Exchange
  PROVE  OrphanInv'
<1>0. channel \in Seq(SignalData) /\ Reports(channel, orders) /\ Ref(1) = -1
  BY VariablesType DEF BooksInv, Books, Ref
<1>1. ASSUME NEW n \in DOMAIN orders, NEW k \in FillSizes, Fill(n, k) PROVE OrphanInv'
  <2>1. /\ n \in 1 .. Len(orders) /\ orders[n].status = "live" /\ UNCHANGED <<trade, listed, op>>
        /\ account'.bought = IF n = 1 THEN account.bought + k ELSE account.bought
    BY <1>1, FillCounts DEF Fill
  <2>2. PICK p \in Order, d \in SignalData :
          /\ orders' = [orders EXCEPT ![n] = p] /\ channel' = Append(channel, d) /\ Executes(d, n)
    BY <1>1, FillCounts
  <2>3. RejectedEmpty(channel, account'.bought)
    <3>1. CASE n # 1
      BY <2>1, <3>1 DEF OrphanInv
    <3>2. CASE n = 1
      <4> SUFFICES ASSUME NEW i \in 1 .. Len(channel),
                          channel[i].kind = "rejected" /\ channel[i].id = Ref(1) PROVE FALSE
        BY DEF RejectedEmpty
      <4>1. PICK m \in 1 .. Len(orders) : ReportOf(channel[i], orders[m], m)
        BY <1>0 DEF Reports
      <4>2. m \in Nat /\ Ref(m) = -m
        BY DEF Ref
      <4>3. m = 1
        BY <1>0, <4>1, <4>2 DEF ReportOf
      <4> QED
        BY <2>1, <3>2, <4>1, <4>3 DEF ReportOf
    <3> QED
      BY <3>1, <3>2
  <2>4. RejectedEmpty(channel', account'.bought)
    BY <1>0, <2>2, <2>3, RejectedAppend DEF Executes
  <2>5. ASSUME listed PROVE EntryCovers(trade, orders', channel', account'.sold)
    <3>1. EntryCovers(trade, orders, channel, account.sold)
      BY <2>5 DEF OrphanInv, States
    <3>2. k \in Nat /\ account'.sold = IF n = 1 THEN account.sold ELSE account.sold + k
      BY <1>1, FillCounts
    <3>3. PICK r \in Order, f \in SignalData :
            /\ orders' = [orders EXCEPT ![n] = r] /\ channel' = Append(channel, f) /\ Executes(f, n)
            /\ r.filled = orders[n].filled + k /\ r.qty = orders[n].qty /\ f.cum = r.filled
      BY <1>1, FillCounts
    <3>4. n # 1 => ~Executes(f, 1)
      BY <3>3 DEF Executes
    <3> QED
      BY <2>1, <2>5, <3>1, <3>2, <3>3, <3>4, FillCovers
  <2> QED
    BY <2>1, <2>2, <2>4, <2>5, ExchangeGoesOn
<1>2. ASSUME NEW n \in DOMAIN orders, NEW status \in ExchangeEvents, EndOrder(n, status) PROVE OrphanInv'
  <2>1. /\ n \in 1 .. Len(orders) /\ orders[n].status = "live" /\ UNCHANGED <<trade, listed, op, account>>
        /\ status = "rejected" => orders[n].filled = 0
    BY <1>2, VariablesType DEF EndOrder, Live
  <2>2. PICK p \in Order, d \in SignalData :
          /\ orders' = [orders EXCEPT ![n] = p] /\ channel' = Append(channel, d)
          /\ Tells(d, orders[n], p, n) /\ (d.kind = "rejected" => status = "rejected")
          /\ p.filled = orders[n].filled /\ d.kind # "traded"
          /\ (BooksInv => GoesOn(orders[n], p))
    BY <1>2, EndOrderTells
  <2>3. d.kind = "rejected" /\ d.id = Ref(1) => account.bought = 0
    <3> SUFFICES ASSUME d.kind = "rejected", d.id = Ref(1) PROVE account.bought = 0
      OBVIOUS
    <3>1. n \in Nat /\ Ref(n) = -n
      BY <2>1 DEF Ref
    <3>2. n = 1
      BY <1>0, <2>2, <3>1 DEF Tells, ReportOf
    <3>3. status = "rejected"
      BY <2>2
    <3>4. orders # <<>>
      BY <2>1, EmptySeq
    <3> QED
      BY <2>1, <3>2, <3>3, <3>4 DEF SumsInv, Bought
  <2>4. RejectedEmpty(channel', account'.bought)
    BY <1>0, <2>1, <2>2, <2>3, RejectedAppend DEF OrphanInv
  <2>5. ASSUME listed PROVE EntryCovers(trade, orders', channel', account'.sold)
    <3> DEFINE k == 0
    <3>1. EntryCovers(trade, orders, channel, account.sold)
      BY <2>5 DEF OrphanInv, States
    <3>2. /\ orders[n].filled \in Nat /\ account.sold \in Nat
      BY <2>1, SumsType
    <3>3. /\ k \in Nat /\ p.filled = orders[n].filled + k
          /\ account'.sold = IF n = 1 THEN account.sold ELSE account.sold + k
      BY <2>1, <2>2, <3>2
    <3> HIDE DEF k
    <3>4. p.qty = orders[n].qty /\ ~Executes(d, 1)
      BY <2>2 DEF GoesOn, Executes
    <3> QED
      BY <2>1, <2>2, <2>5, <3>1, <3>3, <3>4, FillCovers
  <2> QED
    BY <2>1, <2>2, <2>4, <2>5, ExchangeGoesOn
<1> QED
  BY <1>1, <1>2 DEF Exchange

\* The entry: its report is on its way before any other
LEMMA OpenOrphan ==
  ASSUME Undisturbed, TypeInv, BooksInv, OpInv, SumsInv, OrphanInv, Open
  PROVE  OrphanInv'
<1>1. /\ orders = <<>> /\ trade = NewTrade /\ Len(orders) = 0 /\ op["mutex"].name = "idle"
      /\ UNCHANGED account
  BY EmptySeq DEF Open, Free
<1>2. PICK tp \in BOOLEAN, sl \in BOOLEAN :
        trade' = [trade EXCEPT !.ref["entry"] = Ref(Len(orders) + 1), !.oq = Quantity,
                               !.tp = tp, !.sl = sl]
  BY DEF Open
<1>3. trade'.e = 0 /\ trade'.entryState = "new" /\ trade'.exitState = "new"
  BY <1>1, <1>2 DEF NewTrade
<1>4. channel \in Seq(SignalData) /\ Len(channel) = 0
  <2>1. channel \in Seq(SignalData) /\ Len(channel) \in Nat
    BY VariablesType, LenProperties
  <2>2. \A i \in 1 .. Len(channel) : \E n \in 1 .. 0 : ReportOf(channel[i], orders[n], n)
    BY <1>1 DEF BooksInv, Books, Reports
  <2>3. Len(channel) > 0 => 1 \in 1 .. Len(channel)
    BY <2>1
  <2> QED
    BY <2>1, <2>2, <2>3
<1>5. EntryEnds(trade', orders', account'.bought) /\ ExitAfterEntry(trade', orders')
  BY <1>3 DEF EntryEnds, ExitAfterEntry
<1>6. CASE Accept("buy", Quantity) /\ op' = [op EXCEPT !["command"] = Operation("open_ok", <<>>)]
  <2> DEFINE d == Signal("opened", 1)
  <2>1. orders' = Append(orders, NewOrder("buy", Quantity)) /\ channel' = Append(channel, d)
    BY <1>1, <1>6 DEF Accept, NewOrder, Report, OpInv
  <2>2. d \in SignalData /\ d.kind = "opened" /\ d.id = 1
    <3>1. 1 \in 0 .. MaxOrders /\ "opened" \in SignalKind
      BY MaxOrdersAssumption DEF SignalKind
    <3>2. d \in SignalData
      BY <3>1, SignalType
    <3>3. d.kind = "opened" /\ d.id = 1
      BY DEF Signal
    <3> QED
      BY <3>2, <3>3
  <2> HIDE DEF d
  <2>3. /\ Len(orders') = 1 /\ orders' # <<>>
        /\ Len(channel') = 1 /\ channel'[1] = d
    <3>1. Quantity \in Int
      BY ConstantsAssumption DEF ConstantsAssumption
    <3>2. Len(orders') = 1 /\ orders' # <<>>
      BY <1>1, <1>6, <3>1, OrderAdded
    <3> QED
      BY <1>4, <2>1, <2>2, <3>2, AppendProperties
  <2>4. OpeningComes(channel')
    BY <2>2, <2>3 DEF OpeningComes
  <2>5. EntryComes(trade', orders', channel')
    BY <1>3, <2>3, <2>4 DEF EntryComes
  <2>6. RejectedEmpty(channel', account'.bought)
    BY <2>2, <2>3 DEF RejectedEmpty
  <2>7. op'["mutex"] = op["mutex"] /\ op'["command"].name = "open_ok"
    BY <1>6, VariablesType DEF Operation, Thread
  <2>8. Doing(trade', orders', op'["mutex"], Opening')
    BY <1>1, <1>3, <2>7 DEF Doing, FilledQuiet, FilledExits, Clearing, BothFilled
  <2>9. EntryCovers(trade', orders', channel', account'.sold)
    BY <2>2, <2>3 DEF EntryCovers, Executes
  <2> QED
    BY <1>5, <2>3, <2>5, <2>6, <2>7, <2>8, <2>9 DEF OrphanInv, States
<1>7. CASE Refuse /\ op' = [op EXCEPT !["command"] = Operation("open_failed", <<>>)]
  <2>1. UNCHANGED <<orders, channel>>
    BY <1>7 DEF Refuse
  <2>2. EntryComes(trade', orders', channel')
    BY <1>1, <2>1 DEF EntryComes, EntryLive
  <2>3. RejectedEmpty(channel', account'.bought)
    BY <1>1, <2>1 DEF OrphanInv
  <2>4. op'["mutex"] = op["mutex"] /\ op'["command"].name = "open_failed"
    BY <1>7, VariablesType DEF Operation, Thread
  <2>5. Doing(trade', orders', op'["mutex"], Opening')
    BY <1>1, <1>3, <2>4 DEF Doing, FilledQuiet, FilledExits, Clearing, BothFilled
  <2>6. EntryCovers(trade', orders', channel', account'.sold)
    BY <1>1, <2>1 DEF EntryCovers, EntryLive
  <2> QED
    BY <1>5, <2>2, <2>3, <2>4, <2>5, <2>6 DEF OrphanInv, States
<1>8. "lost_reply" \notin ApiFaults
  BY DEF Undisturbed
<1> QED
  BY <1>6, <1>7, <1>8 DEF Open

---------------------------------------------------------------------------
\* A live sell order still sells lots the trade bought and has not counted as sold
LEMMA LiveSellSums ==
  ASSUME TypeInv, BooksInv, SumsInv, NEW n \in 2 .. Len(orders), orders[n].status = "live"
  PROVE  /\ account.sold < account.bought /\ trade.x < account.bought
         /\ \E l \in ExitLegs : trade.oid[l] = n
<1>1. PICK l \in ExitLegs : trade.oid[l] = n
  BY DEF BooksInv, Books, Exits
<1>2. n # None /\ n \in 1 .. Len(orders)
  BY SumsType
<1>3. trade.exec[l] <= orders[n].filled
  BY <1>1, <1>2 DEF BooksInv, Books, Exits, LegOf
<1>4. orders[n].filled < orders[n].qty
  BY <1>2 DEF BooksInv, Books, Ledger, Kept
<1>5. trade.x + (orders[n].filled - trade.exec[l]) = account.sold
  BY <1>1, <1>2 DEF SumsInv, Sold
<1>6. account.sold + (orders[n].qty - orders[n].filled) <= account.bought
  BY DEF SumsInv, Covered
<1> DEFINE s == account.sold
           b == account.bought
           x == trade.x
           e == trade.exec[l]
           f == orders[n].filled
           q == orders[n].qty
<1>7. s \in Nat /\ b \in Nat /\ x \in Nat /\ e \in Nat /\ f \in Nat /\ q \in Int
  BY <1>1, <1>2, SumsType
<1>8. e <= f /\ f < q /\ x + (f - e) = s /\ s + (q - f) <= b
  BY <1>3, <1>4, <1>5, <1>6
<1> HIDE DEF s, b, x, e, f, q
<1>9. s < b /\ x < b
  BY ONLY <1>7, <1>8
<1> QED
  BY <1>1, <1>9 DEF s, b, x

\* A trade that entered and exited what it bought has no live sell order, one that bought
\* nothing neither
LEMMA NoSellLeft ==
  ASSUME TypeInv, BooksInv, SumsInv, trade.x >= account.bought \/ account.bought <= 0
  PROVE  NoLiveSell(orders)
<1> SUFFICES ASSUME NEW n \in 2 .. Len(orders), orders[n].status = "live" PROVE FALSE
  BY DEF NoLiveSell
<1>1. account.sold < account.bought /\ trade.x < account.bought
  BY LiveSellSums
<1>2. account.sold \in Nat /\ account.bought \in Nat /\ trade.x \in Nat
  BY SumsType
<1> QED
  BY <1>1, <1>2

\* An exit order is placed for what the trade counted and did not sell
LEMMA CreateExitCovers ==
  ASSUME TypeInv, BooksInv, OpInv, SumsInv, Accept("sell", Remaining(trade)), orders # <<>>,
         \A l \in ExitLegs : trade.oid[l] = None,
         EntryCovers(trade, orders, channel, account.sold)
  PROVE  EntryCovers(trade, orders', channel', account.sold)
<1>1. Remaining(trade) \in Int /\ Remaining(trade) = trade.e - trade.x
      /\ channel \in Seq(SignalData) /\ trade.x = account.sold
      /\ trade.x \in Nat /\ trade.e \in Int
  BY SumsType, VariablesType DEF Remaining, SumsInv, Sold
<1>2. /\ Len(orders') = Len(orders) + 1 /\ orders' # <<>> /\ Len(orders) \in Nat
      /\ \A m \in 1 .. Len(orders) : orders'[m] = orders[m]
      /\ orders'[Len(orders) + 1].filled = 0 /\ orders'[Len(orders) + 1].qty = Remaining(trade)
      /\ 1 \in 1 .. Len(orders)
  BY <1>1, OrderAdded, SumsType
<1>3. PICK d \in SignalData : channel' = Append(channel, d) /\ d.kind = "opened"
  BY <1>1, OrderAdded
<1> SUFFICES ASSUME EntryLive(orders') PROVE
      /\ \A i \in 1 .. Len(channel') : Executes(channel'[i], 1) => trade.e <= channel'[i].cum
      /\ \A m \in 2 .. Len(orders') : orders'[m].status = "live" =>
           account.sold + (orders'[m].qty - orders'[m].filled) <= trade.e
  BY DEF EntryCovers
<1>4. EntryLive(orders)
  BY <1>2 DEF EntryLive
<1>5. ASSUME NEW i \in 1 .. Len(channel'), Executes(channel'[i], 1) PROVE trade.e <= channel'[i].cum
  <2>1. (i \in 1 .. Len(channel) /\ channel'[i] = channel[i]) \/ channel'[i] = d
    BY <1>1, <1>3, AppendElements
  <2> QED
    BY <1>3, <1>4, <1>5, <2>1 DEF EntryCovers, Executes
<1>6. ASSUME NEW m \in 2 .. Len(orders'), orders'[m].status = "live"
      PROVE  account.sold + (orders'[m].qty - orders'[m].filled) <= trade.e
  <2>1. CASE m = Len(orders) + 1
    BY <1>1, <1>2, <2>1
  <2>2. CASE m # Len(orders) + 1
    <3>1. m \in 2 .. Len(orders) /\ m \in 1 .. Len(orders)
      BY <1>2, <2>2
    <3> QED
      BY <1>2, <1>4, <1>6, <3>1 DEF EntryCovers
  <2> QED
    BY <2>1, <2>2
<1> QED
  BY <1>5, <1>6

\* The exit order is placed, or refused, for a trade that has lots to sell: it is not over
LEMMA CreateExitTrade ==
  ASSUME Undisturbed, TypeInv, BooksInv, OpInv, NEW th \in Thread, CreateExit(th)
  PROVE  /\ th = "mutex" /\ op["mutex"].name \in {"take_profit", "stop_loss", "close"}
         /\ trade.e # 0 /\ ~(trade.x >= trade.e) /\ orders # <<>>
         /\ trade'.e = trade.e /\ trade'.entryState = trade.entryState
         /\ trade'.oid["entry"] = trade.oid["entry"]
         /\ trade'.exitState = "filled" => trade.exitState = "filled"
         /\ Accept("sell", Remaining(trade)) \/ Refuse
         /\ \A k \in ExitLegs : trade.oid[k] = None
<1> DEFINE name == op[th].name
           l == ExitLeg(name)
<1>1. /\ th = "mutex" /\ name \in {"take_profit", "stop_loss", "close"}
      /\ orders # <<>> /\ l \in ExitLegs /\ \A k \in ExitLegs : trade.oid[k] = None
  BY ExitFree
<1>2. trade \in Trade /\ l \in Legs /\ "entry" \in Legs \ {l}
  BY <1>1, VariablesType, FieldsType
<1>3. \/ Accept("sell", Remaining(trade)) /\ trade' = Placed(trade, name)
      \/ Refuse /\ trade' = ResetLeg(trade, l)
      \/ Refuse /\ trade' = OutOfFunds(trade, l)
  BY DEF CreateExit, Undisturbed
<1>4. trade.e # 0 /\ ~(trade.x >= trade.e)
  <2>1. trade.x < trade.e
    BY DEF CreateExit
  <2>2. trade.x \in Nat /\ trade.e \in Int
    BY SumsType
  <2> QED
    BY <2>1, <2>2
<1> HIDE DEF name, l
<1>5. CASE trade' = Placed(trade, name)
  <2>1. /\ GivenExit(trade, trade', l, Len(orders) + 1, Remaining(trade))
        /\ trade'.e = trade.e /\ trade'.entryState = trade.entryState
        /\ trade'.exitState = trade.exitState
    BY <1>1, <1>2, <1>5, PlacedGiven DEF l
  <2>2. trade'.oid["entry"] = trade.oid["entry"]
    BY <1>2, <2>1 DEF GivenExit
  <2> QED
    BY <1>1, <1>3, <1>4, <2>1, <2>2 DEF name
<1>6. CASE trade' = ResetLeg(trade, l) \/ trade' = OutOfFunds(trade, l)
  <2> DEFINE r == ResetLeg(trade, l)
             w == OutOfFunds(trade, l)
  <2>1. r \in Trade /\ Freed(trade, r, l)
        /\ r.e = trade.e /\ r.entryState = trade.entryState /\ r.exitState = trade.exitState
    BY <1>2, ResetFrees
  <2>2. trade' = r \/ trade' = w
    BY <1>6
  <2>3. w = [r EXCEPT !.exitState = "error"]
    BY DEF OutOfFunds
  <2> HIDE DEF r, w
  <2>4. SameLegs(r, w) /\ w.e = r.e /\ w.entryState = r.entryState /\ w.exitState = "error"
    <3>1. "error" \in ExitState
      BY StateNames
    <3> QED
      BY <2>1, <2>3, <3>1, StateSame
  <2>5. r.oid["entry"] = trade.oid["entry"] /\ w.oid["entry"] = r.oid["entry"]
    BY <1>2, <2>1, <2>4 DEF Freed, OthersSame, SameLegs
  <2>6. /\ trade'.e = trade.e /\ trade'.entryState = trade.entryState
        /\ trade'.oid["entry"] = trade.oid["entry"]
        /\ trade'.exitState = "filled" => trade.exitState = "filled"
    BY <2>1, <2>2, <2>4, <2>5
  <2> QED
    BY <1>1, <1>3, <1>4, <2>6 DEF name
<1> QED
  BY <1>3, <1>5, <1>6

LEMMA CreateExitOrphan ==
  ASSUME Undisturbed, TypeInv, BooksInv, OpInv, SumsInv, OrphanInv, NEW th \in Thread, CreateExit(th)
  PROVE  OrphanInv'
<1>1. /\ op["mutex"].name \in {"take_profit", "stop_loss", "close"}
      /\ trade.e # 0 /\ ~(trade.x >= trade.e) /\ orders # <<>>
      /\ trade'.e = trade.e /\ trade'.entryState = trade.entryState
      /\ trade'.oid["entry"] = trade.oid["entry"]
      /\ trade'.exitState = "filled" => trade.exitState = "filled"
      /\ Accept("sell", Remaining(trade)) \/ Refuse
      /\ \A k \in ExitLegs : trade.oid[k] = None
  BY CreateExitTrade
<1>2. th = "mutex" /\ UNCHANGED <<account, listed>>
  BY CreateExitTrade DEF CreateExit
<1>3. \E negative \in BOOLEAN : Return("mutex", negative)
  BY <1>2 DEF CreateExit
<1>4. PICK o : /\ Start("mutex", o) /\ ~o.dirty
               /\ \/ o.name = "idle"
                  \/ o.name \in {"dirty_stop", "dirty_done"} /\ op["mutex"].name \in Selling
  BY <1>3, ReturnsTo
<1>5. op'["mutex"] = o /\ op'["command"] = op["command"]
  BY <1>4, Started DEF Thread
<1>6. /\ orders' # <<>> /\ (EntryLive(orders') => EntryLive(orders))
      /\ RejectedEmpty(channel', account.bought)
  <2>1. CASE Accept("sell", Remaining(trade))
    <3>1. Remaining(trade) \in Int /\ channel \in Seq(SignalData)
      BY SumsType, VariablesType DEF Remaining
    <3>2. /\ orders' # <<>> /\ \A m \in 1 .. Len(orders) : orders'[m] = orders[m]
          /\ \E d \in SignalData : channel' = Append(channel, d) /\ d.kind = "opened"
      BY <2>1, <3>1, OrderAdded
    <3>3. 1 \in 1 .. Len(orders)
      BY <1>1, SumsType
    <3>4. EntryLive(orders') => EntryLive(orders)
      BY <1>1, <3>2, <3>3 DEF EntryLive
    <3>5. RejectedEmpty(channel', account.bought)
      BY <3>1, <3>2, RejectedAppend DEF OrphanInv
    <3> QED
      BY <3>2, <3>4, <3>5
  <2>2. CASE Refuse
    BY <1>1, <2>2 DEF Refuse, OrphanInv
  <2> QED
    BY <1>1, <2>1, <2>2
<1>7. ASSUME listed PROVE States(trade', orders', channel', account) /\ ~BothFilled(trade')
  <2>1. States(trade, orders, channel, account) /\ ~BothFilled(trade)
    BY <1>1, <1>7 DEF OrphanInv, Doing, FilledExits, Selling
  <2>2. EntryEnds(trade', orders', account.bought)
    BY <1>1, <1>6, <2>1 DEF States, EntryEnds
  <2>3. EntryComes(trade', orders', channel')
    BY <1>1, <1>6, <2>1 DEF States, EntryComes
  <2>4. ExitAfterEntry(trade', orders') /\ ~BothFilled(trade')
    BY <1>1, <1>6, <2>1 DEF States, ExitAfterEntry, BothFilled
  <2>5. EntryCovers(trade, orders', channel', account.sold)
    <3>1. CASE Accept("sell", Remaining(trade))
      BY <1>1, <2>1, <3>1, CreateExitCovers DEF States
    <3>2. CASE Refuse
      BY <2>1, <3>2 DEF Refuse, States
    <3> QED
      BY <1>1, <3>1, <3>2
  <2>6. EntryCovers(trade', orders', channel', account.sold)
    BY <1>1, <2>5 DEF EntryCovers
  <2> QED
    BY <2>2, <2>3, <2>4, <2>6 DEF States
<1>8. ASSUME listed PROVE Doing(trade', orders', o, Opening')
  <2>1. Clearing(trade', orders', o, Opening')
    BY <1>4, NotClearing
  <2> QED
    BY <1>7, <1>8, <2>1 DEF Doing, FilledQuiet, FilledExits
<1> QED
  BY <1>2, <1>4, <1>5, <1>6, <1>7, <1>8 DEF OrphanInv

---------------------------------------------------------------------------
\* A leg with an order, not the one canceled, is still to be freed after it
LEMMA AdvanceKeeps ==
  ASSUME NEW th \in Thread, op \in [Thread -> Op], Pending(th) # {},
         NEW k \in Legs, HasOrder(trade, k), op[th].todo[NextPlace(th)] # k,
         \E i \in 1 .. Len(op[th].todo) : op[th].todo[i] = k
  PROVE  LET rest == SubSeq(op[th].todo, NextPlace(th) + 1, Len(op[th].todo))
         IN  \E i \in 1 .. Len(rest) : rest[i] = k
<1> DEFINE todo == op[th].todo
           m == NextPlace(th)
           len == Len(todo)
           a == m + 1
           rest == SubSeq(todo, a, len)
<1>1. todo \in Seq(Legs) /\ len \in Nat /\ m \in 1 .. len
  BY TodoType, NextPlaceType
<1>2. DOMAIN todo = 1 .. len
  BY <1>1, LenProperties
<1>3. PICK i \in 1 .. len : todo[i] = k
  OBVIOUS
<1>4. m <= i
  BY <1>2, <1>3, NextPlaceFirst DEF Pending
<1>5. \A j \in a .. len : todo[j] \in Legs
  BY <1>1, ElementOfSeq
<1>6. i # m
  BY <1>3
<1> HIDE DEF m, todo, len
<1>7. a \in Int /\ len \in Int /\ a <= i /\ i <= len /\ i - a + 1 \in 1 .. len - a + 1
  BY <1>1, <1>4, <1>6
<1>8. a = m + 1
  OBVIOUS
<1> HIDE DEF a
<1>9. /\ Len(rest) = IF a <= len THEN len - a + 1 ELSE 0
      /\ \A j \in 1 .. len - a + 1 : rest[j] = todo[a + j - 1]
  BY <1>5, <1>7, SubSeqProperties
<1> HIDE DEF rest
<1>10. a <= len /\ a + (i - a + 1) - 1 = i
  BY <1>7
<1>11. i - a + 1 \in 1 .. Len(rest) /\ rest[i - a + 1] = k
  BY <1>3, <1>7, <1>9, <1>10
<1>12. \E j \in 1 .. Len(rest) : rest[j] = k
  BY <1>11
<1> QED
  BY <1>12 DEF rest, todo, len, a, m

\* remove leaves the exit filled only when the trade sold what it entered
LEMMA AfterCancelFilled ==
  ASSUME NEW v \in Trade, NEW l \in ExitLegs, NEW name \in Removals,
         AfterCancel(name, l, v).exitState = "filled"
  PROVE  v.x >= v.e
<1>1. l # "entry"
  BY DEF ExitLegs
<1> DEFINE s == IF v.e <= 0 /\ v.x <= 0 THEN "canceled"
                ELSE IF v.x >= v.e THEN "filled" ELSE "partially_filled"
<1>2. AfterCancel(name, l, v) = [v EXCEPT !.exitState = s]
  BY <1>1 DEF AfterCancel
<1> HIDE DEF s
<1>3. [v EXCEPT !.exitState = s].exitState = s
  BY DEF Trade
<1>4. s = "filled"
  BY <1>2, <1>3
<1> QED
  BY <1>4 DEF s

\* Order n of leg l is canceled, and what it executed is counted
Cancels(name, l, n, p, d, v) ==
  /\ n = trade.oid[l] /\ HasOrder(trade, l)
  /\ orders' = [orders EXCEPT ![n] = p] /\ channel' = Append(channel, d)
  /\ GoesOn(orders[n], p) /\ p.filled = orders[n].filled /\ p.status = "canceled"
  /\ d.kind = "canceled"
  /\ v = CheckAndReset(trade, l, n, p) /\ Freed(trade, v, l)
  /\ trade' = AfterCancel(name, l, v)
  /\ UNCHANGED <<account, listed>>

\* What the trade counts of the order canceled
LEMMA CanceledCounts ==
  ASSUME TypeInv, BooksInv, NEW name, NEW l \in Legs, NEW n \in 1 .. Len(orders),
         NEW p \in Order, NEW d \in SignalData, NEW v \in Trade, Cancels(name, l, n, p, d, v)
  PROVE  /\ l = "entry" =>
              /\ v.e = IF p.filled > trade.e THEN p.filled ELSE trade.e
              /\ v.exitState = trade.exitState
              /\ v.entryState \in {trade.entryState, "filled", "partially_filled"}
         /\ l # "entry" =>
              /\ v.e = trade.e /\ v.entryState = trade.entryState
              /\ \/ v.exitState = trade.exitState
                 \/ v.exitState = ExitStateAfter(trade, v.x, InfoSignal("traded", n, p))
<1>1. n \in 1 .. MaxOrders /\ trade \in Trade /\ orders \in Seq(Order)
  BY VariablesType
<1>2. v = CheckAndReset(trade, l, n, p) /\ n = trade.oid[l] /\ n # None
  BY DEF Cancels, HasOrder
<1>3. Books(trade, orders, channel, listed, Opening)
  BY DEF BooksInv
<1> QED
  BY <1>1, <1>2, <1>3, CheckAndResetFrees

\* The entry is canceled: the trade counted it all
LEMMA CanceledEntry ==
  ASSUME TypeInv, BooksInv, SumsInv, SumsInv', OrphanInv, listed, NEW name, NEW n \in 1 .. Len(orders),
         NEW p \in Order, NEW d \in SignalData, NEW v \in Trade, NEW l, l = "entry",
         Cancels(name, l, n, p, d, v)
  PROVE  ~EntryLive(orders') /\ ~BothFilled(trade') /\ States(trade', orders', channel', account')
<1>1. n = 1 /\ l \in Legs
  BY LegOrder DEF Cancels, Legs
<1>2. EntryLive(orders) /\ orders' # <<>> /\ orders'[1] = p
  BY <1>1, OrderStep DEF Cancels, GoesOn, EntryLive
<1>3. ~EntryLive(orders')
  BY <1>2 DEF EntryLive, Cancels
<1>4. States(trade, orders, channel, account)
  BY DEF OrphanInv
<1>5. trade.entryState # "rejected" /\ trade.exitState # "filled"
  BY <1>2, <1>4 DEF States, EntryEnds, ExitAfterEntry
<1>6. l \in Legs
  BY DEF Legs
<1>7. /\ v.e = IF p.filled > trade.e THEN p.filled ELSE trade.e
      /\ v.exitState = trade.exitState
      /\ v.entryState \in {trade.entryState, "filled", "partially_filled"}
  BY <1>6, CanceledCounts
<1>8. /\ trade'.e = v.e /\ trade'.exitState = v.exitState
      /\ trade'.entryState \in {v.entryState, "canceled", "filled"}
  BY <1>1, AfterCancelSame DEF Cancels
<1>9. trade'.entryState # "rejected" /\ trade'.exitState # "filled"
  BY <1>5, <1>7, <1>8
<1>10. trade'.e = account.bought
  <2>1. p.filled = account.bought /\ trade.e <= account.bought
    BY <1>1, <1>2 DEF SumsInv, Bought, EntryLive, Cancels
  <2>2. trade.e \in Int /\ account.bought \in Nat
    BY SumsType
  <2> QED
    BY <1>7, <1>8, <2>1, <2>2
<1>11. account' = account
  BY DEF Cancels
<1>12. EntryEnds(trade', orders', account'.bought)
  BY <1>3, <1>9, <1>10, <1>11 DEF EntryEnds
<1>13. /\ EntryComes(trade', orders', channel') /\ ExitAfterEntry(trade', orders')
       /\ EntryCovers(trade', orders', channel', account'.sold)
  BY <1>3 DEF EntryComes, ExitAfterEntry, EntryCovers
<1> QED
  BY <1>3, <1>9, <1>12, <1>13 DEF States, BothFilled

\* What the state of the exit tells, once an execution that is not the last is counted
LEMMA ExitFilledAfter ==
  ASSUME NEW t, NEW x, NEW d, ~d.full, ExitStateAfter(t, x, d) = "filled"
  PROVE  IF t.entryState = "filled" THEN x >= t.e ELSE ~(HasOrder(t, "entry") /\ t.e < t.oq)
  BY DEF ExitStateAfter

\* As long as the entry is live, and has executed, the trade has its identifier, has not
\* entered it all, and its state tells so
LEMMA EntryGoesOn ==
  ASSUME TypeInv, BooksInv, SumsInv, States(trade, orders, channel, account), EntryLive(orders),
         NEW n \in 2 .. Len(orders)
  PROVE  /\ trade.oid["entry"] = 1 /\ HasOrder(trade, "entry")
         /\ trade.entryState # "filled" /\ trade.e < trade.oq
<1>1. n \in 1 .. Len(orders) /\ Len(orders) \in Nat /\ 1 \in 1 .. Len(orders) /\ Len(orders) # 1
  BY SumsType DEF EntryLive
<1>2. trade.oid["entry"] = 1
  BY <1>1 DEF States, EntryComes
<1>3. trade.entryState # "filled"
  BY DEF States, EntryEnds
<1>4. orders[1].filled < trade.oq
  BY <1>1 DEF EntryLive, BooksInv, Books, Ledger, Kept
<1>5. trade.e <= orders[1].filled
  BY <1>1 DEF SumsInv, Bought, EntryLive
<1>6. trade.e \in Int /\ orders[1].filled \in Nat /\ trade.oq \in Nat
  BY <1>1, SumsType, VariablesType, FieldsType
<1>7. trade.e < trade.oq
  BY <1>4, <1>5, <1>6
<1> QED
  BY <1>2, <1>3, <1>7 DEF HasOrder, None

\* The exit order is canceled: no sell order is left
LEMMA CanceledExit ==
  ASSUME TypeInv, BooksInv, BooksInv', SumsInv, SumsInv', OrphanInv, listed, NEW name,
         NEW l \in ExitLegs, NEW n \in 1 .. Len(orders),
         NEW p \in Order, NEW d \in SignalData, NEW v \in Trade, Cancels(name, l, n, p, d, v)
  PROVE  /\ NoLiveSell(orders') /\ (EntryLive(orders') => EntryLive(orders))
         /\ EntryLive(orders) => trade.oid["entry"] = 1
         /\ BothFilled(trade') =>
              (BothFilled(trade) /\ name \notin Removals) \/ trade'.x >= trade'.e
         /\ n \in 2 .. Len(orders) /\ orders[n].status = "live"
         /\ States(trade', orders', channel', account')
<1>0. l \in Legs /\ l # "entry" /\ "entry" \in Legs /\ "entry" # l
  BY DEF Legs, ExitLegs
<1>1. n \in 2 .. Len(orders) /\ n # 1 /\ orders[n].status = "live" /\ n # None
  BY <1>0, LegOrder, SumsType DEF Cancels, GoesOn
<1>2. /\ Len(orders') = Len(orders) /\ orders # <<>> /\ orders' # <<>> /\ 1 \in 1 .. Len(orders)
      /\ \A m \in 1 .. Len(orders) : orders'[m] = IF m = n THEN p ELSE orders[m]
  BY OrderStep DEF Cancels
<1>3. EntryLive(orders') <=> EntryLive(orders)
  BY <1>1, <1>2 DEF EntryLive
<1>4. States(trade, orders, channel, account)
  BY DEF OrphanInv
<1>5. v.e = trade.e /\ v.entryState = trade.entryState
      /\ \/ v.exitState = trade.exitState
         \/ v.exitState = ExitStateAfter(trade, v.x, InfoSignal("traded", n, p))
  BY <1>0, CanceledCounts
<1>6. /\ SameLegs(v, trade') /\ trade'.e = trade.e /\ trade'.x = v.x
      /\ trade'.entryState = trade.entryState
      /\ name \notin Removals => trade'.exitState = v.exitState
      /\ name \in Removals /\ trade'.exitState = "filled" => trade'.x >= trade'.e
  <2>1. trade' = AfterCancel(name, l, v)
    BY DEF Cancels
  <2>2. /\ SameLegs(v, trade') /\ trade'.e = v.e /\ trade'.x = v.x
        /\ trade'.entryState = v.entryState
        /\ name \notin Removals => trade'.exitState = v.exitState
    BY <1>0, <2>1, AfterCancelSame
  <2>3. name \in Removals /\ trade'.exitState = "filled" => v.x >= v.e
    BY <2>1, AfterCancelFilled
  <2> QED
    BY <1>5, <2>2, <2>3
<1>7. trade'.oid["entry"] = trade.oid["entry"] /\ \A k \in ExitLegs : trade'.oid[k] = None
  <2>1. Freed(trade, trade', l)
    BY <1>0, <1>6, FreedThenSame DEF Cancels
  <2>2. trade'.oid[l] = None /\ \A k \in Legs : k # l => trade'.oid[k] = trade.oid[k]
    BY <2>1 DEF Freed, OthersSame
  <2>3. trade.oid["limit"] = None \/ trade.oid["stop"] = None
    BY DEF BooksInv, Books, Exits
  <2>4. trade.oid[l] # None
    BY <1>1 DEF Cancels
  <2> QED
    BY <1>0, <2>2, <2>3, <2>4 DEF ExitLegs, Legs
<1>8. NoLiveSell(orders')
  <2> SUFFICES ASSUME NEW m \in 2 .. Len(orders'), orders'[m].status = "live" PROVE FALSE
    BY DEF NoLiveSell
  <2>1. \E k \in ExitLegs : trade'.oid[k] = m
    BY DEF BooksInv, Books, Exits
  <2> QED
    BY <1>7, <2>1 DEF None
<1>9. trade'.x = account.sold /\ account' = account
  BY <1>7 DEF SumsInv, Sold, Cancels
<1>10. EntryLive(orders) => trade.oid["entry"] = 1 /\ HasOrder(trade, "entry")
                            /\ trade.entryState # "filled" /\ trade.e < trade.oq
  BY <1>1, <1>4, EntryGoesOn
<1>11. trade'.exitState = "filled" =>
         \/ name \in Removals /\ trade'.x >= trade'.e
         \/ name \notin Removals /\ trade.exitState = "filled"
         \/ name \notin Removals /\ IF trade.entryState = "filled" THEN trade'.x >= trade'.e
                                    ELSE ~(HasOrder(trade, "entry") /\ trade.e < trade.oq)
  <2> DEFINE f == InfoSignal("traded", n, p)
  <2>1. ~f.full
    BY DEF InfoSignal, Cancels
  <2> HIDE DEF f
  <2>2. ASSUME v.exitState = ExitStateAfter(trade, v.x, f), v.exitState = "filled"
        PROVE  IF trade.entryState = "filled" THEN v.x >= trade.e
               ELSE ~(HasOrder(trade, "entry") /\ trade.e < trade.oq)
    BY <2>1, <2>2, ExitFilledAfter
  <2> QED
    BY <1>5, <1>6, <2>2 DEF f
<1>12. EntryCovers(trade, orders', channel', account'.sold)
  <2> DEFINE k == 0
  <2>1. EntryCovers(trade, orders, channel, account.sold)
    BY <1>4 DEF States
  <2>2. orders[n].filled \in Nat /\ account.sold \in Nat
    BY SumsType
  <2>3. /\ k \in Nat /\ p.filled = orders[n].filled + k
        /\ account'.sold = IF n = 1 THEN account.sold ELSE account.sold + k
    BY <1>1, <1>9, <2>2 DEF Cancels
  <2> HIDE DEF k
  <2>4. p.qty = orders[n].qty /\ ~Executes(d, 1)
    BY DEF GoesOn, Executes, Cancels
  <2>5. orders' = [orders EXCEPT ![n] = p] /\ channel' = Append(channel, d)
    BY DEF Cancels
  <2> QED
    BY <1>1, <2>1, <2>3, <2>4, <2>5, FillCovers
<1>13. EntryCovers(trade', orders', channel', account'.sold)
  BY <1>6, <1>12 DEF EntryCovers
<1>14. EntryEnds(trade', orders', account'.bought)
  BY <1>3, <1>4, <1>6, <1>9 DEF States, EntryEnds
<1>15. EntryComes(trade', orders', channel')
  BY <1>3, <1>7, <1>10 DEF EntryComes
<1>16. ExitAfterEntry(trade', orders')
  <2> SUFFICES ASSUME trade'.exitState = "filled", EntryLive(orders') PROVE FALSE
    BY DEF ExitAfterEntry
  <2>1. EntryLive(orders) /\ trade.exitState # "filled"
    BY <1>3, <1>4 DEF States, ExitAfterEntry
  <2>2. trade'.x >= trade'.e
    BY <1>10, <1>11, <2>1
  <2>3. account.sold + (orders[n].qty - orders[n].filled) <= trade.e
    BY <1>1, <1>4, <2>1 DEF States, EntryCovers
  <2>4. orders[n].filled < orders[n].qty
    BY <1>1 DEF BooksInv, Books, Ledger, Kept
  <2>5. orders[n].filled \in Nat /\ orders[n].qty \in Int /\ account.sold \in Nat /\ trade.e \in Int
    BY SumsType
  <2>6. account.sold >= trade.e
    BY <1>6, <1>9, <2>2
  <2> QED
    BY <2>3, <2>4, <2>5, <2>6
<1>17. BothFilled(trade') => (BothFilled(trade) /\ name \notin Removals) \/ trade'.x >= trade'.e
  BY <1>6, <1>11 DEF BothFilled
<1> QED
  BY <1>1, <1>3, <1>8, <1>10, <1>13, <1>14, <1>15, <1>16, <1>17 DEF States

\* What is left to cancel, once a leg was
LEMMA ClearingAfter ==
  ASSUME TypeInv, BooksInv, Pending("mutex") # {}, NEW l, l = op["mutex"].todo[NextPlace("mutex")],
         Advance("mutex", FALSE), Freed(trade, trade', l), l \in Legs,
         EntryLive(orders') => EntryLive(orders) /\ l # "entry" /\ trade.oid["entry"] = 1,
         trade.oid["limit"] = None \/ trade.oid["stop"] = None,
         Clearing(trade, orders, op["mutex"], Opening)
  PROVE  Clearing(trade', orders', op'["mutex"], Opening)
<1> DEFINE o == op["mutex"]
           rest == SubSeq(o.todo, NextPlace("mutex") + 1, Len(o.todo))
           no == FALSE
<1>1. op \in [Thread -> Op] /\ "mutex" \in Thread
  BY VariablesType
<1>2. no \in BOOLEAN /\ ~no /\ Advance("mutex", no)
  OBVIOUS
<1> HIDE DEF no
<1>3. /\ op'["mutex"].name = o.name /\ op'["mutex"].failed = (o.failed \/ no)
      /\ op'["mutex"].todo = rest
  BY <1>2, AdvancesTo
<1>4. op'["mutex"].failed <=> o.failed
  BY <1>2, <1>3
<1> SUFFICES ASSUME o.name \in {"finalize", "terminate"}, ~o.failed
             PROVE  /\ ToFree(trade', rest)
                    /\ EntryLive(orders') => ~Opening /\ \E i \in 1 .. Len(rest) : rest[i] = "entry"
  BY <1>3, <1>4 DEF Clearing
<1>5. ToFree(trade, o.todo) /\ (EntryLive(orders) => ~Opening /\ \E i \in 1 .. Len(o.todo) : o.todo[i] = "entry")
  BY DEF Clearing
<1>6. trade'.oid[l] = None /\ \A k \in Legs : k # l => trade'.oid[k] = trade.oid[k]
  BY DEF Freed, OthersSame
<1>7. \A k \in ExitLegs : trade'.oid[k] = None \/ (trade'.oid[k] = trade.oid[k] /\ k # l)
  BY <1>6 DEF ExitLegs, Legs
<1>8. ToFree(trade', rest)
  BY <1>1, <1>5, <1>7, AdvanceFrees
<1>9. ASSUME EntryLive(orders') PROVE ~Opening /\ \E i \in 1 .. Len(rest) : rest[i] = "entry"
  <2>1. HasOrder(trade, "entry") /\ "entry" \in Legs /\ l # "entry"
    BY <1>9 DEF HasOrder, None, Legs
  <2>2. ~Opening /\ \E i \in 1 .. Len(o.todo) : o.todo[i] = "entry"
    BY <1>5, <1>9
  <2> QED
    BY <1>1, <2>1, <2>2, AdvanceKeeps
<1> QED
  BY <1>8, <1>9

\* cancel_order succeeds
LEMMA CancelAcceptedOrphan ==
  ASSUME Counting, TypeInv, BooksInv, OpInv, SumsInv, OrphanInv, BooksInv', SumsInv',
         NEW th \in Thread, CancelAccepted(th)
  PROVE  OrphanInv'
<1>1. th = "mutex" /\ Pending("mutex") # {} /\ UNCHANGED <<account, listed>>
  BY OnMutex DEF CancelAccepted
<1>2. Advance("mutex", FALSE) /\ op["mutex"].name \notin Checks
  BY <1>1 DEF CancelAccepted
<1>3. PICK l \in Legs, n \in 1 .. Len(orders), p \in Order, d \in SignalData, v \in Trade :
        /\ l = op["mutex"].todo[NextPlace("mutex")]
        /\ Cancels(op["mutex"].name, l, n, p, d, v)
  <2>1. PICK l \in Legs, n \in 1 .. Len(orders), p \in Order, d \in SignalData, v \in Trade :
           /\ l = op[th].todo[NextPlace(th)] /\ n = trade.oid[l] /\ HasOrder(trade, l)
           /\ orders' = [orders EXCEPT ![n] = p] /\ channel' = Append(channel, d)
           /\ GoesOn(orders[n], p)
           /\ p.filled = orders[n].filled /\ p.status = "canceled" /\ d.kind = "canceled"
           /\ v = CheckAndReset(trade, l, n, p) /\ Freed(trade, v, l)
           /\ trade' = AfterCancel(op[th].name, l, v)
    BY CancelAcceptedShape DEF Counting
  <2>2. Cancels(op["mutex"].name, l, n, p, d, v) /\ l = op["mutex"].todo[NextPlace("mutex")]
    BY <1>1, <2>1 DEF Cancels
  <2> QED
    BY <2>2
<1> DEFINE name == op["mutex"].name
           no == FALSE
<1>4. no \in BOOLEAN /\ ~no /\ Advance("mutex", no)
  BY <1>2
<1> HIDE DEF no
<1>5. op'["mutex"].name = name /\ op'["mutex"].dirty = op["mutex"].dirty /\ op'["command"] = op["command"]
  BY <1>1, <1>4, AdvancesTo
<1>6. Opening' = Opening
  BY <1>5 DEF Opening
<1>7. /\ orders' # <<>> /\ RejectedEmpty(channel', account.bought)
  <2>1. orders' # <<>>
    BY <1>3, OrderStep DEF Cancels
  <2>2. channel' = Append(channel, d) /\ d.kind = "canceled"
    BY <1>3 DEF Cancels
  <2>3. RejectedEmpty(channel, account.bought)
    BY DEF OrphanInv
  <2>4. channel \in Seq(SignalData)
    BY VariablesType
  <2> QED
    BY <2>1, <2>2, <2>3, <2>4, RejectedAppend
<1>8. ASSUME listed PROVE States(trade', orders', channel', account') /\ Doing(trade', orders', op'["mutex"], Opening)
  <2>1. Doing(trade, orders, op["mutex"], Opening)
    BY <1>8 DEF OrphanInv
  <2>2. Freed(trade, trade', l)
    <3>1. SameLegs(v, trade')
      BY <1>3, AfterCancelSame DEF Cancels
    <3> QED
      BY <1>3, <3>1, FreedThenSame DEF Cancels
  <2>3. trade.oid["limit"] = None \/ trade.oid["stop"] = None
    BY DEF BooksInv, Books, Exits
  <2> HIDE DEF name
  <2>4. CASE l = "entry"
    <3>1. ~EntryLive(orders') /\ ~BothFilled(trade') /\ States(trade', orders', channel', account')
      BY <1>3, <1>8, <2>4, CanceledEntry
    <3>2. Clearing(trade', orders', op'["mutex"], Opening)
      BY <1>1, <1>2, <1>3, <2>1, <2>2, <2>3, <3>1, ClearingAfter DEF Doing
    <3> QED
      BY <3>1, <3>2 DEF Doing, FilledQuiet, FilledExits
  <2>5. CASE l # "entry"
    <3>1. l \in ExitLegs
      BY <2>5 DEF Legs, ExitLegs
    <3>2. /\ NoLiveSell(orders') /\ (EntryLive(orders') => EntryLive(orders))
          /\ EntryLive(orders) => trade.oid["entry"] = 1
          /\ BothFilled(trade') =>
               (BothFilled(trade) /\ op["mutex"].name \notin Removals) \/ trade'.x >= trade'.e
          /\ n \in 2 .. Len(orders) /\ orders[n].status = "live"
          /\ States(trade', orders', channel', account')
      BY <1>3, <1>8, <3>1, CanceledExit
    <3>3. Clearing(trade', orders', op'["mutex"], Opening)
      BY <1>1, <1>2, <1>3, <2>1, <2>2, <2>3, <2>5, <3>2, ClearingAfter DEF Doing
    <3>4. FilledQuiet(trade', orders', op'["mutex"])
      BY <3>2 DEF FilledQuiet
    <3>5. FilledExits(trade', op'["mutex"])
      <4> SUFFICES ASSUME name \in Selling, BothFilled(trade') PROVE trade'.x >= trade'.e
        BY <1>5 DEF FilledExits
      <4>1. name # "finalize" /\ ~NoLiveSell(orders)
        BY <3>2 DEF Selling, NoLiveSell
      <4>2. ~BothFilled(trade)
        BY <2>1, <4>1 DEF Doing, FilledQuiet, name
      <4> QED
        BY <3>2, <4>2
    <3> QED
      BY <3>2, <3>3, <3>4, <3>5 DEF Doing
  <2> QED
    BY <2>4, <2>5
<1>9. listed' => States(trade', orders', channel', account') /\ Doing(trade', orders', op'["mutex"], Opening')
  BY <1>1, <1>6, <1>8 DEF Doing, Clearing
<1> QED
  BY <1>1, <1>5, <1>7, <1>9 DEF OrphanInv

---------------------------------------------------------------------------
\* The report taken from the queue, and the leg it is about
OpensEntry(d) == d.kind = "opened" /\ d.id = 1

LEMMA Delivered ==
  ASSUME TypeInv, BooksInv, channel # <<>>
  PROVE  /\ Head(channel) \in SignalData /\ Head(channel) = channel[1]
         /\ 1 \in 1 .. Len(channel) /\ orders # <<>>
         /\ \E m \in 1 .. Len(orders) :
              /\ m \in Nat /\ ReportOf(Head(channel), orders[m], m)
              /\ \A l \in SignalLegs(trade, Head(channel)) :
                   /\ l \in Legs /\ (l = "entry" => m = 1) /\ (l # "entry" => m # 1)
                   /\ l # "entry" => l \in ExitLegs /\ trade.oid[l] = m /\ m \in 2 .. Len(orders)
                   /\ \A k \in SignalLegs(trade, Head(channel)) : k = l
<1>1. trade \in Trade /\ orders \in Seq(Order) /\ channel \in Seq(SignalData)
  BY VariablesType
<1>2. Books(trade, orders, channel, listed, Opening)
  BY DEF BooksInv
<1>3. PICK m \in 1 .. Len(orders) : m \in Nat \ {0} /\ ReportOf(Head(channel), orders[m], m)
  BY <1>1, <1>2, HeadReport
<1>4. Head(channel) \in SignalData /\ Head(channel) = channel[1] /\ 1 \in 1 .. Len(channel)
  BY <1>1, TailElements
<1>5. orders # <<>>
  BY <1>1, <1>2, HeadReport
<1>6. /\ \A l \in SignalLegs(trade, Head(channel)) :
           \/ l = "entry" /\ m = 1
           \/ l \in ExitLegs /\ trade.oid[l] = m /\ m \in 2 .. Len(orders)
      /\ \A l, k \in SignalLegs(trade, Head(channel)) : l = k
  BY <1>1, <1>2, <1>3, <1>4, SignalLeg
<1>7. ASSUME NEW l \in SignalLegs(trade, Head(channel))
      PROVE  /\ l \in Legs /\ (l = "entry" => m = 1) /\ (l # "entry" => m # 1)
             /\ l # "entry" => l \in ExitLegs /\ trade.oid[l] = m /\ m \in 2 .. Len(orders)
  <2>1. "entry" \in Legs /\ "entry" \notin ExitLegs /\ ExitLegs \subseteq Legs
    BY <1>1, FieldsType
  <2>2. m \in 2 .. Len(orders) => m # 1
    OBVIOUS
  <2> QED
    BY <1>6, <2>1, <2>2
<1> QED
  BY <1>3, <1>4, <1>5, <1>6, <1>7

\* The opening of the entry is still to come when another report is taken
LEMMA OpeningTail ==
  ASSUME NEW c \in Seq(SignalData), c # <<>>, OpeningComes(c), ~OpensEntry(Head(c))
  PROVE  OpeningComes(Tail(c)) /\ ~Executes(Head(c), 1)
<1>1. PICK i \in 1 .. Len(c) : /\ c[i].kind = "opened" /\ c[i].id = 1
                               /\ \A j \in 1 .. i - 1 : ~Executes(c[j], 1)
  BY DEF OpeningComes
<1>2. /\ Len(c) \in Nat \ {0} /\ Len(Tail(c)) = Len(c) - 1 /\ Head(c) = c[1]
      /\ \A j \in 1 .. Len(c) - 1 : j + 1 \in 1 .. Len(c) /\ Tail(c)[j] = c[j + 1]
      /\ \A j \in 1 .. Len(c) : j = 1 \/ (j - 1 \in 1 .. Len(c) - 1 /\ Tail(c)[j - 1] = c[j])
  BY TailElements
<1>3. i # 1
  BY <1>1, <1>2 DEF OpensEntry
<1>4. i - 1 \in 1 .. Len(Tail(c)) /\ Tail(c)[i - 1] = c[i]
  BY <1>2, <1>3
<1>5. ASSUME NEW j \in 1 .. (i - 1) - 1 PROVE ~Executes(Tail(c)[j], 1)
  <2>1. j \in 1 .. Len(c) - 1 /\ j + 1 \in 1 .. i - 1
    BY <1>2
  <2> QED
    BY <1>1, <1>2, <2>1
<1>6. 1 \in 1 .. i - 1
  BY <1>2, <1>3
<1>7. OpeningComes(Tail(c))
  BY <1>1, <1>4, <1>5 DEF OpeningComes
<1> QED
  BY <1>1, <1>2, <1>6, <1>7

\* A report is taken that counts nothing of the entry
LEMMA TakenStates ==
  ASSUME TypeInv, channel # <<>>, States(trade, orders, channel, account), NEW u,
         u.e = trade.e,
         EntryLive(orders) /\ u.oid["entry"] # 1 =>
           trade.oid["entry"] # 1 /\ ~OpensEntry(Head(channel)),
         EntryEnds(u, orders, account.bought), ExitAfterEntry(u, orders)
  PROVE  States(u, orders, Tail(channel), account)
<1>1. channel \in Seq(SignalData)
  BY VariablesType
<1>2. EntryComes(u, orders, Tail(channel))
  BY <1>1, OpeningTail DEF States, EntryComes
<1>3. \A i \in 1 .. Len(Tail(channel)) : \E j \in 1 .. Len(channel) : Tail(channel)[i] = channel[j]
  BY <1>1, ExecutesTail
<1>4. EntryCovers(u, orders, Tail(channel), account.sold)
  <2>1. EntryCovers(trade, orders, channel, account.sold)
    BY DEF States
  <2> QED
    BY <1>3, <2>1 DEF EntryCovers
<1> QED
  BY <1>2, <1>4 DEF States

\* The trade ignores the report
LEMMA IgnoredStates ==
  ASSUME TypeInv, BooksInv, channel # <<>>, States(trade, orders, channel, account),
         SignalLegs(trade, Head(channel)) = {} \/ ~IsTargetOrder(trade, Head(channel))
  PROVE  States(trade, orders, Tail(channel), account)
<1> DEFINE d == Head(channel)
<1>1. ASSUME EntryLive(orders), OpensEntry(d) PROVE FALSE
  <2>1. PICK m \in 1 .. Len(orders) : m \in Nat /\ ReportOf(d, orders[m], m)
    BY Delivered
  <2>2. d.ref = Ref(1)
    BY <1>1, <2>1 DEF OpensEntry, ReportOf
  <2>3. trade.ref["entry"] = Ref(1)
    BY <1>1 DEF EntryLive, BooksInv, Books, EntryLeg
  <2>4. d.ref # None /\ "entry" \in Legs
    BY <2>2 DEF Ref, None, Legs
  <2>5. ByRef(trade, "entry", d.ref)
    BY <2>2, <2>3, <2>4 DEF ByRef
  <2>6. "entry" \in SignalLegs(trade, d) /\ IsTargetOrder(trade, d)
    BY <1>1, <2>4, <2>5 DEF OpensEntry, SignalLegs, IsTargetOrder
  <2> QED
    BY <2>6
<1> HIDE DEF d
<1>2. EntryLive(orders) => ~OpensEntry(Head(channel))
  BY <1>1 DEF d
<1>3. EntryEnds(trade, orders, account.bought) /\ ExitAfterEntry(trade, orders)
  BY DEF States
<1> QED
  BY <1>2, <1>3, TakenStates

\* The opening of an order
LEMMA OpenedStates ==
  ASSUME TypeInv, BooksInv, channel # <<>>, States(trade, orders, channel, account),
         Head(channel).kind = "opened", NEW l \in SignalLegs(trade, Head(channel))
  PROVE  States(Opened(trade, l, Head(channel)), orders, Tail(channel), account)
<1> DEFINE d == Head(channel)
           u == Opened(trade, l, d)
<1>1. PICK m \in 1 .. Len(orders) :
        /\ m \in Nat /\ ReportOf(d, orders[m], m)
        /\ l \in Legs /\ (l = "entry" => m = 1) /\ (l # "entry" => m # 1)
  BY Delivered
<1>2. d.id = m
  BY <1>1 DEF ReportOf
<1>3. trade \in Trade
  BY VariablesType
<1>4. EntryEnds(trade, orders, account.bought) /\ ExitAfterEntry(trade, orders)
  BY DEF States
<1>5. CASE l = "entry"
  <2>1. /\ u.e = trade.e /\ u.entryState = "opened" /\ u.exitState = trade.exitState
        /\ u.oid["entry"] = 1
    BY <1>1, <1>2, <1>3, <1>5 DEF Opened, Trade
  <2> HIDE DEF u
  <2>2. EntryEnds(u, orders, account.bought) /\ ExitAfterEntry(u, orders)
    BY <1>4, <2>1 DEF EntryEnds, ExitAfterEntry
  <2>3. States(u, orders, Tail(channel), account)
    BY <2>1, <2>2, TakenStates
  <2> QED
    BY <2>3 DEF u
<1>6. CASE l # "entry"
  <2>1. /\ u.e = trade.e /\ u.entryState = trade.entryState /\ u.exitState = "opened"
        /\ u.oid["entry"] = trade.oid["entry"]
    BY <1>1, <1>3, <1>6 DEF Opened, Trade, Legs
  <2>2. ~OpensEntry(d)
    BY <1>1, <1>2, <1>6 DEF OpensEntry
  <2> HIDE DEF u
  <2>3. EntryEnds(u, orders, account.bought) /\ ExitAfterEntry(u, orders)
    BY <1>4, <2>1 DEF EntryEnds, ExitAfterEntry
  <2>4. States(u, orders, Tail(channel), account)
    BY <2>1, <2>2, <2>3, TakenStates
  <2> QED
    BY <2>4 DEF u
<1> QED
  BY <1>5, <1>6

\* An execution of an exit order
LEMMA ExitTradedStates ==
  ASSUME TypeInv, BooksInv, SumsInv, channel # <<>>, States(trade, orders, channel, account),
         NEW l \in ExitLegs, Executes(Head(channel), trade.oid[l])
  PROVE  States(ExitTraded(trade, l, Head(channel)), orders, Tail(channel), account)
<1> DEFINE d == Head(channel)
           u == ExitTraded(trade, l, d)
<1>1. /\ trade \in Trade /\ orders \in Seq(Order) /\ channel \in Seq(SignalData) /\ d \in SignalData
  BY VariablesType, TailElements
<1>2. Books(trade, orders, channel, listed, Opening)
  BY DEF BooksInv
<1>3. trade.oid[l] # None /\ trade.exec[l] < d.cum
  BY <1>1, <1>2, HeadReport
<1>4. trade.oid[l] \in 2 .. Len(orders)
  BY <1>3 DEF BooksInv, Books, Exits, LegOf
<1>5. l \in Legs /\ l # "entry" /\ "entry" \in Legs
  BY <1>1, FieldsType
<1>6. PICK w \in Trade :
        /\ Counted(trade, w, l, d.cum)
        /\ w.entryState = trade.entryState /\ w.exitState = ExitStateAfter(trade, w.x, d)
        /\ u = IF d.cum >= trade.qty[l] \/ d.full THEN ResetLeg(w, l) ELSE w
  BY <1>1, <1>3, ExitTradedShape
<1> HIDE DEF u
<1>7. /\ u.e = trade.e /\ u.entryState = trade.entryState
      /\ u.oid["entry"] = trade.oid["entry"] /\ u.exitState = ExitStateAfter(trade, w.x, d)
  <2>1. w.e = trade.e /\ w.oid = trade.oid
    BY <1>6 DEF Counted
  <2>2. CASE d.cum >= trade.qty[l] \/ d.full
    <3> DEFINE r == ResetLeg(w, l)
    <3>1. /\ Freed(w, r, l) /\ r.e = w.e /\ r.entryState = w.entryState
          /\ r.exitState = w.exitState
      BY <1>5, ResetFrees
    <3> HIDE DEF r
    <3>2. u = r
      BY <1>6, <2>2 DEF r
    <3>3. r.oid["entry"] = w.oid["entry"]
      BY <1>5, <3>1 DEF Freed, OthersSame
    <3> QED
      BY <1>6, <2>1, <3>1, <3>2, <3>3
  <2>3. CASE ~(d.cum >= trade.qty[l] \/ d.full)
    BY <1>6, <2>1, <2>3
  <2> QED
    BY <2>2, <2>3
<1>8. EntryEnds(u, orders, account.bought)
  BY <1>7 DEF States, EntryEnds
<1>9. ExitAfterEntry(u, orders)
  <2> SUFFICES ASSUME u.exitState = "filled", EntryLive(orders) PROVE FALSE
    BY DEF ExitAfterEntry
  <2>1. HasOrder(trade, "entry") /\ trade.entryState # "filled" /\ trade.e < trade.oq
    BY <1>4, EntryGoesOn
  <2> QED
    BY <1>7, <2>1 DEF ExitStateAfter
<1>10. EntryLive(orders) /\ u.oid["entry"] # 1 =>
         trade.oid["entry"] # 1 /\ ~OpensEntry(Head(channel))
  BY <1>7 DEF OpensEntry, Executes
<1>11. States(u, orders, Tail(channel), account)
  BY <1>7, <1>8, <1>9, <1>10, TakenStates
<1> QED
  BY <1>11 DEF u

\* What the trade counted of its entry when it is told of its end
LEMMA EntryTold ==
  ASSUME TypeInv, BooksInv, SumsInv, channel # <<>>, Head(channel).kind \in Ends,
         About(Head(channel)) = 1
  PROVE  listed => trade.e = account.bought
<1>1. channel \in Seq(SignalData) /\ Reports(channel, orders)
  BY VariablesType DEF BooksInv, Books
<1>2. \A i \in 1 .. Len(channel) : ~Executes(channel[i], 1)
  BY <1>1, NoneAfterEnd
<1>3. ~LastComing(channel, orders, 1)
  BY <1>2 DEF LastComing
<1> QED
  BY <1>3 DEF SumsInv, Bought

\* The end of an order
LEMMA EndToldStates ==
  ASSUME TypeInv, BooksInv, channel # <<>>, States(trade, orders, channel, account),
         RejectedEmpty(channel, account.bought),
         Head(channel).kind \in Ends, NEW l \in SignalLegs(trade, Head(channel)),
         About(Head(channel)) = 1 => trade.e = account.bought,
         NEW u, u = IF Head(channel).kind = "rejected" THEN Rejected(trade, l) ELSE Removed(trade, l)
  PROVE  States(u, orders, Tail(channel), account)
<1> DEFINE d == Head(channel)
           r == ResetLeg(trade, l)
<1>1. PICK m \in 1 .. Len(orders) :
        /\ m \in Nat /\ ReportOf(d, orders[m], m)
        /\ l \in Legs /\ (l = "entry" => m = 1) /\ (l # "entry" => m # 1)
  BY Delivered
<1>2. d \in SignalData /\ d = channel[1] /\ 1 \in 1 .. Len(channel) /\ orders # <<>>
  BY Delivered
<1>3. trade \in Trade
  BY VariablesType
<1>4. /\ r \in Trade /\ Freed(trade, r, l) /\ r.e = trade.e
      /\ r.entryState = trade.entryState /\ r.exitState = trade.exitState
  BY <1>1, <1>3, ResetFrees
<1>5. EntryEnds(trade, orders, account.bought) /\ ExitAfterEntry(trade, orders)
  BY DEF States
<1>6. ~OpensEntry(d)
  BY DEF OpensEntry, Ends
<1>7. orders[m].status # "live" /\ About(d) = m
  BY <1>1, <1>2, ReportAbout
<1>8. d.kind = "rejected" => d.id = Ref(m)
  BY <1>1 DEF ReportOf
<1>9. CASE l = "entry"
  <2>1. m = 1 /\ ~EntryLive(orders) /\ trade.e = account.bought
    BY <1>1, <1>7, <1>9 DEF EntryLive
  <2>2. d.kind = "rejected" => account.bought = 0
    BY <1>2, <1>8, <2>1 DEF RejectedEmpty
  <2> HIDE DEF r, d
  <2>3. /\ u.e = trade.e /\ u.exitState = trade.exitState
        /\ u.entryState \in {trade.entryState, "filled", "rejected"}
        /\ u.entryState = "rejected" => d.kind = "rejected" \/ trade.entryState = "rejected"
    <3>1. "filled" \in EntryState /\ "rejected" \in EntryState
      BY StateNames
    <3> DEFINE f == [r EXCEPT !.entryState = "filled"]
               g == [r EXCEPT !.entryState = "rejected"]
    <3>2. u = r \/ u = f \/ (u = g /\ d.kind = "rejected")
      BY DEF Rejected, Removed, r, d
    <3>3. f.e = r.e /\ f.exitState = r.exitState /\ f.entryState = "filled"
      BY <1>4, <3>1, StateSame
    <3>4. g.e = r.e /\ g.exitState = r.exitState /\ g.entryState = "rejected"
      BY <1>4, <3>1, StateSame
    <3> HIDE DEF f, g
    <3>5. CASE u = r
      BY <1>4, <3>5
    <3>6. CASE u = f
      BY <1>4, <3>3, <3>6
    <3>7. CASE u = g /\ d.kind = "rejected"
      BY <1>4, <3>4, <3>7
    <3> QED
      BY <3>2, <3>5, <3>6, <3>7
  <2>4. EntryEnds(u, orders, account.bought)
    BY <1>5, <2>1, <2>2, <2>3 DEF EntryEnds
  <2>5. ExitAfterEntry(u, orders)
    BY <2>1 DEF ExitAfterEntry
  <2> QED
    BY <2>1, <2>3, <2>4, <2>5, TakenStates
<1>10. CASE l # "entry"
  <2>1. u.e = r.e /\ u.exitState = r.exitState /\ u.oid = r.oid
        /\ u.entryState = r.entryState
    BY <1>10 DEF Rejected, Removed
  <2>2. r.oid["entry"] = trade.oid["entry"]
    BY <1>4, <1>10 DEF Freed, OthersSame, Legs
  <2> HIDE DEF r, d
  <2>3. EntryEnds(u, orders, account.bought) /\ ExitAfterEntry(u, orders)
    BY <1>4, <1>5, <2>1 DEF EntryEnds, ExitAfterEntry
  <2> QED
    BY <1>4, <1>6, <2>1, <2>2, <2>3, TakenStates DEF d
<1> QED
  BY <1>9, <1>10

\* An execution of the entry
LEMMA EntryTradedStates ==
  ASSUME Counting, TypeInv, BooksInv, SumsInv, channel # <<>>,
         States(trade, orders, channel, account),
         Executes(Head(channel), 1), "entry" \in SignalLegs(trade, Head(channel))
  PROVE  States(EntryTraded(trade, Head(channel)), orders, Tail(channel), account)
<1> DEFINE d == Head(channel)
           u == EntryTraded(trade, d)
<1>1. /\ trade \in Trade /\ orders \in Seq(Order) /\ channel \in Seq(SignalData)
      /\ d \in SignalData /\ d.kind = "traded" /\ d.id = 1 /\ d = channel[1]
      /\ 1 \in 1 .. Len(channel) /\ Len(channel) \in Nat
  BY VariablesType, TailElements DEF Executes
<1>2. /\ 1 \in 1 .. Len(orders) /\ ReportOf(d, orders[1], 1) /\ orders # <<>>
  <2>1. PICK m \in 1 .. Len(orders) : m \in Nat /\ ReportOf(d, orders[m], m) /\ orders # <<>>
    BY Delivered
  <2>2. m = 1
    BY <1>1, <2>1 DEF ReportOf
  <2> QED
    BY <2>1, <2>2
<1>3. d.fee = 0 /\ d.cum \in Nat
  BY <1>1 DEF SumsInv, Bought, SignalData
<1>4. PICK w \in Trade :
           /\ SameLegs(trade, w) /\ w.e = d.cum - d.fee /\ w.x = trade.x
           /\ w.entryState = trade.entryState /\ w.exitState = trade.exitState
           /\ IF w.e >= trade.oq \/ d.full
              THEN u = [ResetLeg(w, "entry") EXCEPT !.entryState = "filled"]
              ELSE u = [w EXCEPT !.entryState = "partially_filled"]
  BY <1>1, EntryTradedShape
<1>5. w.e = d.cum
  BY <1>3, <1>4
<1>6. /\ "entry" \in Legs /\ "filled" \in EntryState /\ "partially_filled" \in EntryState
  BY <1>1, FieldsType, StateNames
<1>7. EntryCovers(trade, orders, channel, account.sold) /\ ExitAfterEntry(trade, orders)
      /\ EntryComes(trade, orders, channel)
  BY DEF States
<1> HIDE DEF u
<1>8. CASE w.e >= trade.oq \/ d.full
  <2> DEFINE r == ResetLeg(w, "entry")
  <2>1. r \in Trade /\ r.e = w.e
    BY <1>6, ResetFrees
  <2>2. u = [r EXCEPT !.entryState = "filled"]
    BY <1>4, <1>8
  <2> HIDE DEF r
  <2>3. u.e = r.e /\ u.entryState = "filled"
    BY <1>6, <2>1, <2>2, StateSame
  <2>4. Ledger(orders, trade.oq) /\ orders[1].qty = trade.oq
    BY <1>2 DEF BooksInv, Books, Ledger
  <2>5. d.full \/ d.cum >= orders[1].qty
    BY <1>5, <1>8, <2>4
  <2>6. orders[1].status # "live" /\ d.cum = orders[1].filled
    <3> HIDE DEF d
    <3> QED
      BY <1>1, <1>2, <2>4, <2>5, FullIsOver
  <2>7. ~EntryLive(orders)
    BY <2>6 DEF EntryLive
  <2>8. u.e = account.bought
    BY <1>2, <1>5, <2>1, <2>3, <2>6 DEF SumsInv, Bought
  <2>9. EntryEnds(u, orders, account.bought)
    BY <2>3, <2>7, <2>8 DEF EntryEnds
  <2>10. States(u, orders, Tail(channel), account)
    BY <2>7, <2>9 DEF States, EntryComes, ExitAfterEntry, EntryCovers
  <2> QED
    BY <2>10 DEF u
<1>9. CASE ~(w.e >= trade.oq \/ d.full)
  <2>1. u = [w EXCEPT !.entryState = "partially_filled"]
    BY <1>4, <1>9
  <2>2. SameLegs(w, u) /\ u.e = w.e /\ u.entryState = "partially_filled" /\ u.exitState = w.exitState
    BY <1>6, <2>1, StateSame
  <2>3. u.e = d.cum /\ u.oid = trade.oid /\ u.exitState = trade.exitState
    BY <1>4, <1>5, <2>2 DEF SameLegs
  <2>4. EntryEnds(u, orders, account.bought) /\ ExitAfterEntry(u, orders)
    BY <1>7, <2>2, <2>3 DEF EntryEnds, ExitAfterEntry
  <2>5. EntryComes(u, orders, Tail(channel))
    <3> SUFFICES ASSUME EntryLive(orders), u.oid["entry"] # 1 PROVE FALSE
      BY DEF EntryComes
    <3>1. OpeningComes(channel)
      BY <1>7, <2>3 DEF EntryComes
    <3>2. ~OpensEntry(Head(channel))
      BY DEF OpensEntry, Executes
    <3> QED
      BY <1>1, <1>2, <3>1, <3>2, OpeningTail, EmptySeq
  <2>6. EntryCovers(u, orders, Tail(channel), account.sold)
    <3> SUFFICES ASSUME EntryLive(orders)
                 PROVE  /\ \A i \in 1 .. Len(Tail(channel)) :
                             Executes(Tail(channel)[i], 1) => u.e <= Tail(channel)[i].cum
                        /\ \A n \in 2 .. Len(orders) : orders[n].status = "live" =>
                             account.sold + (orders[n].qty - orders[n].filled) <= u.e
      BY DEF EntryCovers
    <3>1. trade.e <= d.cum
      BY <1>1, <1>7 DEF EntryCovers
    <3>2. ASSUME NEW i \in 1 .. Len(Tail(channel)), Executes(Tail(channel)[i], 1)
          PROVE  u.e <= Tail(channel)[i].cum
      <4>1. PICK j \in 1 .. Len(channel) : j # 1 /\ Tail(channel)[i] = channel[j]
        BY <1>1, <3>2, ExecutesTail
      <4>2. 1 < j
        BY <1>1, <4>1
      <4>3. Follows(channel[1], channel[j])
        BY <1>1, <4>2 DEF BooksInv, Books, Reports
      <4>4. channel[j].kind = "traded" /\ channel[j].id = 1 /\ About(channel[1]) = 1
        BY <1>1, <3>2, <4>1 DEF Executes, About
      <4>5. channel[1].cum < channel[j].cum
        BY <1>1, <4>3, <4>4 DEF Follows
      <4>6. channel[j] \in SignalData
        BY <1>1, ElementOfSeq
      <4>7. channel[j].cum \in Nat
        BY <4>6 DEF SignalData
      <4>8. u.e = channel[1].cum
        BY <1>1, <2>3
      <4> QED
        BY <1>1, <1>3, <4>1, <4>5, <4>7, <4>8
    <3>3. ASSUME NEW n \in 2 .. Len(orders), orders[n].status = "live"
          PROVE  account.sold + (orders[n].qty - orders[n].filled) <= u.e
      <4>1. account.sold + (orders[n].qty - orders[n].filled) <= trade.e
        BY <1>7, <3>3 DEF EntryCovers
      <4>2. /\ account.sold \in Nat /\ orders[n].qty \in Int /\ orders[n].filled \in Nat
            /\ trade.e \in Int
        BY SumsType
      <4> QED
        BY <1>3, <2>3, <3>1, <4>1, <4>2
    <3> QED
      BY <3>2, <3>3
  <2>7. States(u, orders, Tail(channel), account)
    BY <2>4, <2>5, <2>6 DEF States
  <2> QED
    BY <2>7 DEF u
<1> QED
  BY <1>8, <1>9

\* The trade takes the report
LEMMA SignalStates ==
  ASSUME Counting, TypeInv, BooksInv, SumsInv, channel # <<>>,
         States(trade, orders, channel, account), RejectedEmpty(channel, account.bought),
         About(Head(channel)) = 1 /\ Head(channel).kind \in Ends => trade.e = account.bought
  PROVE  States(OrderSignal(trade, Head(channel)), orders, Tail(channel), account)
<1> DEFINE d == Head(channel)
<1>1. CASE SignalLegs(trade, d) = {}
  <2>1. OrderSignal(trade, d) = trade
    BY <1>1 DEF OrderSignal
  <2> QED
    BY <1>1, <2>1, IgnoredStates
<1>2. ASSUME NEW l \in SignalLegs(trade, d)
      PROVE  States(OrderSignal(trade, d), orders, Tail(channel), account)
  <2>1. PICK m \in 1 .. Len(orders) :
          /\ m \in Nat /\ ReportOf(d, orders[m], m) /\ (l = "entry" => m = 1)
          /\ l # "entry" => l \in ExitLegs /\ trade.oid[l] = m
          /\ \A k \in SignalLegs(trade, d) : k = l
    BY <1>2, Delivered
  <2>2. OrderSignal(trade, d) =
             CASE d.kind = "opened"   -> Opened(trade, l, d)
               [] d.kind = "traded"   -> IF l = "entry" THEN EntryTraded(trade, d) ELSE ExitTraded(trade, l, d)
               [] d.kind = "rejected" -> Rejected(trade, l)
               [] OTHER               -> Removed(trade, l)
    <3> HIDE DEF d
    <3> QED
      BY <1>2, <2>1, SignalBranch
  <2>3. d.kind = "traded" => Executes(d, m)
    BY <2>1 DEF ReportOf, Executes
  <2>4. CASE d.kind = "opened"
    BY <1>2, <2>2, <2>4, OpenedStates
  <2>5. CASE d.kind = "traded" /\ l = "entry"
    <3>1. OrderSignal(trade, d) = EntryTraded(trade, d) /\ Executes(d, 1)
      BY <2>1, <2>2, <2>3, <2>5
    <3> QED
      BY <1>2, <2>5, <3>1, EntryTradedStates
  <2>6. CASE d.kind = "traded" /\ l # "entry"
    <3>1. OrderSignal(trade, d) = ExitTraded(trade, l, d) /\ Executes(d, trade.oid[l]) /\ l \in ExitLegs
      BY <2>1, <2>2, <2>3, <2>6
    <3> QED
      BY <3>1, ExitTradedStates
  <2>7. CASE d.kind \notin {"opened", "traded"}
    <3>1. d.kind \in Ends
      BY <2>1, <2>7 DEF ReportOf, Ends
    <3>2. OrderSignal(trade, d) = IF d.kind = "rejected" THEN Rejected(trade, l) ELSE Removed(trade, l)
      BY <2>2, <2>7
    <3> QED
      BY <1>2, <3>1, <3>2, EndToldStates
  <2> QED
    BY <2>4, <2>5, <2>6, <2>7
<1> QED
  BY <1>1, <1>2

\* The strategy thread delivers a report; a trade that can be deleted is finalized
LEMMA DeliverOrphan ==
  ASSUME Counting, TypeInv, BooksInv, SumsInv, OrphanInv, DeliverSignal
  PROVE  OrphanInv'
<1> DEFINE d == Head(channel)
           full == <<"entry", "stop", "limit">>
<1>1. /\ channel # <<>> /\ channel' = Tail(channel) /\ UNCHANGED <<listed, orders, account>>
      /\ op["mutex"].name = "idle" /\ channel \in Seq(SignalData)
  BY VariablesType DEF DeliverSignal, Free
<1>2. \/ ~(listed /\ IsTargetOrder(trade, d)) /\ trade' = trade /\ op' = op
      \/ listed /\ IsTargetOrder(trade, d) /\ trade' = OrderSignal(trade, d) /\ ~CanDelete(trade') /\ op' = op
      \/ /\ listed /\ IsTargetOrder(trade, d) /\ trade' = OrderSignal(trade, d) /\ CanDelete(trade')
         /\ Start("mutex", Operation("finalize", full))
  BY DEF DeliverSignal
<1>3. RejectedEmpty(Tail(channel), account.bought)
  <2>1. \A i \in 1 .. Len(Tail(channel)) : \E j \in 1 .. Len(channel) : Tail(channel)[i] = channel[j]
    BY <1>1, ExecutesTail
  <2>2. RejectedEmpty(channel, account.bought)
    BY DEF OrphanInv
  <2> QED
    BY <2>1, <2>2 DEF RejectedEmpty
<1>4. About(d) = 1 /\ d.kind \in Ends => (listed => trade.e = account.bought)
  BY <1>1, EntryTold
<1>5. ASSUME listed PROVE States(trade', orders, Tail(channel), account)
  <2>1. States(trade, orders, channel, account) /\ RejectedEmpty(channel, account.bought)
    BY <1>5 DEF OrphanInv
  <2>2. CASE IsTargetOrder(trade, d)
    <3>1. trade' = OrderSignal(trade, d)
      BY <1>2, <1>5, <2>2
    <3> QED
      BY <1>1, <1>4, <1>5, <2>1, <3>1, SignalStates
  <2>3. CASE ~IsTargetOrder(trade, d)
    <3>1. trade' = trade
      BY <1>2, <2>3
    <3> QED
      BY <1>1, <2>1, <2>3, <3>1, IgnoredStates
  <2> QED
    BY <2>2, <2>3
<1>6. op'["command"] = op["command"]
      /\ (op' = op \/ op'["mutex"] = Operation("finalize", full))
  BY <1>2, Started DEF Thread
<1>7. Opening' = Opening
  BY <1>6 DEF Opening
<1>8. ASSUME listed PROVE Doing(trade', orders, op'["mutex"], Opening)
  <2>1. CASE ~IsTargetOrder(trade, d)
    <3>1. trade' = trade /\ op' = op
      BY <1>2, <2>1
    <3>2. Doing(trade, orders, op["mutex"], Opening)
      BY <1>8 DEF OrphanInv
    <3> QED
      BY <3>1, <3>2
  <2>2. CASE IsTargetOrder(trade, d) /\ ~CanDelete(trade')
    <3>1. op'["mutex"].name = "idle" /\ ~BothFilled(trade')
      BY <1>1, <1>2, <1>8, <2>2 DEF CanDelete, BothFilled
    <3> QED
      BY <3>1 DEF Doing, FilledQuiet, FilledExits, Clearing
  <2>3. CASE IsTargetOrder(trade, d) /\ CanDelete(trade')
    <3>1. op'["mutex"] = Operation("finalize", full)
      BY <1>2, <1>8, <2>3, Started DEF Thread
    <3>2. op'["mutex"].name = "finalize" /\ op'["mutex"].todo = full
      BY <3>1 DEF Operation
    <3>3. ~EntryLive(orders)
      BY <1>5, <1>8, <2>3 DEF States, EntryEnds, CanDelete
    <3>4. ToFree(trade', full)
      <4>1. \A l \in ExitLegs : \E i \in 1 .. Len(full) : full[i] = l
        <5>1. Len(full) = 3 /\ full[2] = "stop" /\ full[3] = "limit"
          OBVIOUS
        <5> QED
          BY <5>1 DEF ExitLegs
      <4> QED
        BY <4>1 DEF ToFree
    <3> HIDE DEF full
    <3>5. Clearing(trade', orders, op'["mutex"], Opening)
      BY <3>2, <3>3, <3>4 DEF Clearing
    <3> QED
      BY <3>2, <3>5 DEF Doing, FilledQuiet, FilledExits, Selling
  <2> QED
    BY <2>1, <2>2, <2>3
<1>9. /\ op'["command"].name # "clean"
      /\ op'["mutex"].dirty => op'["mutex"].name \in {"take_profit", "stop_loss"}
      /\ listed' /\ orders' = <<>> => op'["command"].name = "open_failed"
  <2>1. op'["mutex"] = op["mutex"] \/ ~op'["mutex"].dirty
    BY <1>6 DEF Operation
  <2> QED
    BY <1>1, <1>6, <2>1 DEF OrphanInv
<1>10. listed' => States(trade', orders', channel', account') /\ Doing(trade', orders', op'["mutex"], Opening')
  BY <1>1, <1>5, <1>7, <1>8 DEF Doing, Clearing
<1> QED
  BY <1>1, <1>3, <1>9, <1>10 DEF OrphanInv

---------------------------------------------------------------------------
\* At the start there is neither a trade in the list nor an operation
LEMMA InitOrphan ==
  ASSUME Init
  PROVE  OrphanInv
<1>1. channel = <<>> /\ Len(channel) = 0 /\ ~listed /\ op = [th \in Thread |-> Idle]
  BY EmptySeq DEF Init
<1>2. op["mutex"].name = "idle" /\ op["command"].name = "idle" /\ ~op["mutex"].dirty
  BY <1>1 DEF Idle, Operation, Thread
<1>3. RejectedEmpty(channel, account.bought)
  BY <1>1 DEF RejectedEmpty
<1> QED
  BY <1>1, <1>2, <1>3 DEF OrphanInv

\* Every step but the clean command keeps what the states tell of the orders
LEMMA StepOrphan ==
  ASSUME Counting, "clean" \notin Operations, TypeInv, BooksInv, OpInv, SumsInv, OrphanInv,
         BooksInv', SumsInv', [Next]_vars
  PROVE  OrphanInv'
<1>0. Undisturbed
  BY DEF Counting
<1>1. CASE Exchange
  BY <1>1, ExchangeOrphan
<1>2. CASE Open \/ OpenReturn
  BY <1>0, <1>2, OpenOrphan, OpenReturnOrphan
<1>3. CASE OpenFailed \/ CleanupTrades
  BY <1>3, LeaveOrphan
<1>4. CASE DeliverSignal
  BY <1>4, DeliverOrphan
<1>5. CASE CancelOpen \/ Close \/ SoftClose \/ Terminate
  BY <1>5, StartOrphan
<1>6. CASE Modify("take_profit") \/ Modify("stop_loss")
  BY <1>6, ModifyOrphan
<1>7. CASE UpdateDirty \/ UpdateDirtyStop \/ UpdateDirtyDone
  BY <1>7, DirtyOrphan, DirtyDoneOrphan
<1>8. CASE WatcherConnected \/ Resize \/ Check \/ CheckTrades \/ Disconnect \/ Reconnect \/ Restart
  BY <1>0, <1>8, NeverBooks, VariablesType
<1>9. CASE Clean
  BY <1>9 DEF Clean
<1>10. ASSUME NEW th \in Thread, Step(th) PROVE OrphanInv'
  <2>1. CASE CancelAccepted(th)
    BY <2>1, CancelAcceptedOrphan
  <2>2. CASE CancelRefused(th)
    BY <1>0, <2>2, CancelRefusedOrphan
  <2>3. CASE CreateExit(th)
    BY <1>0, <2>3, CreateExitOrphan
  <2>4. CASE CheckLeg(th) \/ Reopen(th)
    BY <1>0, <2>4, NeverBooks
  <2>5. CASE NothingToExit(th) \/ SoftPrice(th) \/ Finish(th)
    BY <2>5, LastOrphan
  <2>6. CASE Unlist(th)
    BY <2>6, LeaveOrphan
  <2> QED
    BY <1>10, <2>1, <2>2, <2>3, <2>4, <2>5, <2>6 DEF Step
<1>11. CASE UNCHANGED vars
  <2>1. Opening' = Opening
    BY <1>11 DEF vars, Opening
  <2> QED
    BY <1>11, <2>1 DEF vars, OrphanInv, States, Doing
<1> QED
  BY <1>1, <1>2, <1>3, <1>4, <1>5, <1>6, <1>7, <1>8, <1>9, <1>10, <1>11 DEF Next

\* What the states tell of the orders is an invariant
LEMMA OrphanInvariant ==
  ASSUME Counting, "clean" \notin Operations
  PROVE  Spec => [](TypeInv /\ BooksInv /\ OpInv /\ SumsInv /\ OrphanInv)
<1> DEFINE Inv == TypeInv /\ BooksInv /\ OpInv /\ SumsInv /\ OrphanInv
<1>0. Undisturbed
  BY DEF Counting
<1>1. Init => Inv
  BY InitType, InitBooks, InitSums, InitOrphan
<1>2. Inv /\ [Next]_vars => Inv'
  <2> SUFFICES ASSUME Inv, [Next]_vars PROVE Inv'
    OBVIOUS
  <2>1. TypeInv'
    BY StepType
  <2>2. BooksInv' /\ OpInv'
    BY <1>0, <2>1, StepBooks
  <2>3. SumsInv'
    BY StepSums
  <2>4. OrphanInv'
    BY <2>2, <2>3, StepOrphan
  <2> QED
    BY <2>1, <2>2, <2>3, <2>4
<1>3. Spec => []Inv
  BY <1>1, <1>2, PTL DEF Spec
<1> QED
  BY <1>3

---------------------------------------------------------------------------
\* Without a live entry and without a live sell order no order is live
LEMMA NoneLive ==
  ASSUME TypeInv, ~EntryLive(orders), NoLiveSell(orders)
  PROVE  \A n \in DOMAIN orders : ~Live(n)
<1> SUFFICES ASSUME NEW n \in DOMAIN orders, Live(n) PROVE FALSE
  OBVIOUS
<1>1. orders[n].status = "live" /\ n \in 1 .. Len(orders) /\ Len(orders) \in Nat
  BY VariablesType DEF Live
<1>2. orders # <<>>
  BY <1>1, EmptySeq
<1>3. n = 1 \/ n \in 2 .. Len(orders)
  BY <1>1
<1> QED
  BY <1>1, <1>2, <1>3 DEF EntryLive, NoLiveSell

\* update_trades drops a trade that has no order left
LEMMA CleanupLeavesNone ==
  ASSUME TypeInv, BooksInv, SumsInv, OrphanInv, CleanupTrades
  PROVE  \A n \in DOMAIN orders : ~Live(n)
<1>1. listed /\ op["mutex"].name = "idle" /\ CanDelete(trade)
  BY DEF CleanupTrades, Free
<1>2. EntryEnds(trade, orders, account.bought) /\ FilledQuiet(trade, orders, op["mutex"])
  BY <1>1 DEF OrphanInv, States, Doing
<1>3. ~EntryLive(orders)
  BY <1>1, <1>2 DEF CanDelete, EntryEnds
<1>4. BothFilled(trade) \/ account.bought <= 0
  BY <1>1, <1>2, SumsType DEF CanDelete, EntryEnds, BothFilled
<1>5. NoLiveSell(orders)
  <2>1. CASE BothFilled(trade)
    BY <1>1, <1>2, <2>1 DEF FilledQuiet
  <2>2. CASE account.bought <= 0
    BY <2>2, NoSellLeft
  <2> QED
    BY <1>4, <2>1, <2>2
<1> QED
  BY <1>3, <1>5, NoneLive

\* finalize_trade and terminate remove a trade whose orders they canceled
LEMMA UnlistLeavesNone ==
  ASSUME TypeInv, BooksInv, OpInv, OrphanInv, listed, NEW th \in Thread, Unlist(th),
         ~op["mutex"].failed
  PROVE  \A n \in DOMAIN orders : ~Live(n)
<1>1. op[th].name \in {"finalize", "terminate", "clean"} /\ Pending(th) = {}
  BY DEF Unlist, Last, Removals
<1>2. th = "mutex" /\ op["mutex"].name # "clean"
  BY <1>1, OnMutex DEF OpInv, MutexNames
<1> DEFINE todo == op["mutex"].todo
<1>3. /\ ToFree(trade, todo)
      /\ EntryLive(orders) => ~Opening /\ \E i \in 1 .. Len(todo) : todo[i] = "entry"
  BY <1>1, <1>2 DEF OrphanInv, Doing, Clearing
<1>4. \A i \in 1 .. Len(todo) : trade.oid[todo[i]] = None
  <2>1. todo \in Seq(Legs)
    BY VariablesType DEF Op
  <2>2. DOMAIN todo = 1 .. Len(todo)
    BY <2>1, LenProperties
  <2> QED
    BY <1>1, <1>2, <2>2 DEF Pending, HasOrder
<1> HIDE DEF todo
<1>5. ~EntryLive(orders)
  <2> SUFFICES ASSUME EntryLive(orders) PROVE FALSE
    OBVIOUS
  <2>1. trade.oid["entry"] = 1
    BY <1>3 DEF EntryLive, BooksInv, Books, EntryLeg
  <2> QED
    BY <1>3, <1>4, <2>1 DEF None
<1>6. \A l \in ExitLegs : trade.oid[l] = None
  BY <1>3, <1>4 DEF ToFree
<1>7. NoLiveSell(orders)
  <2> SUFFICES ASSUME NEW n \in 2 .. Len(orders), orders[n].status = "live" PROVE FALSE
    BY DEF NoLiveSell
  <2>1. \E l \in ExitLegs : trade.oid[l] = n
    BY DEF BooksInv, Books, Exits
  <2> QED
    BY <1>6, <2>1 DEF None
<1> QED
  BY <1>5, <1>7, NoneLive

\* What takes the trade out of the list
LEMMA WhoUnlists ==
  ASSUME [Next]_vars, listed, ~listed'
  PROVE  OpenFailed \/ CleanupTrades \/ \E th \in Thread : Unlist(th)
<1>1. ~Exchange
  BY DEF Exchange, Fill, EndOrder
<1>2. ~Open /\ ~OpenReturn
  BY DEF Open, OpenReturn
<1>3. ~DeliverSignal /\ ~WatcherConnected
  BY DEF DeliverSignal, WatcherConnected
<1>4. /\ ~CancelOpen /\ ~Resize /\ ~Close /\ ~SoftClose /\ ~Modify("take_profit")
      /\ ~Modify("stop_loss") /\ ~Check /\ ~CheckTrades /\ ~Terminate /\ ~Clean
  BY DEF CancelOpen, Resize, Close, SoftClose, Modify, Check, CheckTrades, Terminate, Clean
<1>5. ~UpdateDirty /\ ~UpdateDirtyStop /\ ~UpdateDirtyDone
  BY DEF UpdateDirty, UpdateDirtyStop, UpdateDirtyDone
<1>6. ~Disconnect /\ ~Reconnect /\ ~Restart
  BY DEF Disconnect, Reconnect, Restart
<1>7. ASSUME NEW th \in Thread, Step(th) PROVE Unlist(th)
  <2>1. ~CancelAccepted(th) /\ ~CancelRefused(th) /\ ~CheckLeg(th)
    BY DEF CancelAccepted, CancelRefused, CheckLeg
  <2>2. ~NothingToExit(th) /\ ~SoftPrice(th) /\ ~CreateExit(th) /\ ~Reopen(th) /\ ~Finish(th)
    BY DEF NothingToExit, SoftPrice, CreateExit, Reopen, Finish
  <2> QED
    BY <1>7, <2>1, <2>2 DEF Step
<1>8. ~UNCHANGED vars
  BY DEF vars
<1> QED
  BY <1>1, <1>2, <1>3, <1>4, <1>5, <1>6, <1>7, <1>8 DEF Next

\* When order_info answers and no report is lost, a trade leaves the list only when none of
\* its orders may still execute, save one finalize_trade just failed to cancel: whatever is
\* refused, and whatever executes while its orders are canceled.  The clean command is left
\* out: it drops the trade whether its cancels succeeded or not, without the mutex
THEOREM NoOrphanLeft ==
  ASSUME Counting, "clean" \notin Operations
  PROVE  Spec => NoOrphan
<1> DEFINE Inv == TypeInv /\ BooksInv /\ OpInv /\ SumsInv /\ OrphanInv
           A == listed /\ ~listed' /\ ~op["mutex"].failed => \A n \in DOMAIN orders : ~Live(n)
<1>1. Inv /\ [Next]_vars => [A]_vars
  <2> SUFFICES ASSUME Inv, [Next]_vars, listed, ~listed', ~op["mutex"].failed
               PROVE  \A n \in DOMAIN orders : ~Live(n)
    OBVIOUS
  <2>1. CASE OpenFailed
    <3>1. orders = <<>>
      BY <2>1 DEF OpenFailed, OpInv
    <3> QED
      BY <3>1
  <2>2. CASE CleanupTrades
    BY <2>2, CleanupLeavesNone
  <2>3. ASSUME NEW th \in Thread, Unlist(th) PROVE \A n \in DOMAIN orders : ~Live(n)
    BY <2>3, UnlistLeavesNone
  <2> QED
    BY <2>1, <2>2, <2>3, WhoUnlists
<1>2. Spec => []Inv
  BY OrphanInvariant
<1> QED
  BY <1>1, <1>2, PTL DEF Spec, NoOrphan
=============================================================================

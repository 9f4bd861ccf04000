------------------------ MODULE PaperTraderProofs ------------------------
(***************************************************************************)
(* Theorems about PaperTrader, for any threads, orders offered and number  *)
(* of orders.                                                              *)
(*                                                                         *)
(* The update works on a copy of the book made without the lock.  Nothing  *)
(* it finds there was executed, because an order that was executed leaves  *)
(* the book at the end of the same update, and only the update executes    *)
(* orders of the book.                                                     *)
(***************************************************************************)
EXTENDS PaperTrader, TLAPS, FiniteSetTheorems, WellFoundedInduction

-----------------------------------------------------------------------------
(***************************************************************************)
(* The inductive invariant.                                                *)
(***************************************************************************)

\* The orders of the book, of the copy and of the list to remove were created,
\* and none of them is a market order; the two lists are those of an update.
ListsKnown ==
    /\ book \union todo \union rm_list \subseteq DOMAIN orders
    /\ \A o \in book \union todo : orders[o].type # "market"
    /\ phase # "orders" => todo = {}
    /\ phase \notin {"orders", "remove"} => rm_list = {}

\* What the update still has to look at, and what is not created yet, was not
\* executed.
NotYet ==
    /\ \A o \in todo : executed[o] = 0
    /\ \A o \in Ids \ DOMAIN orders : executed[o] = 0

\* The strategies are told how the order ended, or will be by a thread that has
\* released the lock.
Ending(o) ==
    \/ told[o] \intersect {"deleted", "canceled", "rejected"} # {}
    \/ \E th \in Threads : /\ work[th].step \in {"canceled", "rejected", "executed"}
                           /\ work[th].order = o

Answering(o) == orders[o].type \in {"market", "limit", "stop"}

EndKnown ==
    /\ \A o \in DOMAIN orders : Answering(o) => o \in book \/ Ending(o)
    /\ \A o \in rm_list : Answering(o) => Ending(o)

PaperInv == TypeOK /\ ListsKnown /\ NotYet /\ ExecutedOnce /\ EndKnown

-----------------------------------------------------------------------------
(***************************************************************************)
(* Lemmas about the data.                                                  *)
(***************************************************************************)

\* What the assumption says of an offer.
LEMMA OfferFacts ==
    ASSUME NEW r \in Offers
    PROVE  /\ r.dir \in {Long, Short} /\ r.qty \in Nat /\ r.type \in OrderTypes
           /\ r.margin \in BOOLEAN
BY PaperAssumption DEF Long, Short

\* The threads and the identifiers.
LEMMA ThreadFacts ==
    /\ Clients \subseteq Threads /\ Trader \in Threads /\ Trader \notin Clients
    /\ Ids \subseteq Nat \ {0} /\ None = 0
BY PaperAssumption DEF Threads, Ids, None

\* The work of a thread has its three fields.
LEMMA DoingFacts ==
    ASSUME NEW step \in {"idle", "created", "canceled", "rejected", "executed",
                         "test", "exit"},
           NEW o \in 0..MaxOrders, NEW i \in Nat
    PROVE  /\ Doing(step, o, i) \in Work
           /\ Doing(step, o, i).step = step /\ Doing(step, o, i).order = o
           /\ Doing(step, o, i).object = i
BY DEF Doing, Work

\* A thread that has nothing to do.
LEMMA IdleFacts ==
    Idle \in Work /\ Idle.step = "idle" /\ Idle.object = 0
BY PaperAssumption DEF Idle, Doing, Work, None

\* A position is built from its fields.
LEMMA HeldFacts ==
    ASSUME NEW dir \in {Long, Short}, NEW qty \in Nat,
           NEW state \in {"opened", "closed"}
    PROVE  Held(dir, qty, state) \in Position
BY DEF Held, Position

\* What a thread may have to do.
WorkOK(w, n) ==
    /\ w \in Work /\ w.object <= n
    /\ w.step \in {"test", "exit"} => w.object # None

\* A thread with new work leaves the others to theirs.
LEMMA WorkFacts ==
    ASSUME TypeOK, NEW th \in Threads, NEW w, WorkOK(w, Len(objects)),
           work' = [work EXCEPT ![th] = w]
    PROVE  /\ work' \in [Threads -> Work]
           /\ work'[th] = w
           /\ \A x \in Threads \ {th} : work'[x] = work[x]
           /\ \A x \in Threads : WorkOK(work'[x], Len(objects))
BY DEF WorkOK, TypeOK

\* What it may have to do it still may when there are more positions.
LEMMA MoreObjects ==
    ASSUME NEW w, NEW n \in Nat, NEW m \in Nat, n <= m, WorkOK(w, n)
    PROVE  WorkOK(w, m)
<1>1. w.object \in Nat
  BY DEF WorkOK, Work
<1> QED
  BY <1>1 DEF WorkOK

\* One element more in a sequence.
LEMMA AppendFacts ==
    ASSUME NEW S, NEW s \in Seq(S), NEW x \in S
    PROVE  /\ Append(s, x) \in Seq(S)
           /\ Len(Append(s, x)) = Len(s) + 1
           /\ DOMAIN s \subseteq DOMAIN Append(s, x)
           /\ DOMAIN Append(s, x) = DOMAIN s \union {Len(s) + 1}
           /\ Append(s, x)[Len(s) + 1] = x
           /\ \A i \in DOMAIN s : Append(s, x)[i] = s[i]
           /\ Len(s) \in Nat /\ Len(s) + 1 \notin DOMAIN s
OBVIOUS

\* Another element in a sequence.
LEMMA ReplaceFacts ==
    ASSUME NEW S, NEW s \in Seq(S), NEW i \in 1..Len(s), NEW x \in S
    PROVE  /\ [s EXCEPT ![i] = x] \in Seq(S)
           /\ Len([s EXCEPT ![i] = x]) = Len(s)
OBVIOUS

\* The position that is opened, increased, reduced or reversed is a position.
LEMMA MarginOrderFacts ==
    ASSUME TypeOK, NEW r \in Offers, MarginOrder(r)
    PROVE  /\ objects' \in Seq(Position)
           /\ Len(objects) <= Len(objects') /\ Len(objects) \in Nat
           /\ current' \in 0..Len(objects')
<1> USE DEF TypeOK
<1>1. CASE ~Opened
  <2> DEFINE new == Held(r.dir, r.qty, "opened")
  <2>1. new \in Position
    BY OfferFacts, HeldFacts
  <2>2. objects' = Append(objects, new) /\ current' = Len(objects) + 1
    BY <1>1 DEF MarginOrder
  <2> HIDE DEF new
  <2>3. objects' \in Seq(Position) /\ Len(objects') = Len(objects) + 1
    BY <2>1, <2>2, AppendFacts
  <2> QED
    BY <2>2, <2>3
<1>2. CASE Opened
  <2> DEFINE p == objects[current]
             new == IF p.dir = r.dir THEN Held(p.dir, p.qty + r.qty, "opened")
                    ELSE IF p.qty >= r.qty THEN Held(p.dir, p.qty - r.qty, "opened")
                    ELSE Held(r.dir, r.qty - p.qty, "opened")
  <2>1. current \in 1..Len(objects)
    BY <1>2 DEF Opened, None
  <2>2. p.dir \in {Long, Short} /\ p.qty \in Nat
    <3>1. p \in Position
      BY <2>1
    <3> HIDE DEF p
    <3> QED
      BY <3>1 DEF Position
  <2>3. new \in Position
    BY <2>2, OfferFacts, HeldFacts
  <2>4. objects' = [objects EXCEPT ![current] = new] /\ current' = current
    BY <1>2 DEF MarginOrder
  <2> HIDE DEF new
  <2> QED
    BY <2>1, <2>3, <2>4, ReplaceFacts
<1> QED
  BY <1>1, <1>2

\* An order that is executed or refused: its thread has signals to send.
LEMMA ServeFacts ==
    ASSUME TypeOK, NEW th \in Threads, NEW o \in Ids, NEW r \in Offers,
           Execute(th, o, r) \/ Reject(th, o, r)
    PROVE  /\ objects' \in Seq(Position) /\ current' \in 0..Len(objects')
           /\ asset' \in Nat
           /\ executed' \in [Ids -> Nat]
           /\ executed'[o] \in {executed[o], executed[o] + 1}
           /\ \A n \in Ids \ {o} : executed'[n] = executed[n]
           /\ work' \in [Threads -> Work]
           /\ work'[th].step \in {"executed", "rejected"} /\ work'[th].order = o
           /\ \A x \in Threads \ {th} : work'[x] = work[x]
           /\ \A x \in Threads : WorkOK(work'[x], Len(objects'))
<1>1. o \in 0..MaxOrders /\ Len(objects) \in Nat
  BY PaperAssumption DEF TypeOK, Ids
<1>2. CASE Execute(th, o, r)
  <2>1. /\ objects' \in Seq(Position) /\ current' \in 0..Len(objects')
        /\ Len(objects) <= Len(objects')
    BY <1>2, MarginOrderFacts DEF Execute, TypeOK
  <2>2. asset' \in Nat
    BY <1>2, OfferFacts DEF Execute, TypeOK, MayExecute, SpotOrder, Long, Short
  <2> DEFINE i == IF r.margin /\ Opened THEN current ELSE None
             w == Doing("executed", o, i)
  <2>3. i \in Nat /\ i <= Len(objects)
    BY <1>1 DEF TypeOK, None
  <2>4. work' = [work EXCEPT ![th] = w]
    BY <1>2 DEF Execute
  <2> HIDE DEF i
  <2>5. WorkOK(w, Len(objects)) /\ w.step = "executed" /\ w.order = o
    BY <1>1, <2>3, DoingFacts DEF WorkOK
  <2> HIDE DEF w
  <2>6. /\ work' \in [Threads -> Work] /\ work'[th] = w
        /\ \A x \in Threads \ {th} : work'[x] = work[x]
        /\ \A x \in Threads : WorkOK(work'[x], Len(objects))
    BY <2>4, <2>5, WorkFacts
  <2>7. \A x \in Threads : WorkOK(work'[x], Len(objects'))
    BY <1>1, <2>1, <2>6, MoreObjects
  <2>8. /\ executed' \in [Ids -> Nat] /\ executed'[o] = executed[o] + 1
        /\ \A n \in Ids \ {o} : executed'[n] = executed[n]
    BY <1>2 DEF Execute, TypeOK
  <2> QED
    BY <2>1, <2>2, <2>5, <2>6, <2>7, <2>8
<1>3. CASE Reject(th, o, r)
  <2> DEFINE w == Doing("rejected", o, None)
  <2>1. WorkOK(w, Len(objects)) /\ w.step = "rejected" /\ w.order = o
    BY <1>1, DoingFacts DEF WorkOK, None
  <2>2. /\ work' = [work EXCEPT ![th] = w]
        /\ UNCHANGED <<objects, current, asset, executed>>
    BY <1>3 DEF Reject
  <2> HIDE DEF w
  <2>3. /\ work' \in [Threads -> Work] /\ work'[th] = w
        /\ \A x \in Threads \ {th} : work'[x] = work[x]
        /\ \A x \in Threads : WorkOK(work'[x], Len(objects))
    BY <2>1, <2>2, WorkFacts
  <2> QED
    BY <2>1, <2>2, <2>3 DEF TypeOK
<1> QED
  BY <1>2, <1>3

\* How an order ended is not forgotten: a thread that forgets it has told it.
Ends == {"canceled", "rejected", "executed"}

Told(o) == told[o] \intersect {"deleted", "canceled", "rejected"} # {}

\* An end that is coming still is after the step of one thread.
LEMMA EndingKept ==
    ASSUME NEW th \in Threads, \A x \in Threads \ {th} : work'[x] = work[x],
           NEW o, told[o] \subseteq told'[o],
           work[th].step \in Ends /\ work[th].order = o => Told(o)',
           Ending(o)
    PROVE  Ending(o)'
<1>1. CASE Told(o)
  BY <1>1 DEF Told, Ending
<1>2. CASE ~Told(o)
  <2>1. PICK x \in Threads : work[x].step \in Ends /\ work[x].order = o
    BY <1>2 DEF Told, Ending, Ends
  <2>2. CASE x = th
    BY <2>1, <2>2 DEF Told, Ending
  <2>3. CASE x # th
    <3>1. work'[x] = work[x]
      BY <2>3
    <3> QED
      BY <2>1, <3>1 DEF Ending, Ends
  <2> QED
    BY <2>2, <2>3
<1> QED
  BY <1>1, <1>2

\* A thread about to send a signal that ends an order.
LEMMA EndingNew ==
    ASSUME NEW th \in Threads, work'[th].step \in Ends, NEW o, work'[th].order = o
    PROVE  Ending(o)'
BY DEF Ending, Ends

\* Threads and signals change, orders and lists do not.
LEMMA EndKept ==
    ASSUME PaperInv, UNCHANGED <<orders, book, rm_list>>,
           \A o \in DOMAIN orders : Ending(o) => Ending(o)'
    PROVE  EndKnown'
BY DEF PaperInv, EndKnown, ListsKnown, Answering

\* The part of the type invariant about the work of the threads.
LEMMA WorkTyped ==
    ASSUME work' \in [Threads -> Work],
           \A x \in Threads : WorkOK(work'[x], Len(objects'))
    PROVE  \A th \in Threads :
               /\ work'[th].object <= Len(objects')
               /\ work'[th].step \in {"test", "exit"} => work'[th].object # None
BY DEF WorkOK

\* The same before the step.
LEMMA WorkTypedNow ==
    ASSUME TypeOK, NEW th \in Threads
    PROVE  WorkOK(work[th], Len(objects)) /\ work[th] \in Work
BY DEF WorkOK, TypeOK

-----------------------------------------------------------------------------
(***************************************************************************)
(* The steps.                                                              *)
(***************************************************************************)

\* The signals of an order are sent.
LEMMA NotifyStep ==
    ASSUME PaperInv, NEW th \in Threads, Notify(th)
    PROVE  PaperInv'
<1> DEFINE w == work[th]
<1>1. UNCHANGED <<price, orders, book, objects, current, asset, executed, phase,
                  todo, rm_list>>
  BY DEF Notify
<1>2. w \in Work /\ WorkOK(w, Len(objects)) /\ TypeOK /\ Len(objects) \in Nat
  BY WorkTypedNow DEF PaperInv, TypeOK
<1>3. PICK kinds : /\ told' = [told EXCEPT ![w.order] = @ \union kinds]
                   /\ kinds \subseteq {"opened", "traded", "deleted", "canceled",
                                      "rejected"}
                   /\ w.step \in Ends =>
                        kinds \intersect {"deleted", "canceled", "rejected"} # {}
  BY DEF Notify, Tell, Ends
<1>4. PICK new : WorkOK(new, Len(objects)) /\ work' = [work EXCEPT ![th] = new]
  <2>1. CASE EndWork(th)
    <3>1. WorkOK(Idle, Len(objects))
      BY <1>2, IdleFacts DEF WorkOK
    <3> QED
      BY <2>1, <3>1 DEF EndWork
  <2>2. CASE /\ work' = [work EXCEPT ![th] = Doing("test", w.order, w.object)]
             /\ w.object # None
    <3>1. w.order \in 0..MaxOrders /\ w.object \in Nat
      BY <1>2 DEF Work
    <3>2. WorkOK(Doing("test", w.order, w.object), Len(objects))
      BY <1>2, <2>2, <3>1, DoingFacts DEF WorkOK
    <3> QED
      BY <2>2, <3>2
  <2> QED
    BY <2>1, <2>2 DEF Notify
<1>5. /\ work' \in [Threads -> Work]
      /\ \A x \in Threads \ {th} : work'[x] = work[x]
      /\ \A x \in Threads : WorkOK(work'[x], Len(objects))
  BY <1>2, <1>4, WorkFacts
<1>6. TypeOK'
  <2>1. told' \in [Ids -> SUBSET {"opened", "traded", "deleted", "canceled",
                                  "rejected"}]
    BY <1>2, <1>3 DEF TypeOK
  <2> QED
    BY <1>1, <1>2, <1>5, <2>1, WorkTyped DEF TypeOK
<1>7. ListsKnown' /\ NotYet' /\ ExecutedOnce'
  BY <1>1 DEF PaperInv, ListsKnown, NotYet, ExecutedOnce
<1>8. EndKnown'
  <2>1. ASSUME NEW o \in DOMAIN orders, Ending(o) PROVE Ending(o)'
    <3>1. o \in Ids /\ told \in [Ids -> SUBSET {"opened", "traded", "deleted",
                                               "canceled", "rejected"}]
      BY <1>2, PaperAssumption DEF TypeOK, Ids
    <3>2. told[o] \subseteq told'[o]
      BY <1>3, <3>1
    <3>3. w.step \in Ends /\ w.order = o => Told(o)'
      BY <1>3, <3>1 DEF Told
    <3> QED
      BY <1>5, <2>1, <3>2, <3>3, EndingKept
  <2> QED
    BY <1>1, <2>1, EndKept
<1> QED
  BY <1>6, <1>7, <1>8 DEF PaperInv

\* A thread tests whether the position is empty.
LEMMA TestEmptyStep ==
    ASSUME PaperInv, NEW th \in Threads, TestEmpty(th)
    PROVE  PaperInv'
<1> DEFINE w == work[th]
<1>1. /\ UNCHANGED <<price, orders, book, objects, current, asset, executed, told,
                     phase, todo, rm_list>>
      /\ w.step = "test"
  BY DEF TestEmpty
<1>2. w \in Work /\ WorkOK(w, Len(objects)) /\ TypeOK /\ Len(objects) \in Nat
  BY WorkTypedNow DEF PaperInv, TypeOK
<1>3. PICK new : WorkOK(new, Len(objects)) /\ work' = [work EXCEPT ![th] = new]
  <2>1. CASE EndWork(th)
    <3>1. WorkOK(Idle, Len(objects))
      BY <1>2, IdleFacts DEF WorkOK
    <3> QED
      BY <2>1, <3>1 DEF EndWork
  <2>2. CASE work' = [work EXCEPT ![th] = Doing("exit", w.order, w.object)]
    <3>1. w.order \in 0..MaxOrders /\ w.object \in Nat
      BY <1>2 DEF Work
    <3>2. WorkOK(Doing("exit", w.order, w.object), Len(objects))
      BY <1>1, <1>2, <3>1, DoingFacts DEF WorkOK
    <3> QED
      BY <2>2, <3>2
  <2> QED
    BY <2>1, <2>2 DEF TestEmpty
<1>4. /\ work' \in [Threads -> Work]
      /\ \A x \in Threads \ {th} : work'[x] = work[x]
      /\ \A x \in Threads : WorkOK(work'[x], Len(objects))
  BY <1>2, <1>3, WorkFacts
<1>5. TypeOK'
  BY <1>1, <1>2, <1>4, WorkTyped DEF TypeOK
<1>6. ListsKnown' /\ NotYet' /\ ExecutedOnce'
  BY <1>1 DEF PaperInv, ListsKnown, NotYet, ExecutedOnce
<1>7. EndKnown'
  <2>1. ASSUME NEW o \in DOMAIN orders, Ending(o) PROVE Ending(o)'
    BY <1>1, <1>4, <2>1, EndingKept DEF Ends
  <2> QED
    BY <1>1, <2>1, EndKept
<1> QED
  BY <1>5, <1>6, <1>7 DEF PaperInv

\* A position is closed.
LEMMA ExitStep ==
    ASSUME PaperInv, NEW th \in Threads, Exit(th)
    PROVE  PaperInv'
<1>1. /\ UNCHANGED <<price, orders, book, current, asset, executed, told, phase,
                     todo, rm_list>>
      /\ work[th].step = "exit"
  BY DEF Exit
<1>2. /\ work[th] \in Work /\ WorkOK(work[th], Len(objects))
      /\ TypeOK /\ Len(objects) \in Nat
  BY WorkTypedNow DEF PaperInv, TypeOK
<1>3. objects' \in Seq(Position) /\ Len(objects') = Len(objects)
  <2> DEFINE i == work[th].object
             new == Held(objects[i].dir, objects[i].qty, "closed")
  <2>1. objects \in Seq(Position) /\ i \in 1..Len(objects)
    BY <1>1, <1>2 DEF TypeOK, WorkOK, Work, None
  <2>2. objects' = [objects EXCEPT ![i] = new]
    BY DEF Exit
  <2>3. objects[i] \in Position
    BY <2>1
  <2>4. objects[i].dir \in {Long, Short} /\ objects[i].qty \in Nat
    BY <2>3 DEF Position
  <2>5. new \in Position
    BY <2>4, HeldFacts
  <2> HIDE DEF new
  <2> QED
    BY <2>1, <2>2, <2>5, ReplaceFacts
<1>4. /\ work' \in [Threads -> Work]
      /\ \A x \in Threads \ {th} : work'[x] = work[x]
      /\ \A x \in Threads : WorkOK(work'[x], Len(objects'))
  <2>1. WorkOK(Idle, Len(objects))
    BY <1>2, IdleFacts DEF WorkOK
  <2>2. work' = [work EXCEPT ![th] = Idle]
    BY DEF Exit, EndWork
  <2> QED
    BY <1>2, <1>3, <2>1, <2>2, WorkFacts
<1>5. TypeOK'
  <2>1. current' \in 0..Len(objects')
    BY <1>1, <1>2, <1>3 DEF TypeOK
  <2> QED
    BY <1>1, <1>2, <1>3, <1>4, <2>1, WorkTyped DEF TypeOK
<1>6. ListsKnown' /\ NotYet' /\ ExecutedOnce'
  BY <1>1 DEF PaperInv, ListsKnown, NotYet, ExecutedOnce
<1>7. EndKnown'
  <2>1. ASSUME NEW o \in DOMAIN orders, Ending(o) PROVE Ending(o)'
    BY <1>1, <1>4, <2>1, EndingKept DEF Ends
  <2> QED
    BY <1>1, <2>1, EndKept
<1> QED
  BY <1>5, <1>6, <1>7 DEF PaperInv

\* What a new order is: the next identifier, in no list and not executed.
LEMMA NewOrder ==
    ASSUME PaperInv, NEW r \in Offers, Len(orders) + 1 <= MaxOrders,
           orders' = Append(orders, r)
    PROVE  /\ Len(orders) + 1 \in Ids
           /\ orders' \in Seq(Offers) /\ Len(orders') <= MaxOrders
           /\ DOMAIN orders' = DOMAIN orders \union {Len(orders) + 1}
           /\ orders'[Len(orders) + 1] = r
           /\ \A o \in DOMAIN orders : orders'[o] = orders[o]
           /\ Len(orders) + 1 \notin DOMAIN orders
           /\ executed[Len(orders) + 1] = 0
           /\ DOMAIN orders \subseteq Ids
<1>1. orders \in Seq(Offers) /\ Len(orders) \in Nat
  BY DEF PaperInv, TypeOK
<1>2. Len(orders) + 1 \in Ids /\ Len(orders) + 1 \notin DOMAIN orders
  BY <1>1, PaperAssumption DEF Ids
<1> QED
  BY <1>1, <1>2, AppendFacts, PaperAssumption DEF PaperInv, TypeOK, NotYet, Ids

\* A market order is executed or refused when it is created.
LEMMA CreateMarketStep ==
    ASSUME PaperInv, NEW th \in Threads, NEW r \in Offers, CreateMarket(th, r)
    PROVE  PaperInv'
<1> PICK new : new = Len(orders) + 1
  OBVIOUS
<1>1. /\ work[th].step = "idle" /\ new <= MaxOrders
      /\ orders' = Append(orders, r)
      /\ Execute(th, new, r) \/ Reject(th, new, r)
      /\ UNCHANGED <<price, book, told, phase, todo, rm_list>>
  BY DEF CreateMarket
<1>2. /\ new \in Ids
      /\ orders' \in Seq(Offers) /\ Len(orders') <= MaxOrders
      /\ DOMAIN orders' = DOMAIN orders \union {new}
      /\ orders'[new] = r
      /\ \A o \in DOMAIN orders : orders'[o] = orders[o]
      /\ new \notin DOMAIN orders /\ executed[new] = 0 /\ DOMAIN orders \subseteq Ids
  BY <1>1, NewOrder
<1>3. TypeOK
  BY DEF PaperInv
<1>4. /\ objects' \in Seq(Position) /\ current' \in 0..Len(objects')
      /\ asset' \in Nat
      /\ executed' \in [Ids -> Nat]
      /\ executed'[new] \in {executed[new], executed[new] + 1}
      /\ \A n \in Ids \ {new} : executed'[n] = executed[n]
      /\ work' \in [Threads -> Work]
      /\ work'[th].step \in {"executed", "rejected"} /\ work'[th].order = new
      /\ \A x \in Threads \ {th} : work'[x] = work[x]
      /\ \A x \in Threads : WorkOK(work'[x], Len(objects'))
  BY <1>1, <1>2, <1>3, ServeFacts
<1>5. TypeOK'
  BY <1>1, <1>2, <1>3, <1>4, WorkTyped DEF TypeOK
<1>6. ListsKnown'
  BY <1>1, <1>2 DEF PaperInv, ListsKnown
<1>7. NotYet'
  BY <1>1, <1>2, <1>4 DEF PaperInv, ListsKnown, NotYet
<1>8. ExecutedOnce'
  <2>1. new \notin book /\ executed'[new] <= 1
    BY <1>2, <1>4 DEF PaperInv, ListsKnown
  <2>2. \A o \in Ids \ {new} : executed'[o] = executed[o]
    BY <1>4
  <2> QED
    BY <1>1, <2>1, <2>2 DEF PaperInv, ExecutedOnce
<1>9. EndKnown'
  <2>1. ASSUME NEW o, Ending(o) PROVE Ending(o)'
    BY <1>1, <1>4, <2>1, EndingKept DEF Ends
  <2>2. Ending(new)'
    BY <1>4, EndingNew DEF Ends
  <2> QED
    BY <1>1, <1>2, <2>1, <2>2 DEF PaperInv, EndKnown, ListsKnown, Answering
<1> QED
  BY <1>5, <1>6, <1>7, <1>8, <1>9 DEF PaperInv

\* Another order enters the book.
LEMMA CreateOrderStep ==
    ASSUME PaperInv, NEW th \in Threads, NEW r \in Offers, CreateOrder(th, r)
    PROVE  PaperInv'
<1> DEFINE new == Len(orders) + 1
           w == Doing("created", new, None)
<1>1. /\ work[th].step = "idle" /\ new <= MaxOrders /\ r.type # "market"
      /\ orders' = Append(orders, r) /\ book' = book \union {new}
      /\ work' = [work EXCEPT ![th] = w]
      /\ UNCHANGED <<price, objects, current, asset, executed, told, phase, todo,
                     rm_list>>
  BY DEF CreateOrder
<1>2. /\ new \in Ids
      /\ orders' \in Seq(Offers) /\ Len(orders') <= MaxOrders
      /\ DOMAIN orders' = DOMAIN orders \union {new}
      /\ orders'[new] = r
      /\ \A o \in DOMAIN orders : orders'[o] = orders[o]
      /\ new \notin DOMAIN orders /\ executed[new] = 0 /\ DOMAIN orders \subseteq Ids
  BY <1>1, NewOrder
<1> HIDE DEF new
<1>3. TypeOK /\ Len(objects) \in Nat
  BY DEF PaperInv, TypeOK
<1>4. WorkOK(w, Len(objects))
  <2>1. new \in 0..MaxOrders
    BY <1>2, PaperAssumption DEF Ids
  <2> QED
    BY <1>3, <2>1, DoingFacts DEF WorkOK, None
<1> HIDE DEF w
<1>5. /\ work' \in [Threads -> Work]
      /\ \A x \in Threads \ {th} : work'[x] = work[x]
      /\ \A x \in Threads : WorkOK(work'[x], Len(objects))
  BY <1>1, <1>3, <1>4, WorkFacts
<1>6. TypeOK'
  BY <1>1, <1>2, <1>3, <1>5, WorkTyped DEF TypeOK
<1>7. ListsKnown'
  BY <1>1, <1>2 DEF PaperInv, ListsKnown
<1>8. NotYet'
  BY <1>1, <1>2 DEF PaperInv, ListsKnown, NotYet
<1>9. ExecutedOnce'
  BY <1>1, <1>2 DEF PaperInv, ListsKnown, ExecutedOnce
<1>10. EndKnown'
  <2>1. ASSUME NEW o, Ending(o) PROVE Ending(o)'
    BY <1>1, <1>5, <2>1, EndingKept DEF Ends
  <2> QED
    BY <1>1, <1>2, <2>1 DEF PaperInv, EndKnown, ListsKnown, Answering
<1> QED
  BY <1>6, <1>7, <1>8, <1>9, <1>10 DEF PaperInv

\* An order of the book is canceled; an update may still have it in its list.
LEMMA CancelOrderStep ==
    ASSUME PaperInv, NEW th \in Threads, NEW o \in Ids, CancelOrder(th, o)
    PROVE  PaperInv'
<1> DEFINE w == Doing("canceled", o, None)
<1>1. /\ work[th].step = "idle" /\ book' = book \ {o}
      /\ work' = [work EXCEPT ![th] = w]
      /\ UNCHANGED <<price, orders, objects, current, asset, executed, told, phase,
                     todo, rm_list>>
  BY DEF CancelOrder
<1>2. TypeOK /\ Len(objects) \in Nat /\ o \in 0..MaxOrders
  BY PaperAssumption DEF PaperInv, TypeOK, Ids
<1>3. WorkOK(w, Len(objects)) /\ w.step = "canceled" /\ w.order = o
  BY <1>2, DoingFacts DEF WorkOK, None
<1> HIDE DEF w
<1>4. /\ work' \in [Threads -> Work] /\ work'[th] = w
      /\ \A x \in Threads \ {th} : work'[x] = work[x]
      /\ \A x \in Threads : WorkOK(work'[x], Len(objects))
  BY <1>1, <1>2, <1>3, WorkFacts
<1>5. TypeOK'
  BY <1>1, <1>2, <1>4, WorkTyped DEF TypeOK
<1>6. ListsKnown' /\ NotYet' /\ ExecutedOnce'
  BY <1>1 DEF PaperInv, ListsKnown, NotYet, ExecutedOnce
<1>7. EndKnown'
  <2>1. ASSUME NEW n, Ending(n) PROVE Ending(n)'
    BY <1>1, <1>4, <2>1, EndingKept DEF Ends
  <2>2. Ending(o)'
    BY <1>3, <1>4, EndingNew DEF Ends
  <2> QED
    BY <1>1, <2>1, <2>2 DEF PaperInv, EndKnown, ListsKnown, Answering
<1> QED
  BY <1>5, <1>6, <1>7 DEF PaperInv

\* An empty position leaves the list.
LEMMA UpdatePositionsStep ==
    ASSUME PaperInv, UpdatePositions
    PROVE  PaperInv'
<1>1. /\ phase = "idle" /\ phase' = "snapshot" /\ current' \in {0, current}
      /\ UNCHANGED <<price, orders, book, objects, asset, executed, told, work,
                     todo, rm_list>>
  BY DEF UpdatePositions, None
<1>2. TypeOK'
  <2>1. current' \in 0..Len(objects')
    BY <1>1 DEF PaperInv, TypeOK
  <2> QED
    BY <1>1, <2>1 DEF PaperInv, TypeOK
<1>3. ListsKnown' /\ NotYet' /\ ExecutedOnce'
  BY <1>1 DEF PaperInv, ListsKnown, NotYet, ExecutedOnce
<1>4. EndKnown'
  BY <1>1 DEF PaperInv, EndKnown, Ending, Answering
<1> QED
  BY <1>2, <1>3, <1>4 DEF PaperInv

\* Nothing of the book was executed when it is copied.
LEMMA SnapshotStep ==
    ASSUME PaperInv, Snapshot
    PROVE  PaperInv'
<1>1. /\ phase = "snapshot" /\ phase' = "orders" /\ todo' = book
      /\ UNCHANGED <<price, orders, book, objects, current, asset, executed, told,
                     work, rm_list>>
  BY DEF Snapshot
<1>2. TypeOK'
  BY <1>1 DEF PaperInv, TypeOK
<1>3. ListsKnown' /\ ExecutedOnce'
  BY <1>1 DEF PaperInv, ListsKnown, ExecutedOnce
<1>4. NotYet'
  <2>1. rm_list = {} /\ book \subseteq Ids /\ executed \in [Ids -> Nat]
    BY <1>1 DEF PaperInv, ListsKnown, TypeOK
  <2>2. \A o \in book : executed[o] \in Nat /\ executed[o] <= 1 /\ executed[o] # 1
    BY <2>1 DEF PaperInv, ExecutedOnce
  <2> QED
    BY <1>1, <2>2 DEF PaperInv, NotYet
<1>5. EndKnown'
  BY <1>1 DEF PaperInv, EndKnown, Ending, Answering
<1> QED
  BY <1>2, <1>3, <1>4, <1>5 DEF PaperInv

\* An order of the list, which was not executed, is executed and will be removed.
LEMMA UpdateOrderStep ==
    ASSUME PaperInv, NEW o \in todo, UpdateOrder(o)
    PROVE  PaperInv'
<1> DEFINE r == orders[o]
<1>1. /\ phase = "orders" /\ work[Trader].step = "idle"
      /\ todo' = todo \ {o}
      /\ rm_list' = IF Triggered(r) \/ r.type \notin {"limit", "stop"}
                    THEN rm_list \union {o} ELSE rm_list
      /\ UNCHANGED <<price, orders, book, told, phase>>
  BY DEF UpdateOrder
<1>2. /\ TypeOK /\ o \in Ids /\ o \in DOMAIN orders /\ r \in Offers
      /\ executed[o] = 0 /\ Trader \in Threads /\ r.type # "market"
  <2>1. TypeOK /\ o \in Ids /\ o \in DOMAIN orders /\ executed[o] = 0
    BY DEF PaperInv, TypeOK, ListsKnown, NotYet
  <2> QED
    BY <2>1, ThreadFacts DEF PaperInv, TypeOK, ListsKnown
<1>3. ListsKnown'
  BY <1>1, <1>2 DEF PaperInv, ListsKnown
<1>4. CASE Triggered(r)
  <2>1. Execute(Trader, o, r) \/ Reject(Trader, o, r)
    BY <1>4 DEF UpdateOrder
  <2>2. rm_list' = rm_list \union {o}
    BY <1>1, <1>4
  <2> HIDE DEF r
  <2>3. /\ objects' \in Seq(Position) /\ current' \in 0..Len(objects')
        /\ asset' \in Nat
        /\ executed' \in [Ids -> Nat]
        /\ executed'[o] \in {executed[o], executed[o] + 1}
        /\ \A n \in Ids \ {o} : executed'[n] = executed[n]
        /\ work' \in [Threads -> Work]
        /\ work'[Trader].step \in {"executed", "rejected"}
        /\ work'[Trader].order = o
        /\ \A x \in Threads \ {Trader} : work'[x] = work[x]
        /\ \A x \in Threads : WorkOK(work'[x], Len(objects'))
    BY <1>2, <2>1, ServeFacts
  <2>4. TypeOK'
    BY <1>1, <1>2, <2>2, <2>3, WorkTyped DEF TypeOK
  <2>5. NotYet'
    <3>1. todo \subseteq Ids
      BY <1>2 DEF TypeOK
    <3> QED
      BY <1>1, <1>2, <2>3, <3>1 DEF PaperInv, NotYet
  <2>6. ExecutedOnce'
    BY <1>1, <1>2, <2>2, <2>3 DEF PaperInv, ExecutedOnce
  <2>7. EndKnown'
    <3>1. ASSUME NEW n, Ending(n) PROVE Ending(n)'
      BY <1>1, <1>2, <2>3, <3>1, EndingKept DEF Ends
    <3>2. Ending(o)'
      BY <1>2, <2>3, EndingNew DEF Ends
    <3> QED
      BY <1>1, <2>2, <3>1, <3>2 DEF PaperInv, EndKnown, Answering
  <2> QED
    BY <1>3, <2>4, <2>5, <2>6, <2>7 DEF PaperInv
<1>5. CASE ~Triggered(r)
  <2>1. /\ UNCHANGED <<objects, current, asset, executed, work>>
        /\ rm_list' = IF r.type \in {"limit", "stop"} THEN rm_list
                      ELSE rm_list \union {o}
    BY <1>1, <1>5 DEF UpdateOrder
  <2>2. TypeOK'
    BY <1>1, <1>2, <2>1 DEF TypeOK
  <2>3. NotYet' /\ ExecutedOnce'
    BY <1>1, <2>1 DEF PaperInv, NotYet, ExecutedOnce
  <2>4. EndKnown'
    BY <1>1, <1>2, <2>1 DEF PaperInv, EndKnown, Ending, Answering
  <2> QED
    BY <1>3, <2>2, <2>3, <2>4 DEF PaperInv
<1> QED
  BY <1>4, <1>5

\* The list of the update was looked at.
LEMMA EndOrdersStep ==
    ASSUME PaperInv, EndOrders
    PROVE  PaperInv'
<1>1. /\ todo = {} /\ phase' = "remove"
      /\ UNCHANGED <<price, orders, book, objects, current, asset, executed, told,
                     work, todo, rm_list>>
  BY DEF EndOrders
<1>2. TypeOK'
  BY <1>1 DEF PaperInv, TypeOK
<1>3. ListsKnown' /\ NotYet' /\ ExecutedOnce'
  BY <1>1 DEF PaperInv, ListsKnown, NotYet, ExecutedOnce
<1>4. EndKnown'
  BY <1>1 DEF PaperInv, EndKnown, Ending, Answering
<1> QED
  BY <1>2, <1>3, <1>4 DEF PaperInv

\* The orders executed or refused leave the book.
LEMMA RemoveOrdersStep ==
    ASSUME PaperInv, RemoveOrders
    PROVE  PaperInv'
<1>1. /\ phase = "remove" /\ phase' = "idle"
      /\ book' = book \ rm_list /\ rm_list' = {}
      /\ UNCHANGED <<price, orders, objects, current, asset, executed, told, work,
                     todo>>
  BY DEF RemoveOrders
<1>2. TypeOK'
  BY <1>1 DEF PaperInv, TypeOK
<1>3. ListsKnown' /\ NotYet' /\ ExecutedOnce'
  BY <1>1 DEF PaperInv, ListsKnown, NotYet, ExecutedOnce
<1>4. EndKnown'
  BY <1>1 DEF PaperInv, EndKnown, Ending, Answering
<1> QED
  BY <1>2, <1>3, <1>4 DEF PaperInv

\* The market moves.
LEMMA MovePriceStep ==
    ASSUME PaperInv, MovePrice
    PROVE  PaperInv'
<1>1. /\ price' \in {"low", "high"}
      /\ UNCHANGED <<orders, book, objects, current, asset, executed, told, work,
                     phase, todo, rm_list>>
  BY DEF MovePrice
<1>2. TypeOK'
  BY <1>1 DEF PaperInv, TypeOK
<1>3. ListsKnown' /\ NotYet' /\ ExecutedOnce'
  BY <1>1 DEF PaperInv, ListsKnown, NotYet, ExecutedOnce
<1>4. EndKnown'
  BY <1>1 DEF PaperInv, EndKnown, Ending, Answering
<1> QED
  BY <1>2, <1>3, <1>4 DEF PaperInv

-----------------------------------------------------------------------------
(***************************************************************************)
(* The theorems.                                                           *)
(***************************************************************************)

\* The invariant holds at first.
LEMMA InvariantInit == Init => PaperInv
<1> SUFFICES ASSUME Init PROVE PaperInv
  OBVIOUS
<1>1. orders = <<>> /\ objects = <<>> /\ book = {} /\ todo = {} /\ rm_list = {}
  BY DEF Init
<1>2. TypeOK
  <2>1. work \in [Threads -> Work] /\ \A th \in Threads : work[th] = Idle
    BY IdleFacts DEF Init
  <2>2. \A th \in Threads : /\ work[th].object = 0
                            /\ work[th].step = "idle"
    BY <2>1, IdleFacts
  <2>3. orders \in Seq(Offers) /\ objects \in Seq(Position)
        /\ Len(orders) = 0 /\ Len(objects) = 0
    BY <1>1
  <2>4. /\ price \in {"low", "high"} /\ current = 0 /\ asset = 0 /\ phase = "idle"
        /\ executed \in [Ids -> Nat]
        /\ told \in [Ids -> SUBSET {"opened", "traded", "deleted", "canceled",
                                    "rejected"}]
    BY DEF Init, None
  <2> QED
    BY <1>1, <2>1, <2>2, <2>3, <2>4, PaperAssumption DEF TypeOK
<1>3. ListsKnown /\ NotYet /\ ExecutedOnce
  BY <1>1 DEF Init, ListsKnown, NotYet, ExecutedOnce
<1>4. EndKnown
  BY <1>1 DEF EndKnown
<1> QED
  BY <1>2, <1>3, <1>4 DEF PaperInv

\* Every step keeps it.
LEMMA InvariantNext == PaperInv /\ [Next]_vars => PaperInv'
<1> SUFFICES ASSUME PaperInv, [Next]_vars PROVE PaperInv'
  OBVIOUS
<1>1. ASSUME NEW th \in Threads, Release(th) PROVE PaperInv'
  BY <1>1, NotifyStep, TestEmptyStep, ExitStep DEF Release
<1>2. ASSUME NEW th \in Clients, Client(th) PROVE PaperInv'
  <2>1. th \in Threads
    BY ThreadFacts
  <2> QED
    BY <1>2, <2>1, CreateMarketStep, CreateOrderStep, CancelOrderStep DEF Client
<1>3. CASE Update
  BY <1>3, UpdatePositionsStep, SnapshotStep, UpdateOrderStep, EndOrdersStep,
     RemoveOrdersStep DEF Update
<1>4. CASE MovePrice
  BY <1>4, MovePriceStep
<1>5. CASE UNCHANGED vars
  <2>1. UNCHANGED <<price, orders, book, objects, current, asset, executed, told,
                    work, phase, todo, rm_list>>
    BY <1>5 DEF vars
  <2>2. TypeOK'
    BY <2>1 DEF PaperInv, TypeOK
  <2>3. ListsKnown' /\ NotYet' /\ ExecutedOnce'
    BY <2>1 DEF PaperInv, ListsKnown, NotYet, ExecutedOnce
  <2>4. EndKnown'
    BY <2>1 DEF PaperInv, EndKnown, Ending, Answering
  <2> QED
    BY <2>2, <2>3, <2>4 DEF PaperInv
<1> QED
  BY <1>1, <1>2, <1>3, <1>4, <1>5 DEF Next

\* It holds in every reachable state.
LEMMA Invariant == Spec => []PaperInv
BY InvariantInit, InvariantNext, PTL DEF Spec

\* Every variable keeps its type; the position that a thread tests or closes
\* exists.
THEOREM PaperTyped == Spec => []TypeOK
<1>1. PaperInv => TypeOK
  BY DEF PaperInv
<1> QED
  BY <1>1, Invariant, PTL

\* However many threads create and cancel orders around the copy of the book an
\* update works on, no order is executed twice.
THEOREM ExecutesOnce == Spec => []ExecutedOnce
<1>1. PaperInv => ExecutedOnce
  BY DEF PaperInv
<1> QED
  BY <1>1, Invariant, PTL

\* An order that left the book is one the strategies are told about, or will be
\* by a thread that has released the lock.
THEOREM OrdersAnswered == Spec => []Answered
<1>1. PaperInv => Answered
  BY DEF PaperInv, EndKnown, Answering, Ending, Answered
<1> QED
  BY <1>1, Invariant, PTL

-----------------------------------------------------------------------------
(***************************************************************************)
(* Sums over a finite set: one element may be counted first, whichever it  *)
(* is.  The function that Sum chooses exists, and is the only one, by      *)
(* induction on the subsets of the set.                                    *)
(***************************************************************************)

\* Induction on the subsets of a finite set
LEMMA SubsetInduction ==
  ASSUME NEW S, IsFiniteSet(S), NEW P,
         \A s \in SUBSET S : (\A x \in s : s \ {x} \in P) => s \in P
  PROVE  \A s \in SUBSET S : s \in P
<1> SUFFICES ASSUME NEW z \in SUBSET S, z \notin P PROVE FALSE
  OBVIOUS
<1> DEFINE T == (SUBSET S) \ P
<1>1. T \subseteq FiniteSubsetsOf(S) /\ T # {}
  BY FS_Subset DEF FiniteSubsetsOf
<1>2. PICK s \in T : \A t \in T : ~(<<t, s>> \in StrictSubsetOrdering(S))
  BY <1>1, FS_StrictSubsetOrderingWellFounded, WFMin
<1>3. ASSUME NEW x \in s, s \ {x} \notin P PROVE FALSE
  <2>1. s \in SUBSET S /\ s \ {x} \in SUBSET S /\ s \ {x} # s
    BY <1>3
  <2>2. <<s \ {x}, s>> \in (SUBSET S) \X (SUBSET S)
    BY <2>1
  <2>3. <<s \ {x}, s>> \in StrictSubsetOrdering(S)
    BY <2>1, <2>2 DEF StrictSubsetOrdering
  <2> QED
    BY <1>2, <1>3, <2>1, <2>3
<1> QED
  BY <1>2, <1>3

\* The first of a set, and what a sum over s is when f gives those over its subsets
First(s) == CHOOSE i \in s : TRUE
Step(g, f, s) == IF s = {} THEN 0 ELSE g[First(s)] + f[s \ {First(s)}]

\* The element that a sum counts first.
LEMMA FirstIn ==
  ASSUME NEW s, s # {}
  PROVE  First(s) \in s
  BY DEF First

\* There is a function that gives the sums over the subsets of S
LEMMA SumsExist ==
  ASSUME NEW S, IsFiniteSet(S), NEW g \in [S -> Int]
  PROVE  \E f \in [SUBSET S -> Int] : \A s \in SUBSET S : f[s] = Step(g, f, s)
<1> DEFINE Sums(f, s) == \A t \in SUBSET S : Cardinality(t) <= Cardinality(s) => f[t] = Step(g, f, t)
           P == {s \in SUBSET S : \E f \in [SUBSET S -> Int] : Sums(f, s)}
<1>1. \A s \in SUBSET S : IsFiniteSet(s) /\ Cardinality(s) \in Nat /\ Cardinality(s) <= Cardinality(S)
  BY FS_Subset, FS_CardinalityType
<1>2. \A s \in SUBSET S : \A x \in s : Cardinality(s \ {x}) = Cardinality(s) - 1
  BY <1>1, FS_RemoveElement
<1>3. \A s \in SUBSET S : Cardinality(s) = 0 <=> s = {}
  BY <1>1, FS_EmptySet
<1>4. \A s \in SUBSET S : (\A x \in s : s \ {x} \in P) => s \in P
  <2> SUFFICES ASSUME NEW s \in SUBSET S, \A x \in s : s \ {x} \in P PROVE s \in P
    OBVIOUS
  <2>1. CASE s = {}
    <3> DEFINE f == [t \in SUBSET S |-> 0]
    <3>1. ASSUME NEW t \in SUBSET S, Cardinality(t) <= Cardinality(s) PROVE f[t] = Step(g, f, t)
      <4>1. t = {}
        BY <1>1, <1>3, <2>1, <3>1
      <4> QED
        BY <4>1 DEF Step
    <3>2. f \in [SUBSET S -> Int]
      OBVIOUS
    <3> HIDE DEF f
    <3> QED
      BY <3>1, <3>2
  <2>2. CASE s # {}
    <3>1. PICK x \in s : s \ {x} \in P
      BY <2>2
    <3>2. PICK h \in [SUBSET S -> Int] : Sums(h, s \ {x})
      BY <3>1
    <3> DEFINE f == [t \in SUBSET S |-> Step(g, h, t)]
    <3>3. ASSUME NEW t \in SUBSET S, t # {}
          PROVE  First(t) \in S /\ t \ {First(t)} \in SUBSET S /\ First(t) \in t
      BY <3>3, FirstIn
    <3>4. f \in [SUBSET S -> Int]
      BY <3>3 DEF Step
    <3>5. \A t \in SUBSET S : f[t] = Step(g, h, t)
      OBVIOUS
    <3> HIDE DEF f
    <3>6. ASSUME NEW t \in SUBSET S, Cardinality(t) <= Cardinality(s) PROVE f[t] = Step(g, f, t)
      <4>1. CASE t = {}
        BY <3>5, <4>1 DEF Step
      <4>2. CASE t # {}
        <5> DEFINE u == t \ {First(t)}
        <5>1. u \in SUBSET S /\ First(t) \in t
          BY <3>3, <4>2
        <5>2. Cardinality(u) <= Cardinality(s \ {x})
          <6>1. Cardinality(u) = Cardinality(t) - 1
            BY <1>2, <5>1
          <6>2. Cardinality(s \ {x}) = Cardinality(s) - 1
            BY <1>2
          <6> QED
            BY <1>1, <3>6, <6>1, <6>2
        <5> HIDE DEF u
        <5>3. h[u] = Step(g, h, u)
          BY <3>2, <5>1, <5>2
        <5>4. f[u] = h[u]
          BY <3>5, <5>1, <5>3
        <5> QED
          BY <3>5, <4>2, <5>4 DEF Step, u
      <4> QED
        BY <4>1, <4>2
    <3> QED
      BY <3>4, <3>6
  <2> QED
    BY <2>1, <2>2
<1>5. S \in P
  <2> HIDE DEF P
  <2> QED
    BY <1>4, SubsetInduction
<1>6. PICK f \in [SUBSET S -> Int] : Sums(f, S)
  BY <1>5
<1> QED
  BY <1>1, <1>6

\* The sum over a part of S is what such a function gives
LEMMA SumIs ==
  ASSUME NEW S, IsFiniteSet(S), NEW g \in [S -> Int], NEW f \in [SUBSET S -> Int],
         \A s \in SUBSET S : f[s] = Step(g, f, s), NEW R \in SUBSET S
  PROVE  Sum(g, R) = f[R]
<1> DEFINE F(h) == [s \in SUBSET R |-> IF s = {} THEN 0
                                     ELSE LET i == CHOOSE i \in s : TRUE
                                          IN  g[i] + h[s \ {i}]]
           sum == CHOOSE h : h = F(h)
           h == [s \in SUBSET R |-> f[s]]
<1>1. Sum(g, R) = sum[R]
  BY DEF Sum, MapThenFoldSet
<1>2. \A k : F(k) = [s \in SUBSET R |-> Step(g, k, s)]
  BY DEF Step, First
<1>3. h = F(h)
  <2>1. ASSUME NEW s \in SUBSET R PROVE h[s] = Step(g, h, s)
    <3>1. s \in SUBSET S /\ h[s] = f[s] /\ f[s] = Step(g, f, s)
      OBVIOUS
    <3>2. s # {} => h[s \ {First(s)}] = f[s \ {First(s)}]
      OBVIOUS
    <3> QED
      BY <3>1, <3>2 DEF Step
  <2>2. F(h) = [s \in SUBSET R |-> Step(g, h, s)]
    BY <1>2
  <2> QED
    BY <2>1, <2>2
<1> HIDE DEF F
<1>4. sum = F(sum)
  BY <1>3
<1> HIDE DEF sum, h
<1>5. \A s \in SUBSET R : sum[s] = Step(g, sum, s)
  <2>1. sum = [s \in SUBSET R |-> Step(g, sum, s)]
    BY <1>2, <1>4
  <2> QED
    BY <2>1
<1>6. IsFiniteSet(R)
  BY FS_Subset
<1> DEFINE P == {s \in SUBSET R : sum[s] = f[s]}
<1>7. \A s \in SUBSET R : (\A x \in s : s \ {x} \in P) => s \in P
  <2> SUFFICES ASSUME NEW s \in SUBSET R, \A x \in s : s \ {x} \in P PROVE sum[s] = f[s]
    OBVIOUS
  <2>1. s \in SUBSET S
    OBVIOUS
  <2>2. sum[s] = Step(g, sum, s) /\ f[s] = Step(g, f, s)
    BY <1>5, <2>1
  <2>3. s # {} => sum[s \ {First(s)}] = f[s \ {First(s)}]
    BY FirstIn
  <2> QED
    BY <2>2, <2>3 DEF Step
<1>8. R \in P
  <2> HIDE DEF P
  <2> QED
    BY <1>6, <1>7, SubsetInduction
<1> QED
  BY <1>1, <1>8

\* One element may be counted first, whichever it is
LEMMA SumElement ==
  ASSUME NEW S, IsFiniteSet(S), NEW g \in [S -> Int], NEW R \in SUBSET S
  PROVE  /\ Sum(g, R) \in Int
         /\ R = {} => Sum(g, R) = 0
         /\ \A x \in R : Sum(g, R) = g[x] + Sum(g, R \ {x})
<1>1. PICK f \in [SUBSET S -> Int] : \A s \in SUBSET S : f[s] = Step(g, f, s)
  BY SumsExist
<1>2. \A s \in SUBSET S : Sum(g, s) = f[s]
  BY <1>1, SumIs
<1> DEFINE P == {s \in SUBSET S : \A x \in s : f[s] = g[x] + f[s \ {x}]}
<1>3. \A s \in SUBSET S : (\A x \in s : s \ {x} \in P) => s \in P
  <2> SUFFICES ASSUME NEW s \in SUBSET S, \A x \in s : s \ {x} \in P, NEW x \in s
               PROVE  f[s] = g[x] + f[s \ {x}]
    OBVIOUS
  <2> DEFINE y == First(s)
             a == s \ {x}
             b == s \ {y}
             c == a \ {y}
  <2>1. y \in s /\ y \in S /\ x \in S
    BY FirstIn
  <2>2. f[s] = g[y] + f[b]
    BY <1>1 DEF Step
  <2>3. CASE x = y
    BY <2>2, <2>3
  <2>4. CASE x # y
    <3>1. a \in P /\ b \in P
      BY <2>1
    <3>2. f[a] = g[y] + f[c]
      BY <2>1, <2>4, <3>1
    <3>3. f[b] = g[x] + f[b \ {x}]
      BY <2>1, <2>4, <3>1
    <3>4. b \ {x} = c
      OBVIOUS
    <3>5. g[x] \in Int /\ g[y] \in Int /\ f[c] \in Int
      BY <2>1
    <3>6. \A p, q, r \in Int : p + (q + r) = q + (p + r)
      OBVIOUS
    <3>7. f[s] = g[y] + (g[x] + f[c])
      BY <2>2, <3>3, <3>4
    <3>8. f[s] = g[x] + (g[y] + f[c])
      BY <3>5, <3>6, <3>7
    <3> QED
      BY <3>2, <3>8
  <2> QED
    BY <2>3, <2>4
<1>4. \A s \in SUBSET S : s \in P
  <2> HIDE DEF P
  <2> QED
    BY <1>3, SubsetInduction
<1>5. f[{}] = 0
  BY <1>1 DEF Step
<1>6. \A x \in R : R \ {x} \in SUBSET S
  OBVIOUS
<1> QED
  BY <1>2, <1>4, <1>5, <1>6

\* The sum depends on the values counted only.
LEMMA SumSame ==
  ASSUME NEW R, NEW g, NEW h, \A i \in R : g[i] = h[i]
  PROVE  Sum(g, R) = Sum(h, R)
<1> DEFINE F(f) == [s \in SUBSET R |-> IF s = {} THEN 0
                                     ELSE LET i == CHOOSE i \in s : TRUE
                                          IN  g[i] + f[s \ {i}]]
           G(f) == [s \in SUBSET R |-> IF s = {} THEN 0
                                     ELSE LET i == CHOOSE i \in s : TRUE
                                          IN  h[i] + f[s \ {i}]]
<1>1. /\ Sum(g, R) = (CHOOSE f : f = F(f))[R]
      /\ Sum(h, R) = (CHOOSE f : f = G(f))[R]
  BY DEF Sum, MapThenFoldSet
<1>2. \A f : F(f) = [s \in SUBSET R |-> Step(g, f, s)] /\ G(f) = [s \in SUBSET R |-> Step(h, f, s)]
  BY DEF Step, First
<1>3. \A f : \A s \in SUBSET R : Step(g, f, s) = Step(h, f, s)
  <2> SUFFICES ASSUME NEW f, NEW s \in SUBSET R PROVE Step(g, f, s) = Step(h, f, s)
    OBVIOUS
  <2>1. s # {} => g[First(s)] = h[First(s)]
    BY FirstIn
  <2> QED
    BY <2>1 DEF Step
<1> HIDE DEF F, G
<1>4. \A f : F(f) = G(f)
  BY <1>2, <1>3
<1>5. (CHOOSE f : f = F(f)) = (CHOOSE f : f = G(f))
  BY <1>4
<1> QED
  BY <1>1, <1>5

\* One more element.
LEMMA SumGrows ==
  ASSUME NEW R, IsFiniteSet(R), NEW x, x \notin R, NEW g \in [R \union {x} -> Int]
  PROVE  Sum(g, R) \in Int /\ Sum(g, R \union {x}) = Sum(g, R) + g[x]
<1> DEFINE S == R \union {x}
<1>1. IsFiniteSet(S) /\ R \in SUBSET S /\ S \ {x} = R /\ x \in S /\ g[x] \in Int
  BY FS_AddElement
<1> HIDE DEF S
<1>2. g \in [S -> Int]
  BY DEF S
<1>3. Sum(g, R) \in Int
  BY <1>1, <1>2, SumElement
<1>4. Sum(g, S) = g[x] + Sum(g, R)
  BY <1>1, <1>2, SumElement
<1> QED
  BY <1>1, <1>3, <1>4 DEF S

\* Another value for one element.
LEMMA SumChanges ==
  ASSUME NEW R, IsFiniteSet(R), NEW x \in R, NEW g \in [R -> Int], NEW h \in [R -> Int],
         \A i \in R \ {x} : h[i] = g[i], NEW k \in Int, h[x] = g[x] + k
  PROVE  Sum(g, R) \in Int /\ Sum(h, R) = Sum(g, R) + k
<1> DEFINE gx == g[x]
           rest == Sum(g, R \ {x})
<1>1. R \ {x} \in SUBSET R /\ R \in SUBSET R
  OBVIOUS
<1>2. Sum(h, R \ {x}) = rest
  BY SumSame
<1>3. gx \in Int /\ rest \in Int /\ Sum(g, R) \in Int
  BY <1>1, SumElement
<1>4. Sum(g, R) = gx + rest
  BY <1>1, SumElement
<1>5. Sum(h, R) = (gx + k) + rest
  BY <1>1, <1>2, SumElement
<1> HIDE DEF gx, rest
<1> QED
  BY <1>3, <1>4, <1>5

-----------------------------------------------------------------------------
(***************************************************************************)
(* The positions and the asset hold what the executed orders add up to.    *)
(***************************************************************************)

\* A signed quantity is an integer.
LEMMA SignedFacts ==
    ASSUME NEW dir \in {Long, Short}, NEW qty \in Nat, NEW r, r.dir = dir, r.qty = qty
    PROVE  /\ Signed(r) = IF dir = Long THEN qty ELSE -qty
           /\ Signed(r) \in Int
BY DEF Signed, Long, Short

Counted(margin) == {o \in DOMAIN orders : executed[o] > 0 /\ orders[o].margin = margin}

\* The executed orders are finitely many.
LEMMA CountedFacts ==
    ASSUME TypeOK, NEW margin
    PROVE  IsFiniteSet(Counted(margin)) /\ Counted(margin) \subseteq DOMAIN orders
<1>1. IsFiniteSet(DOMAIN orders)
  BY FS_Interval DEF TypeOK
<1> QED
  BY <1>1, FS_Subset DEF Counted

\* What the orders add up to changes by one that is executed, created now or before.
LEMMA NetServed ==
    ASSUME TypeOK, orders' \in Seq(Offers), executed' \in [Ids -> Nat],
           DOMAIN orders \subseteq DOMAIN orders', DOMAIN orders' \subseteq Ids,
           \A o \in DOMAIN orders : orders'[o] = orders[o],
           NEW n \in DOMAIN orders', executed[n] = 0, executed'[n] = 1,
           DOMAIN orders' \subseteq DOMAIN orders \union {n},
           \A o \in Ids \ {n} : executed'[o] = executed[o],
           NEW margin
    PROVE  /\ Net(margin) \in Int
           /\ Net(margin)' = IF orders'[n].margin = margin
                             THEN Net(margin) + Signed(orders'[n]) ELSE Net(margin)
<1> DEFINE R == Counted(margin)
           g == [o \in DOMAIN orders |-> Signed(orders[o])]
           h == [o \in DOMAIN orders' |-> Signed(orders'[o])]
<1>1. IsFiniteSet(R) /\ R \subseteq DOMAIN orders /\ n \notin R
  <2>1. n \notin R
    BY DEF Counted
  <2> QED
    BY <2>1, CountedFacts
<1>2. \A o \in DOMAIN orders' : h[o] \in Int
  <2> SUFFICES ASSUME NEW o \in DOMAIN orders' PROVE Signed(orders'[o]) \in Int
    OBVIOUS
  <2>1. orders'[o] \in Offers
    OBVIOUS
  <2> QED
    BY <2>1, OfferFacts, SignedFacts
<1>3. Counted(margin)' = IF orders'[n].margin = margin THEN R \union {n} ELSE R
  <2>1. ASSUME NEW o \in DOMAIN orders', o # n
        PROVE  (o \in Counted(margin)') <=> (o \in R)
    <3>1. o \in DOMAIN orders /\ o \in Ids
      BY <2>1
    <3> QED
      BY <2>1, <3>1 DEF Counted
  <2>2. n \in Counted(margin)' <=> orders'[n].margin = margin
    BY DEF Counted
  <2> DEFINE C == Counted(margin)'
  <2>3. C \subseteq DOMAIN orders' /\ R \subseteq DOMAIN orders'
    BY <1>1 DEF Counted
  <2>4. (\A o \in DOMAIN orders' : o # n => (o \in C <=> o \in R)) /\ (n \in C <=> orders'[n].margin = margin)
    BY <2>1, <2>2
  <2> HIDE DEF R, C
  <2>5. C = IF orders'[n].margin = margin THEN R \union {n} ELSE R
    <3>1. ASSUME orders'[n].margin = margin PROVE C = R \union {n}
      BY <1>1, <2>3, <2>4, <3>1
    <3>2. ASSUME orders'[n].margin # margin PROVE C = R
      <4>1. \A o : o \in C <=> o \in R
        BY <1>1, <2>3, <2>4, <3>2
      <4> QED
        BY <4>1
    <3> QED
      BY <3>1, <3>2
  <2> QED
    BY <2>5 DEF C
<1>4. Net(margin) = Sum(g, R)
  BY DEF Net, Counted
<1>5. Net(margin)' = Sum(h, Counted(margin)')
  BY DEF Net, Counted
<1>6. \A o \in R : g[o] = h[o]
  BY <1>1
<1>7. Sum(g, R) = Sum(h, R)
  <2> HIDE DEF g, h, R
  <2> QED
    BY <1>6, SumSame
<1> DEFINE k == [o \in R \union {n} |-> h[o]]
<1>8. k \in [R \union {n} -> Int]
  BY <1>1, <1>2
<1>9. Sum(k, R) \in Int /\ Sum(k, R \union {n}) = Sum(k, R) + k[n]
  <2> HIDE DEF k, R
  <2>1. PICK A, f : A = R /\ f = k
    OBVIOUS
  <2>2. IsFiniteSet(A) /\ n \notin A /\ f \in [A \union {n} -> Int]
    BY <1>1, <1>8, <2>1
  <2>3. Sum(f, A) \in Int /\ Sum(f, A \union {n}) = Sum(f, A) + f[n]
    BY ONLY <2>2, SumGrows
  <2> QED
    BY <2>1, <2>3
<1>10. Sum(k, R) = Sum(h, R) /\ Sum(k, R \union {n}) = Sum(h, R \union {n})
  <2>1. (\A o \in R : k[o] = h[o]) /\ (\A o \in R \union {n} : k[o] = h[o])
    OBVIOUS
  <2> HIDE DEF k, h, R
  <2> QED
    BY <2>1, SumSame
<1>11. k[n] = Signed(orders'[n])
  OBVIOUS
<1> HIDE DEF k, g, h, R
<1> QED
  BY <1>3, <1>4, <1>5, <1>7, <1>9, <1>10, <1>11

\* An order that is created, and not executed, adds nothing.
LEMMA NetCreated ==
    ASSUME TypeOK, DOMAIN orders \subseteq DOMAIN orders',
           \A o \in DOMAIN orders : orders'[o] = orders[o],
           \A o \in DOMAIN orders' \ DOMAIN orders : executed[o] = 0,
           executed' = executed, NEW margin
    PROVE  Net(margin)' = Net(margin)
<1> DEFINE R == Counted(margin)
           g == [o \in DOMAIN orders |-> Signed(orders[o])]
           h == [o \in DOMAIN orders' |-> Signed(orders'[o])]
<1>1. Counted(margin)' = R
  BY DEF Counted
<1>2. Net(margin) = Sum(g, R) /\ Net(margin)' = Sum(h, R)
  BY <1>1 DEF Net, Counted
<1>3. \A o \in R : g[o] = h[o]
  BY DEF Counted
<1> HIDE DEF g, h, R
<1> QED
  BY <1>2, <1>3, SumSame

\* The positions as numbers.
LEMMA HeldSigns ==
    ASSUME NEW s \in Seq(Position), NEW i \in DOMAIN s
    PROVE  Signed(s[i]) \in Int
<1>1. s[i] \in Position
  OBVIOUS
<1>2. s[i].dir \in {Long, Short} /\ s[i].qty \in Nat
  BY <1>1 DEF Position
<1> QED
  BY <1>2, SignedFacts

\* One position more.
LEMMA HeldAppended ==
    ASSUME objects \in Seq(Position), NEW p \in Position, objects' = Append(objects, p)
    PROVE  NetHeld \in Int /\ NetHeld' = NetHeld + Signed(p)
<1> DEFINE R == DOMAIN objects
           n == Len(objects) + 1
           g == [i \in DOMAIN objects |-> Signed(objects[i])]
           h == [i \in DOMAIN objects' |-> Signed(objects'[i])]
<1>1. /\ objects' \in Seq(Position) /\ DOMAIN objects' = R \union {n} /\ n \notin R
      /\ objects'[n] = p /\ \A i \in R : objects'[i] = objects[i]
  BY AppendFacts
<1>2. IsFiniteSet(R)
  BY FS_Interval
<1>3. \A i \in DOMAIN objects' : h[i] \in Int
  BY <1>1, HeldSigns
<1>4. h \in [R \union {n} -> Int]
  BY <1>1, <1>3
<1>5. NetHeld = Sum(g, R) /\ NetHeld' = Sum(h, R \union {n})
  BY <1>1 DEF NetHeld
<1>6. (\A i \in R : g[i] = h[i]) /\ h[n] = Signed(p)
  BY <1>1
<1> HIDE DEF g, h, R, n
<1>7. Sum(g, R) = Sum(h, R)
  BY <1>6, SumSame
<1>8. Sum(h, R) \in Int /\ Sum(h, R \union {n}) = Sum(h, R) + h[n]
  BY <1>1, <1>2, <1>4, SumGrows
<1> QED
  BY <1>5, <1>6, <1>7, <1>8

\* One position changes.
LEMMA HeldReplaced ==
    ASSUME objects \in Seq(Position), NEW n \in DOMAIN objects, NEW p \in Position,
           objects' = [objects EXCEPT ![n] = p], NEW k \in Int,
           Signed(p) = Signed(objects[n]) + k
    PROVE  NetHeld \in Int /\ NetHeld' = NetHeld + k
<1> DEFINE R == DOMAIN objects
           g == [i \in DOMAIN objects |-> Signed(objects[i])]
           h == [i \in DOMAIN objects' |-> Signed(objects'[i])]
<1>1. /\ objects' \in Seq(Position) /\ DOMAIN objects' = R
      /\ objects'[n] = p /\ \A i \in R \ {n} : objects'[i] = objects[i]
  BY ReplaceFacts
<1>2. IsFiniteSet(R)
  BY FS_Interval
<1>3. g \in [R -> Int] /\ h \in [R -> Int]
  BY <1>1, HeldSigns
<1>4. NetHeld = Sum(g, R) /\ NetHeld' = Sum(h, R)
  BY <1>1 DEF NetHeld
<1>5. (\A i \in R \ {n} : h[i] = g[i]) /\ h[n] = g[n] + k
  BY <1>1
<1> HIDE DEF g, h
<1>6. n \in R
  OBVIOUS
<1> HIDE DEF R
<1>7. Sum(g, R) \in Int /\ Sum(h, R) = Sum(g, R) + k
  BY <1>2, <1>3, <1>5, <1>6, SumChanges
<1> QED
  BY <1>4, <1>7

\* The only position that is opened and not empty is that of the market.
OneOpened ==
    \A i \in DOMAIN objects : objects[i].state = "opened" /\ objects[i].qty > 0 => i = current

\* An executed order changes the position by its quantity, whether it opens,
\* increases, reduces or reverses it.
LEMMA MarginOrderNet ==
    ASSUME TypeOK, OneOpened, NEW r \in Offers, MarginOrder(r)
    PROVE  NetHeld' = NetHeld + Signed(r) /\ OneOpened'
<1>1. r.dir \in {Long, Short} /\ r.qty \in Nat
  BY OfferFacts
<1>2. objects \in Seq(Position) /\ current \in 0..Len(objects) /\ Len(objects) \in Nat
  BY DEF TypeOK
<1>3. CASE ~Opened
  <2> DEFINE new == Held(r.dir, r.qty, "opened")
  <2>1. new \in Position /\ Signed(new) = Signed(r)
    BY <1>1, HeldFacts DEF Held, Signed
  <2>2. objects' = Append(objects, new) /\ current' = Len(objects) + 1
    BY <1>3 DEF MarginOrder
  <2> HIDE DEF new
  <2>3. NetHeld' = NetHeld + Signed(r)
    BY <1>2, <2>1, <2>2, HeldAppended
  <2>4. /\ DOMAIN objects' = DOMAIN objects \union {Len(objects) + 1}
        /\ \A i \in DOMAIN objects : objects'[i] = objects[i]
    BY <1>2, <2>1, <2>2, AppendFacts
  <2>5. \A i \in DOMAIN objects : ~(objects[i].state = "opened" /\ objects[i].qty > 0)
    BY <1>2, <1>3 DEF OneOpened, Opened, None
  <2>6. OneOpened'
    BY <2>2, <2>4, <2>5 DEF OneOpened
  <2> QED
    BY <2>3, <2>6
<1>4. CASE Opened
  <2> DEFINE p == objects[current]
             new == IF p.dir = r.dir THEN Held(p.dir, p.qty + r.qty, "opened")
                    ELSE IF p.qty >= r.qty THEN Held(p.dir, p.qty - r.qty, "opened")
                    ELSE Held(r.dir, r.qty - p.qty, "opened")
  <2>1. current \in DOMAIN objects
    BY <1>2, <1>4 DEF Opened, None
  <2>2. objects' = [objects EXCEPT ![current] = new] /\ current' = current
    BY <1>4 DEF MarginOrder
  <2>3. p \in Position
    BY <1>2, <2>1
  <2>4. p.dir \in {Long, Short} /\ p.qty \in Nat
    <3> HIDE DEF p
    <3> QED
      BY <2>3 DEF Position
  <2> DEFINE a == p.dir
             b == p.qty
             c == r.dir
             d == r.qty
  <2>5. new = IF a = c THEN Held(a, b + d, "opened")
              ELSE IF b >= d THEN Held(a, b - d, "opened") ELSE Held(c, d - b, "opened")
    OBVIOUS
  <2>6. a \in {Long, Short} /\ b \in Nat /\ c \in {Long, Short} /\ d \in Nat
    BY <1>1, <2>4
  <2>7. Signed(p) = a * b /\ Signed(r) = c * d
    BY DEF Signed
  <2> HIDE DEF new, a, b, c, d
  <2>8. new \in Position
    BY <2>5, <2>6, HeldFacts
  <2>9. Signed(new) = a * b + c * d /\ c * d \in Int
    BY <2>5, <2>6 DEF Signed, Held, Long, Short
  <2> HIDE DEF p
  <2>10. NetHeld' = NetHeld + Signed(r)
    BY <1>2, <2>1, <2>2, <2>7, <2>8, <2>9, HeldReplaced DEF p
  <2>11. OneOpened'
    BY <1>2, <2>1, <2>2 DEF OneOpened
  <2> QED
    BY <2>10, <2>11
<1> QED
  BY <1>3, <1>4

NetInv == PaperInv /\ NetPosition

\* The parts of NetPosition.
LEMMA NetParts ==
    NetPosition <=> (NetHeld = Net(TRUE) /\ asset = Net(FALSE) /\ OneOpened)
BY DEF NetPosition, OneOpened

\* Nothing changes when nothing is executed, created nor closed.
LEMMA NetUnchanged ==
    ASSUME NetInv, UNCHANGED <<orders, executed, objects, current, asset>>
    PROVE  NetPosition'
BY DEF NetInv, NetPosition, NetHeld, Net

\* An order executed, of the book or just created.
LEMMA NetExecuted ==
    ASSUME NetInv, PaperInv', NEW th \in Threads, NEW o \in DOMAIN orders', NEW r \in Offers,
           orders'[o] = r, executed[o] = 0, Execute(th, o, r),
           DOMAIN orders \subseteq DOMAIN orders', DOMAIN orders' \subseteq DOMAIN orders \union {o},
           \A n \in DOMAIN orders : orders'[n] = orders[n]
    PROVE  NetPosition'
<1>1. /\ TypeOK /\ orders' \in Seq(Offers) /\ executed' \in [Ids -> Nat] /\ DOMAIN orders' \subseteq Ids
      /\ asset \in Nat
  <2>1. TypeOK /\ TypeOK'
    BY DEF NetInv, PaperInv
  <2>2. orders' \in Seq(Offers) /\ Len(orders') <= MaxOrders /\ asset \in Nat /\ executed' \in [Ids -> Nat]
    BY <2>1 DEF TypeOK
  <2>3. DOMAIN orders' \subseteq Ids
    BY <2>2, PaperAssumption DEF Ids
  <2> QED
    BY <2>1, <2>2, <2>3
<1>2. executed'[o] = 1 /\ \A n \in Ids \ {o} : executed'[n] = executed[n]
  BY <1>1 DEF Execute, TypeOK
<1>3. /\ Net(TRUE) \in Int
      /\ Net(TRUE)' = IF r.margin = TRUE THEN Net(TRUE) + Signed(r) ELSE Net(TRUE)
  BY <1>1, <1>2, NetServed
<1>4. /\ Net(FALSE) \in Int
      /\ Net(FALSE)' = IF r.margin = FALSE THEN Net(FALSE) + Signed(r) ELSE Net(FALSE)
  BY <1>1, <1>2, NetServed
<1>5. NetHeld = Net(TRUE) /\ asset = Net(FALSE) /\ OneOpened
  BY NetParts DEF NetInv
<1>6. r.margin \in BOOLEAN
  BY OfferFacts
<1>7. CASE r.margin
  <2>1. MarginOrder(r) /\ asset' = asset
    BY <1>7 DEF Execute
  <2>2. NetHeld' = NetHeld + Signed(r) /\ OneOpened'
    BY <1>1, <1>5, <2>1, MarginOrderNet
  <2>3. Net(TRUE)' = Net(TRUE) + Signed(r) /\ Net(FALSE)' = Net(FALSE)
    BY <1>3, <1>4, <1>6, <1>7
  <2>4. NetHeld' = Net(TRUE)' /\ asset' = Net(FALSE)' /\ OneOpened'
    BY <1>5, <2>1, <2>2, <2>3
  <2> QED
    BY <2>4, NetParts DEF NetPosition, OneOpened
<1>8. CASE ~r.margin
  <2>1. asset' = asset + Signed(r) /\ objects' = objects /\ current' = current
    BY <1>8 DEF Execute, SpotOrder, Signed
  <2>2. NetHeld' = NetHeld /\ OneOpened'
    BY <1>5, <2>1 DEF NetHeld, OneOpened
  <2>3. Net(TRUE)' = Net(TRUE) /\ Net(FALSE)' = Net(FALSE) + Signed(r)
    BY <1>3, <1>4, <1>6, <1>8
  <2>4. NetHeld' = Net(TRUE)' /\ asset' = Net(FALSE)' /\ OneOpened'
    BY <1>5, <2>1, <2>2, <2>3
  <2> QED
    BY <2>4 DEF NetPosition, OneOpened
<1> QED
  BY <1>6, <1>7, <1>8

\* An order that enters the book.
LEMMA NetEntered ==
    ASSUME NetInv, NEW r \in Offers, Len(orders) + 1 <= MaxOrders, orders' = Append(orders, r),
           UNCHANGED <<executed, objects, current, asset>>
    PROVE  NetPosition'
<1>1. /\ DOMAIN orders' = DOMAIN orders \union {Len(orders) + 1}
      /\ \A o \in DOMAIN orders : orders'[o] = orders[o]
      /\ executed[Len(orders) + 1] = 0
  BY NewOrder DEF NetInv
<1>2. TypeOK
  BY DEF NetInv, PaperInv
<1>3. Net(TRUE)' = Net(TRUE) /\ Net(FALSE)' = Net(FALSE)
  BY <1>1, <1>2, NetCreated
<1>4. NetHeld' = NetHeld
  BY DEF NetHeld
<1> QED
  BY <1>3, <1>4 DEF NetInv, NetPosition

\* An empty position that is closed, or one that was filled in the meantime.
LEMMA ExitNet ==
    ASSUME NetInv, NEW th \in Threads, Exit(th)
    PROVE  NetPosition'
<1> DEFINE i == work[th].object
           p == objects[i]
           new == Held(p.dir, p.qty, "closed")
<1>1. /\ objects \in Seq(Position) /\ work[th].step = "exit"
      /\ \A x \in Threads : /\ work[x].object <= Len(objects)
                            /\ work[x].step \in {"test", "exit"} => work[x].object # None
      /\ work[th].object \in Nat /\ Len(objects) \in Nat
  BY DEF NetInv, PaperInv, TypeOK, Exit, Work
<1>2. i \in DOMAIN objects
  BY <1>1 DEF None
<1>3. p \in Position
  BY <1>1, <1>2
<1>4. /\ objects' = [objects EXCEPT ![i] = new]
      /\ UNCHANGED <<orders, executed, current, asset>>
  BY DEF Exit
<1> HIDE DEF i
<1>5. new \in Position /\ Signed(new) = Signed(p) /\ Signed(p) \in Int
  <2> HIDE DEF p
  <2>1. p.dir \in {Long, Short} /\ p.qty \in Nat
    BY <1>3 DEF Position
  <2> QED
    BY <2>1, HeldFacts, SignedFacts DEF Signed, Held
<1>6. new.state = "closed"
  BY DEF Held
<1> HIDE DEF new
<1>7. NetHeld \in Int /\ NetHeld' = NetHeld + 0
  <2>1. Signed(new) = Signed(objects[i]) + 0 /\ 0 \in Int
    BY <1>5
  <2> HIDE DEF p
  <2>2. objects \in Seq(Position) /\ objects' = [objects EXCEPT ![i] = new] /\ new \in Position
    BY <1>1, <1>4, <1>5
  <2> QED
    BY <1>2, <2>1, <2>2, HeldReplaced
<1>8. OneOpened'
  <2>1. OneOpened
    BY NetParts DEF NetInv
  <2> QED
    BY <1>1, <1>2, <1>4, <1>6, <2>1 DEF OneOpened
<1>9. Net(TRUE)' = Net(TRUE) /\ Net(FALSE)' = Net(FALSE)
  BY <1>4 DEF Net
<1>10. NetHeld' = NetHeld /\ asset' = asset
  BY <1>4, <1>7
<1>11. NetHeld = Net(TRUE) /\ asset = Net(FALSE)
  BY DEF NetInv, NetPosition
<1> QED
  BY <1>8, <1>9, <1>10, <1>11 DEF NetPosition, OneOpened

\* An empty position leaves the list.
LEMMA UpdatePositionsNet ==
    ASSUME NetInv, UpdatePositions
    PROVE  NetPosition'
<1>1. /\ current' = IF current # None /\ objects[current].qty = 0 THEN None ELSE current
      /\ UNCHANGED <<orders, executed, objects, asset>>
  BY DEF UpdatePositions
<1>2. OneOpened'
  <2>1. OneOpened
    BY NetParts DEF NetInv
  <2> SUFFICES ASSUME NEW i \in DOMAIN objects, objects[i].state = "opened", objects[i].qty > 0
               PROVE  i = current'
    BY <1>1 DEF OneOpened
  <2>2. i = current
    BY <2>1 DEF OneOpened
  <2> QED
    BY <1>1, <2>2
<1>3. NetHeld' = NetHeld /\ Net(TRUE)' = Net(TRUE) /\ Net(FALSE)' = Net(FALSE)
  BY <1>1 DEF NetHeld, Net
<1> QED
  BY <1>1, <1>2, <1>3 DEF NetInv, NetPosition, OneOpened

\* An order created at market.
LEMMA CreateMarketNet ==
    ASSUME NetInv, PaperInv', NEW th \in Threads, NEW r \in Offers, CreateMarket(th, r)
    PROVE  NetPosition'
<1> DEFINE new == Len(orders) + 1
<1>1. /\ new <= MaxOrders /\ orders' = Append(orders, r)
      /\ Execute(th, new, r) \/ Reject(th, new, r)
  BY DEF CreateMarket
<1>2. /\ DOMAIN orders' = DOMAIN orders \union {new} /\ orders'[new] = r
      /\ \A o \in DOMAIN orders : orders'[o] = orders[o]
      /\ executed[new] = 0
  BY <1>1, NewOrder DEF NetInv
<1>3. CASE Execute(th, new, r)
  <2> HIDE DEF new
  <2> QED
    BY <1>2, <1>3, NetExecuted
<1>4. CASE Reject(th, new, r)
  BY <1>1, <1>4, NetEntered DEF Reject
<1> QED
  BY <1>1, <1>3, <1>4

\* The next order of the list of the update.
LEMMA UpdateOrderNet ==
    ASSUME NetInv, PaperInv', NEW o \in todo, UpdateOrder(o)
    PROVE  NetPosition'
<1>1. /\ o \in DOMAIN orders /\ executed[o] = 0 /\ orders \in Seq(Offers)
      /\ orders' = orders
  BY DEF NetInv, PaperInv, ListsKnown, NotYet, TypeOK, UpdateOrder
<1>2. orders[o] \in Offers /\ Trader \in Threads
  BY <1>1, ThreadFacts
<1>3. CASE Execute(Trader, o, orders[o])
  BY <1>1, <1>2, <1>3, NetExecuted
<1>4. CASE UNCHANGED <<objects, current, asset, executed>>
  BY <1>1, <1>4, NetUnchanged
<1> QED
  BY <1>3, <1>4 DEF UpdateOrder, Reject

\* At first nothing is executed and nothing held.
LEMMA NetInit == Init => NetPosition
<1> SUFFICES ASSUME Init PROVE NetPosition
  OBVIOUS
<1>1. orders = <<>> /\ objects = <<>> /\ asset = 0
  BY DEF Init
<1>2. IsFiniteSet({})
  BY FS_EmptySet
<1>3. \A g \in [{} -> Int] : Sum(g, {}) = 0
  <2> SUFFICES ASSUME NEW g \in [{} -> Int] PROVE Sum(g, {}) = 0
    OBVIOUS
  <2>1. {} \in SUBSET {}
    OBVIOUS
  <2> QED
    BY <1>2, <2>1, SumElement
<1>4. NetHeld = 0
  <2>1. DOMAIN objects = {} /\ [i \in DOMAIN objects |-> Signed(objects[i])] \in [{} -> Int]
    BY <1>1
  <2> QED
    BY <1>3, <2>1 DEF NetHeld
<1>5. ASSUME NEW margin PROVE Net(margin) = 0
  <2>1. /\ Counted(margin) = {}
        /\ [o \in DOMAIN orders |-> Signed(orders[o])] \in [{} -> Int]
    BY <1>1 DEF Counted
  <2> QED
    BY <1>3, <2>1 DEF Net, Counted
<1>6. \A i \in DOMAIN objects : FALSE
  BY <1>1
<1> QED
  BY <1>1, <1>4, <1>5, <1>6 DEF NetPosition

\* Every step keeps the two sums equal.
LEMMA NetNext == NetInv /\ [Next]_vars => NetInv'
<1> SUFFICES ASSUME NetInv, [Next]_vars PROVE NetPosition'
  BY InvariantNext DEF NetInv
<1>1. PaperInv'
  BY InvariantNext DEF NetInv
<1>2. ASSUME NEW th \in Threads, Release(th) PROVE NetPosition'
  BY <1>2, NetUnchanged, ExitNet DEF Release, Notify, TestEmpty
<1>3. ASSUME NEW th \in Clients, Client(th) PROVE NetPosition'
  <2>1. th \in Threads
    BY ThreadFacts
  <2>2. ASSUME NEW r \in Offers, CreateMarket(th, r) PROVE NetPosition'
    BY <1>1, <2>1, <2>2, CreateMarketNet
  <2>3. ASSUME NEW r \in Offers, CreateOrder(th, r) PROVE NetPosition'
    BY <2>3, NetEntered DEF CreateOrder
  <2>4. ASSUME NEW o \in Ids, CancelOrder(th, o) PROVE NetPosition'
    BY <2>4, NetUnchanged DEF CancelOrder
  <2> QED
    BY <1>3, <2>2, <2>3, <2>4 DEF Client
<1>4. CASE UpdatePositions
  BY <1>4, UpdatePositionsNet
<1>5. CASE Snapshot \/ EndOrders \/ RemoveOrders \/ MovePrice
  BY <1>5, NetUnchanged DEF Snapshot, EndOrders, RemoveOrders, MovePrice
<1>6. ASSUME NEW o \in todo, UpdateOrder(o) PROVE NetPosition'
  BY <1>1, <1>6, UpdateOrderNet
<1>7. CASE UNCHANGED vars
  BY <1>7, NetUnchanged DEF vars
<1> QED
  BY <1>2, <1>3, <1>4, <1>5, <1>6, <1>7 DEF Next, Update

\* Whatever orders are offered, and however their creation, their cancelation and
\* the updates interleave with the closing of empty positions, the positions and
\* the asset hold the sum of the executed orders, and one position is opened.
THEOREM PositionsAddUp == Spec => []NetPosition
<1>1. Init => NetInv
  BY InvariantInit, NetInit DEF NetInv
<1>2. NetInv => NetPosition
  BY DEF NetInv
<1> QED
  BY <1>1, <1>2, NetNext, PTL DEF Spec
=============================================================================

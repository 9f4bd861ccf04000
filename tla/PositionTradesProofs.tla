------------------------ MODULE PositionTradesProofs ------------------------
(***************************************************************************)
(* Proofs about PositionTrades: it is type correct, and once its signals   *)
(* are served the trades and the positions agree, for every set of trades  *)
(* and every quantity.                                                     *)
(***************************************************************************)
EXTENDS PositionTrades, TLAPS

USE PositionAssumption DEF PositionAssumption

-----------------------------------------------------------------------------
(***************************************************************************)
(* What is on its way.  The signals of t that matter are those of its      *)
(* position, and the end of its order.                                     *)
(***************************************************************************)
OpenedSig(t) == Sig("order_opened", t, 0)
DeletedSig(t) == Sig("order_deleted", t, 0)
PositionSig(t) == Sig("position_opened", t, Quantity[t])

OfPosition(s, t) == s.trade = t /\ s.kind \notin OrderKinds

Silent(c, t) == \A i \in 1..Len(c) : ~OfPosition(c[i], t)

Has(c, s) == \E i \in 1..Len(c) : c[i] = s

\* Each tells a quantity that its kind allows,
Fits(s, t) ==
  \/ s.kind = "position_opened" /\ s.quantity = Quantity[t]
  \/ s.kind = "position_updated" /\ s.quantity > 0 /\ s.quantity < Quantity[t]
  \/ s.kind = "position_deleted" /\ s.quantity = 0

Shape(c, t) == \A i \in 1..Len(c) : OfPosition(c[i], t) => Fits(c[i], t)

\* smaller each time,
Falls(c, t) ==
  \A i, j \in 1..Len(c) :
     OfPosition(c[i], t) /\ OfPosition(c[j], t) /\ i < j
        => c[i].quantity > c[j].quantity

\* down to that of the position, q,
Above(c, t, q) == \A i \in 1..Len(c) : OfPosition(c[i], t) => c[i].quantity >= q

Tells(c, t, q) ==
  Silent(c, t) \/ \E i \in 1..Len(c) : OfPosition(c[i], t) /\ c[i].quantity = q

\* from below that the trade knows.
Below(c, t, q) == \A i \in 1..Len(c) : OfPosition(c[i], t) => c[i].quantity < q

NoUpdate(c, t) ==
  \A i \in 1..Len(c) : OfPosition(c[i], t) => c[i].kind # "position_updated"

\* The end of the order comes after the position is opened, and the order itself.
Last(c, t) ==
  \A i, j \in 1..Len(c) : c[i] = PositionSig(t) /\ c[j] = DeletedSig(t) => i < j

First(c, t) ==
  \A j \in 1..Len(c) : c[j] = DeletedSig(t) =>
     \E i \in 1..Len(c) : i < j /\ c[i] = OpenedSig(t)

\* What is on its way agrees with the position p, with the last k signals of the
\* execution still to be sent.
Signals(t, p, k, c) ==
  /\ Shape(c, t) /\ Falls(c, t) /\ Last(c, t)
  /\ Above(c, t, p.quantity) /\ Tells(c, t, p.quantity)
  /\ p.state = "none" => /\ Silent(c, t) /\ ~Has(c, DeletedSig(t))
                         /\ k = 0 /\ p.quantity = 0
  /\ p.state = "opened" => p.quantity > 0 /\ p.quantity <= Quantity[t]
  /\ p.state = "closed" => p.quantity = 0
  /\ k >= 2 => /\ Silent(c, t) /\ ~Has(c, DeletedSig(t))
               /\ p.state = "opened" /\ p.quantity = Quantity[t]

\* A signal at the end of the channel
LEMMA Appended ==
  ASSUME NEW c \in Seq(Signal), NEW s \in Signal
  PROVE  /\ Append(c, s) \in Seq(Signal)
         /\ Len(Append(c, s)) = Len(c) + 1
         /\ Append(c, s)[Len(c) + 1] = s
         /\ \A i \in 1..Len(c) : Append(c, s)[i] = c[i] /\ c[i] \in Signal
         /\ Len(c) \in Nat
  OBVIOUS

\* A signal taken at its head
LEMMA Taken ==
  ASSUME NEW c \in Seq(Signal), c # <<>>
  PROVE  /\ Tail(c) \in Seq(Signal)
         /\ Len(Tail(c)) = Len(c) - 1 /\ Len(c) \in Nat /\ Len(c) > 0
         /\ c[1] = Head(c) /\ Head(c) \in Signal
         /\ \A i \in 1..Len(Tail(c)) : Tail(c)[i] = c[i + 1]
  OBVIOUS

\* A signal that is not of the position of t, nor the end of its order, changes
\* nothing for t
LEMMA QuietAppended ==
  ASSUME NEW t \in Trades, NEW c \in Seq(Signal), NEW s \in Signal, NEW q \in Nat,
         ~OfPosition(s, t), s # DeletedSig(t)
  PROVE  LET d == Append(c, s)
         IN  /\ Shape(c, t) => Shape(d, t)
             /\ Falls(c, t) => Falls(d, t)
             /\ Last(c, t) => Last(d, t)
             /\ Above(c, t, q) => Above(d, t, q)
             /\ Tells(c, t, q) => Tells(d, t, q)
             /\ Below(c, t, q) => Below(d, t, q)
             /\ NoUpdate(c, t) => NoUpdate(d, t)
             /\ First(c, t) => First(d, t)
             /\ Silent(c, t) <=> Silent(d, t)
             /\ Has(c, DeletedSig(t)) <=> Has(d, DeletedSig(t))
             /\ Has(c, PositionSig(t)) => Has(d, PositionSig(t))
             /\ Has(c, OpenedSig(t)) => Has(d, OpenedSig(t))
<1> DEFINE d == Append(c, s)
<1>1. /\ d \in Seq(Signal) /\ Len(d) = Len(c) + 1 /\ d[Len(c) + 1] = s /\ Len(c) \in Nat
      /\ \A i \in 1..Len(c) : d[i] = c[i]
  BY Appended
<1> HIDE DEF d
<1>2. s # PositionSig(t)
  BY DEF PositionSig, Sig, OfPosition, OrderKinds
<1>3. \A i \in 1..Len(d) : i \in 1..Len(c) \/ (i = Len(c) + 1 /\ d[i] = s)
  BY <1>1
<1>4. Shape(c, t) => Shape(d, t)
  BY <1>1, <1>3 DEF Shape
<1>5. Falls(c, t) => Falls(d, t)
  BY <1>1, <1>3 DEF Falls
<1>6. Last(c, t) => Last(d, t)
  BY <1>1, <1>2, <1>3 DEF Last
<1>7. Above(c, t, q) => Above(d, t, q)
  BY <1>1, <1>3 DEF Above
<1>8. Silent(c, t) <=> Silent(d, t)
  BY <1>1, <1>3 DEF Silent
<1>9. Tells(c, t, q) => Tells(d, t, q)
  BY <1>1, <1>3, <1>8 DEF Tells
<1>10. Below(c, t, q) => Below(d, t, q)
  BY <1>1, <1>3 DEF Below
<1>11. NoUpdate(c, t) => NoUpdate(d, t)
  BY <1>1, <1>3 DEF NoUpdate
<1>12. First(c, t) => First(d, t)
  BY <1>1, <1>3 DEF First
<1>13. Has(c, DeletedSig(t)) <=> Has(d, DeletedSig(t))
  BY <1>1, <1>3 DEF Has
<1>14. /\ Has(c, PositionSig(t)) => Has(d, PositionSig(t))
       /\ Has(c, OpenedSig(t)) => Has(d, OpenedSig(t))
  BY <1>1, <1>3 DEF Has
<1> QED BY <1>4, <1>5, <1>6, <1>7, <1>8, <1>9, <1>10, <1>11, <1>12, <1>13, <1>14 DEF d

\* The end of the order of t comes after what was there
LEMMA DeletedAppended ==
  ASSUME NEW t \in Trades, NEW c \in Seq(Signal), NEW q \in Nat
  PROVE  LET d == Append(c, DeletedSig(t))
         IN  /\ Shape(c, t) => Shape(d, t)
             /\ Falls(c, t) => Falls(d, t)
             /\ Last(c, t) => Last(d, t)
             /\ Above(c, t, q) => Above(d, t, q)
             /\ Tells(c, t, q) => Tells(d, t, q)
             /\ Below(c, t, q) => Below(d, t, q)
             /\ NoUpdate(c, t) => NoUpdate(d, t)
             /\ First(c, t) /\ Has(c, OpenedSig(t)) => First(d, t)
             /\ Silent(c, t) <=> Silent(d, t)
             /\ Has(c, PositionSig(t)) => Has(d, PositionSig(t))
             /\ Has(c, OpenedSig(t)) => Has(d, OpenedSig(t))
<1> DEFINE s == DeletedSig(t)
           d == Append(c, s)
<1>1. s \in Signal /\ ~OfPosition(s, t) /\ s # PositionSig(t)
  BY DEF DeletedSig, PositionSig, Sig, Signal, OfPosition, OrderKinds
<1>2. /\ d \in Seq(Signal) /\ Len(d) = Len(c) + 1 /\ d[Len(c) + 1] = s /\ Len(c) \in Nat
      /\ \A i \in 1..Len(c) : d[i] = c[i]
  BY Appended, <1>1
<1> HIDE DEF d, s
<1>3. \A i \in 1..Len(d) : i \in 1..Len(c) \/ (i = Len(c) + 1 /\ d[i] = s)
  BY <1>2
<1>4. Shape(c, t) => Shape(d, t)
  BY <1>1, <1>2, <1>3 DEF Shape
<1>5. Falls(c, t) => Falls(d, t)
  BY <1>1, <1>2, <1>3 DEF Falls
<1>6. Last(c, t) => Last(d, t)
  BY <1>1, <1>2, <1>3 DEF Last
<1>7. Above(c, t, q) => Above(d, t, q)
  BY <1>1, <1>2, <1>3 DEF Above
<1>8. Silent(c, t) <=> Silent(d, t)
  BY <1>1, <1>2, <1>3 DEF Silent
<1>9. Tells(c, t, q) => Tells(d, t, q)
  BY <1>1, <1>2, <1>3, <1>8 DEF Tells
<1>10. Below(c, t, q) => Below(d, t, q)
  BY <1>1, <1>2, <1>3 DEF Below
<1>11. NoUpdate(c, t) => NoUpdate(d, t)
  BY <1>1, <1>2, <1>3 DEF NoUpdate
<1>12. First(c, t) /\ Has(c, OpenedSig(t)) => First(d, t)
  BY <1>1, <1>2, <1>3 DEF First, Has
<1>13. /\ Has(c, PositionSig(t)) => Has(d, PositionSig(t))
       /\ Has(c, OpenedSig(t)) => Has(d, OpenedSig(t))
  BY <1>2, <1>3 DEF Has
<1> QED BY <1>4, <1>5, <1>6, <1>7, <1>8, <1>9, <1>10, <1>11, <1>12, <1>13 DEF d, s

\* A signal of the position of t that tells less than those before it
LEMMA PositionAppended ==
  ASSUME NEW t \in Trades, NEW c \in Seq(Signal), NEW s \in Signal,
         OfPosition(s, t), Fits(s, t), NEW q \in Nat, NEW r \in Nat,
         Shape(c, t), Falls(c, t), Last(c, t), Above(c, t, q), s.quantity < q \/ Silent(c, t),
         s = PositionSig(t) => ~Has(c, DeletedSig(t))
  PROVE  LET d == Append(c, s)
         IN  /\ Shape(d, t) /\ Falls(d, t) /\ Last(d, t)
             /\ Above(d, t, s.quantity) /\ Tells(d, t, s.quantity)
             /\ ~Silent(d, t)
             /\ Below(c, t, r) /\ s.quantity < r => Below(d, t, r)
             /\ NoUpdate(c, t) /\ s.kind # "position_updated" => NoUpdate(d, t)
             /\ First(c, t) => First(d, t)
             /\ Has(c, DeletedSig(t)) <=> Has(d, DeletedSig(t))
             /\ Has(c, PositionSig(t)) => Has(d, PositionSig(t))
             /\ Has(c, OpenedSig(t)) => Has(d, OpenedSig(t))
             /\ Has(d, s)
<1> DEFINE d == Append(c, s)
<1>0. \A v \in Signal : v.quantity \in Nat
  BY DEF Signal
<1>1. /\ d \in Seq(Signal) /\ Len(d) = Len(c) + 1 /\ d[Len(c) + 1] = s /\ Len(c) \in Nat
      /\ \A i \in 1..Len(c) : i \in 1..Len(d) /\ d[i] = c[i] /\ c[i].quantity \in Nat
  BY Appended, <1>0
<1> HIDE DEF d
<1>2. s # DeletedSig(t) /\ s # OpenedSig(t) /\ s.quantity \in Nat
  BY DEF DeletedSig, OpenedSig, Sig, Signal, OfPosition, OrderKinds
<1>3. \A i \in 1..Len(d) : i \in 1..Len(c) \/ (i = Len(c) + 1 /\ d[i] = s)
  BY <1>1
<1>4. Shape(d, t)
  BY <1>1, <1>3 DEF Shape
<1>5. Falls(d, t)
  <2> SUFFICES ASSUME NEW i \in 1..Len(d), NEW j \in 1..Len(d),
                      OfPosition(d[i], t), OfPosition(d[j], t), i < j
               PROVE  d[i].quantity > d[j].quantity
    BY DEF Falls
  <2>1. i \in 1..Len(c)
    BY <1>1
  <2>2. CASE j \in 1..Len(c)
    BY <1>1, <2>1, <2>2 DEF Falls
  <2>3. CASE j = Len(c) + 1
    <3>1. ~Silent(c, t) /\ d[i] = c[i]
      BY <1>1, <2>1 DEF Silent
    <3>2. c[i].quantity >= q /\ s.quantity < q
      BY <1>1, <2>1, <3>1 DEF Above
    <3> QED BY <1>1, <1>2, <2>1, <2>3, <3>1, <3>2
  <2> QED BY <1>3, <2>2, <2>3
<1>6. Last(d, t)
  BY <1>1, <1>2, <1>3 DEF Last, Has
<1>7. Above(d, t, s.quantity)
  BY <1>1, <1>2, <1>3 DEF Above, Silent
<1>8. Len(c) + 1 \in 1..Len(d)
  BY <1>1
<1>9. Tells(d, t, s.quantity) /\ ~Silent(d, t) /\ Has(d, s)
  BY <1>1, <1>8 DEF Tells, Silent, Has
<1>10. Below(c, t, r) /\ s.quantity < r => Below(d, t, r)
  BY <1>1, <1>2, <1>3 DEF Below
<1>11. NoUpdate(c, t) /\ s.kind # "position_updated" => NoUpdate(d, t)
  BY <1>1, <1>3 DEF NoUpdate
<1>12. First(c, t) => First(d, t)
  BY <1>1, <1>2, <1>3 DEF First
<1>13. Has(c, DeletedSig(t)) <=> Has(d, DeletedSig(t))
  BY <1>1, <1>2, <1>3 DEF Has
<1>14. /\ Has(c, PositionSig(t)) => Has(d, PositionSig(t))
       /\ Has(c, OpenedSig(t)) => Has(d, OpenedSig(t))
  BY <1>1 DEF Has
<1> QED BY <1>4, <1>5, <1>6, <1>7, <1>9, <1>10, <1>11, <1>12, <1>13, <1>14 DEF d

\* What leaves the channel of another trade, or an order's signal, changes nothing
\* for t but the beginning
LEMMA HeadTaken ==
  ASSUME NEW t \in Trades, NEW c \in Seq(Signal), c # <<>>, NEW q \in Nat
  PROVE  LET d == Tail(c)
             s == Head(c)
         IN  /\ Shape(c, t) => Shape(d, t)
             /\ Falls(c, t) => Falls(d, t)
             /\ Last(c, t) => Last(d, t)
             /\ Above(c, t, q) => Above(d, t, q)
             /\ Below(c, t, q) => Below(d, t, q)
             /\ NoUpdate(c, t) => NoUpdate(d, t)
             /\ Silent(c, t) => Silent(d, t)
             /\ ~Has(c, DeletedSig(t)) => ~Has(d, DeletedSig(t))
             /\ s # OpenedSig(t) /\ First(c, t) => First(d, t)
             /\ s # OpenedSig(t) /\ Has(c, OpenedSig(t)) => Has(d, OpenedSig(t))
             /\ s # PositionSig(t) /\ Has(c, PositionSig(t)) => Has(d, PositionSig(t))
             /\ ~OfPosition(s, t) /\ Tells(c, t, q) => Tells(d, t, q)
             /\ ~OfPosition(s, t) /\ Silent(d, t) => Silent(c, t)
             /\ Tells(c, t, q) /\ Above(c, t, q) /\ Falls(c, t) => Tells(d, t, q)
             /\ OfPosition(s, t) /\ Falls(c, t) => Below(d, t, s.quantity)
             /\ Falls(c, t) /\ Tells(c, t, q) /\ OfPosition(s, t) /\ Silent(d, t)
                  => s.quantity = q
             /\ s = DeletedSig(t) /\ Last(c, t) => ~Has(c, PositionSig(t))
             /\ s = DeletedSig(t) => ~First(c, t)
<1> DEFINE d == Tail(c)
           s == Head(c)
<1>1. /\ d \in Seq(Signal) /\ Len(d) = Len(c) - 1 /\ Len(c) \in Nat /\ Len(c) > 0
      /\ c[1] = s /\ s \in Signal /\ 1 \in 1..Len(c)
      /\ \A i \in 1..Len(d) : i + 1 \in 1..Len(c) /\ 1 < i + 1 /\ d[i] = c[i + 1]
  BY Taken
<1>2. \A i \in 1..Len(c) : i = 1 \/ (i - 1 \in 1..Len(d) /\ c[i] = d[i - 1])
  BY <1>1
<1> HIDE DEF d, s
<1>3. Shape(c, t) => Shape(d, t)
  BY <1>1 DEF Shape
<1>4. Falls(c, t) => Falls(d, t)
  <2> SUFFICES ASSUME Falls(c, t), NEW i \in 1..Len(d), NEW j \in 1..Len(d),
                      OfPosition(d[i], t), OfPosition(d[j], t), i < j
               PROVE  d[i].quantity > d[j].quantity
    BY DEF Falls
  <2>1. i + 1 < j + 1
    OBVIOUS
  <2>2. c[i + 1].quantity > c[j + 1].quantity
    BY <1>1, <2>1 DEF Falls
  <2> QED BY <1>1, <2>2
<1>5. Last(c, t) => Last(d, t)
  <2> SUFFICES ASSUME Last(c, t), NEW i \in 1..Len(d), NEW j \in 1..Len(d),
                      d[i] = PositionSig(t), d[j] = DeletedSig(t)
               PROVE  i < j
    BY DEF Last
  <2>1. i + 1 < j + 1
    BY <1>1 DEF Last
  <2> QED BY <2>1
<1>6. (Above(c, t, q) => Above(d, t, q)) /\ (Below(c, t, q) => Below(d, t, q))
  BY <1>1 DEF Above, Below
<1>7. (NoUpdate(c, t) => NoUpdate(d, t)) /\ (Silent(c, t) => Silent(d, t))
  BY <1>1 DEF NoUpdate, Silent
<1>8. ~Has(c, DeletedSig(t)) => ~Has(d, DeletedSig(t))
  BY <1>1 DEF Has
<1>9. ASSUME s # OpenedSig(t), First(c, t)
      PROVE  First(d, t)
  <2> SUFFICES ASSUME NEW j \in 1..Len(d), d[j] = DeletedSig(t)
               PROVE  \E i \in 1..Len(d) : i < j /\ d[i] = OpenedSig(t)
    BY DEF First
  <2>1. PICK i \in 1..Len(c) : i < j + 1 /\ c[i] = OpenedSig(t)
    BY <1>1, <1>9 DEF First
  <2>2. i # 1
    BY <1>1, <1>9, <2>1
  <2> QED BY <1>1, <1>2, <2>1, <2>2
<1>10. /\ s # OpenedSig(t) /\ Has(c, OpenedSig(t)) => Has(d, OpenedSig(t))
       /\ s # PositionSig(t) /\ Has(c, PositionSig(t)) => Has(d, PositionSig(t))
  BY <1>1, <1>2 DEF Has
<1>11. ~OfPosition(s, t) /\ Silent(d, t) => Silent(c, t)
  BY <1>1, <1>2 DEF Silent
<1>12. ~OfPosition(s, t) /\ Tells(c, t, q) => Tells(d, t, q)
  BY <1>1, <1>2, <1>7 DEF Tells
<1>13. Tells(c, t, q) /\ Above(c, t, q) /\ Falls(c, t) => Tells(d, t, q)
  <2> SUFFICES ASSUME Tells(c, t, q), Above(c, t, q), Falls(c, t),
                      OfPosition(s, t), ~Silent(d, t)
               PROVE  Tells(d, t, q)
    BY <1>12 DEF Tells
  <2>1. PICK i \in 1..Len(d) : OfPosition(d[i], t)
    BY DEF Silent
  <2>2. ~Silent(c, t)
    BY <1>7
  <2>3. PICK j \in 1..Len(c) : OfPosition(c[j], t) /\ c[j].quantity = q
    BY <2>2 DEF Tells
  <2>4. c[1].quantity > c[i + 1].quantity /\ c[i + 1].quantity >= q
    BY <1>1, <2>1 DEF Falls, Above
  <2>5. \A v \in Signal : v.quantity \in Nat
    BY DEF Signal
  <2>6. c[1].quantity \in Nat /\ c[i + 1].quantity \in Nat
    BY <1>1, <2>5
  <2>7. j # 1
    BY <2>3, <2>4, <2>6
  <2> QED BY <1>2, <2>3, <2>7 DEF Tells
<1>14. OfPosition(s, t) /\ Falls(c, t) => Below(d, t, s.quantity)
  <2> SUFFICES ASSUME OfPosition(s, t), Falls(c, t), NEW i \in 1..Len(d), OfPosition(d[i], t)
               PROVE  d[i].quantity < s.quantity
    BY DEF Below
  <2>1. c[1].quantity > c[i + 1].quantity
    BY <1>1 DEF Falls
  <2>2. \A v \in Signal : v.quantity \in Nat
    BY DEF Signal
  <2> QED BY <1>1, <2>1, <2>2
<1>15. Tells(c, t, q) /\ OfPosition(s, t) /\ Silent(d, t) => s.quantity = q
  BY <1>1, <1>2 DEF Tells, Silent
<1>16. s = DeletedSig(t) /\ Last(c, t) => ~Has(c, PositionSig(t))
  BY <1>1 DEF Last, Has
<1>17. s = DeletedSig(t) => ~First(c, t)
  BY <1>1 DEF First
<1> QED BY <1>3, <1>4, <1>5, <1>6, <1>7, <1>8, <1>9, <1>10, <1>11, <1>12, <1>13,
           <1>14, <1>15, <1>16, <1>17 DEF d, s

-----------------------------------------------------------------------------
(***************************************************************************)
(* What a trade u, in the list or not, knows of its position p, when k     *)
(* signals of its execution are still to be sent and c is on its way.      *)
(***************************************************************************)
Position == [state : {"none", "opened", "closed"}, quantity : Nat]

Sound(u, l, p) ==
  /\ u.entry # "deleted"
  /\ u.exit = "filled" => ~l
  /\ u.entry = "canceled" => ~u.ref
  /\ u.pos => p.state # "none"
  /\ u.entry = "rejected" => ~l /\ p.state = "none"

\* It does not know the entry: only one that was canceled will never know it, and
\* leaves the list before the end of the order makes it forget that.
Waiting(t, u, l, p, k, c) ==
  u.e = 0 =>
    /\ u.x = 0 /\ u.quantity = 0 /\ u.entry # "filled" /\ NoUpdate(c, t)
    /\ p.state # "none" /\ k < 2 /\ ~Has(c, PositionSig(t)) => u.entry = "canceled"
    /\ l /\ ~u.ref /\ ~u.pos => u.entry = "canceled"
    /\ l /\ u.entry = "canceled" /\ u.oid /\ ~u.pos =>
         First(c, t) /\ (k = 1 \/ k = 2 => Has(c, OpenedSig(t)))

\* It knows it: what it will be told is less than what it knows, down to nothing.
Entered(t, u, l, p, k, c) ==
  u.e > 0 =>
    /\ p.state # "none" /\ k < 2 /\ u.quantity <= Quantity[t] /\ u.x + u.quantity = u.e
    /\ Below(c, t, u.quantity) /\ (Silent(c, t) => u.quantity = p.quantity)
    /\ l => u.pos /\ u.quantity > 0 /\ u.entry \in {"filled", "canceled"}
    /\ ~l => Silent(c, t) /\ u.quantity = 0

Known(t, u, l, p, k, c) ==
  Sound(u, l, p) /\ Waiting(t, u, l, p, k, c) /\ Entered(t, u, l, p, k, c)

\* The last n signals of an execution
Script(t, n) ==
  CASE n = 1 -> <<DeletedSig(t)>>
    [] n = 2 -> <<PositionSig(t), DeletedSig(t)>>
    [] n = 3 -> <<OpenedSig(t), PositionSig(t), DeletedSig(t)>>

\* A sequence of three signals,
LEMMA Threes ==
  ASSUME NEW x \in Signal, NEW y \in Signal, NEW z \in Signal
  PROVE  /\ <<x, y, z>> \in Seq(Signal) /\ <<x, y, z>> # <<>>
         /\ Len(<<x, y, z>>) = 3 /\ <<x, y, z>>[3] = z
         /\ Head(<<x, y, z>>) = x /\ Tail(<<x, y, z>>) = <<y, z>>
         /\ <<>> \o <<x, y, z>> = <<x, y, z>>
  OBVIOUS

\* and of two,
LEMMA Twos ==
  ASSUME NEW y \in Signal, NEW z \in Signal
  PROVE  /\ <<y, z>> \in Seq(Signal) /\ <<y, z>> # <<>>
         /\ Len(<<y, z>>) = 2 /\ <<y, z>>[2] = z
         /\ Head(<<y, z>>) = y /\ Tail(<<y, z>>) = <<z>>
  OBVIOUS

\* and of one
LEMMA Ones ==
  ASSUME NEW z \in Signal
  PROVE  /\ <<z>> \in Seq(Signal) /\ <<z>> # <<>>
         /\ Len(<<z>>) = 1 /\ <<z>>[1] = z
         /\ Head(<<z>>) = z /\ Tail(<<z>>) = <<>>
  OBVIOUS

\* The signals of an execution, one after the other
LEMMA Scripts ==
  ASSUME NEW t \in Trades
  PROVE  /\ OpenedSig(t) \in Signal /\ PositionSig(t) \in Signal /\ DeletedSig(t) \in Signal
         /\ \A n \in 1..3 : /\ Script(t, n) \in Seq(Signal) /\ Script(t, n) # <<>>
                            /\ Len(Script(t, n)) = n /\ Script(t, n)[n] = DeletedSig(t)
         /\ Head(Script(t, 3)) = OpenedSig(t) /\ Tail(Script(t, 3)) = Script(t, 2)
         /\ Head(Script(t, 2)) = PositionSig(t) /\ Tail(Script(t, 2)) = Script(t, 1)
         /\ Head(Script(t, 1)) = DeletedSig(t) /\ Tail(Script(t, 1)) = <<>>
<1>1. Quantity[t] \in Nat
  OBVIOUS
<1> DEFINE x == OpenedSig(t)
           y == PositionSig(t)
           z == DeletedSig(t)
<1>2. x \in Signal /\ y \in Signal /\ z \in Signal
  BY <1>1 DEF OpenedSig, PositionSig, DeletedSig, Sig, Signal
<1>3. /\ Script(t, 1) = <<z>>
      /\ Script(t, 2) = <<y, z>>
      /\ Script(t, 3) = <<x, y, z>>
  BY DEF Script
<1> HIDE DEF x, y, z
<1>4. \A n \in 1..3 : n = 1 \/ n = 2 \/ n = 3
  OBVIOUS
<1>5. /\ Script(t, 3) \in Seq(Signal) /\ Script(t, 3) # <<>>
      /\ Len(Script(t, 3)) = 3 /\ Script(t, 3)[3] = z
      /\ Head(Script(t, 3)) = x /\ Tail(Script(t, 3)) = Script(t, 2)
  <2>1. /\ <<x, y, z>> \in Seq(Signal) /\ <<x, y, z>> # <<>>
        /\ Len(<<x, y, z>>) = 3 /\ <<x, y, z>>[3] = z
        /\ Head(<<x, y, z>>) = x /\ Tail(<<x, y, z>>) = <<y, z>>
    BY <1>2, Threes
  <2> QED BY ZenonT(30), <1>3, <2>1
<1>6. /\ Script(t, 2) \in Seq(Signal) /\ Script(t, 2) # <<>>
      /\ Len(Script(t, 2)) = 2 /\ Script(t, 2)[2] = z
      /\ Head(Script(t, 2)) = y /\ Tail(Script(t, 2)) = Script(t, 1)
  <2>1. /\ <<y, z>> \in Seq(Signal) /\ <<y, z>> # <<>>
        /\ Len(<<y, z>>) = 2 /\ <<y, z>>[2] = z
        /\ Head(<<y, z>>) = y /\ Tail(<<y, z>>) = <<z>>
    BY <1>2, Twos
  <2> QED BY ZenonT(30), <1>3, <2>1
<1>7. /\ Script(t, 1) \in Seq(Signal) /\ Script(t, 1) # <<>>
      /\ Len(Script(t, 1)) = 1 /\ Script(t, 1)[1] = z
      /\ Head(Script(t, 1)) = z /\ Tail(Script(t, 1)) = <<>>
  BY <1>2, <1>3, Ones
<1>8. \A n \in 1..3 : /\ Script(t, n) \in Seq(Signal) /\ Script(t, n) # <<>>
                      /\ Len(Script(t, n)) = n /\ Script(t, n)[n] = z
  <2> DEFINE P(n) == /\ Script(t, n) \in Seq(Signal) /\ Script(t, n) # <<>>
                      /\ Len(Script(t, n)) = n /\ Script(t, n)[n] = z
  <2>1. P(1) /\ P(2) /\ P(3)
    BY <1>5, <1>6, <1>7
  <2> HIDE DEF P
  <2>2. \A n \in 1..3 : P(n)
    BY <1>4, <2>1
  <2> QED BY <2>2 DEF P
<1> QED
  <2>1. Head(Script(t, 3)) = x /\ Tail(Script(t, 3)) = Script(t, 2)
    BY <1>5
  <2>2. Head(Script(t, 2)) = y /\ Tail(Script(t, 2)) = Script(t, 1)
    BY <1>6
  <2>3. Head(Script(t, 1)) = z /\ Tail(Script(t, 1)) = <<>>
    BY <1>7
  <2> QED BY ZenonT(30), <1>2, <1>8, <2>1, <2>2, <2>3 DEF x, y, z

\* What kind each is
LEMMA ScriptKinds ==
  ASSUME NEW t \in Trades
  PROVE  /\ ~OfPosition(OpenedSig(t), t) /\ ~OfPosition(DeletedSig(t), t)
         /\ OpenedSig(t) # DeletedSig(t) /\ OpenedSig(t) # PositionSig(t)
         /\ PositionSig(t) # DeletedSig(t)
         /\ OfPosition(PositionSig(t), t) /\ Fits(PositionSig(t), t)
         /\ PositionSig(t).quantity = Quantity[t] /\ PositionSig(t).kind = "position_opened"
         /\ Quantity[t] \in Nat /\ Quantity[t] > 0
  BY DEF OpenedSig, PositionSig, DeletedSig, Sig, OfPosition, OrderKinds, Fits

\* A signal of the position of t that opens it is that of its whole quantity
LEMMA PositionSigIs ==
  ASSUME NEW t \in Trades, NEW s \in Signal, OfPosition(s, t), Fits(s, t)
  PROVE  s.kind = "position_opened" <=> s = PositionSig(t)
  BY DEF OfPosition, Fits, PositionSig, Sig, Signal

---------------------------------------------------------------------------
\* What is on its way stays right: after a signal that is not of the position,
LEMMA SignalsQuiet ==
  ASSUME NEW t \in Trades, NEW c \in Seq(Signal), NEW s \in Signal,
         NEW p \in Position, NEW k \in 0..3,
         ~OfPosition(s, t), s # DeletedSig(t), Signals(t, p, k, c)
  PROVE  Signals(t, p, k, Append(c, s))
<1>1. p.quantity \in Nat
  BY DEF Position
<1> QED BY <1>1, QuietAppended DEF Signals

\* after the next one of its execution,
LEMMA SignalsScript ==
  ASSUME NEW t \in Trades, NEW c \in Seq(Signal), NEW p \in Position, NEW k \in 1..3,
         Signals(t, p, k, c)
  PROVE  Signals(t, p, k - 1, Append(c, Head(Script(t, k))))
<1>1. p.quantity \in Nat /\ p.state # "none"
  BY DEF Position, Signals
<1>2. CASE k = 3
  <2>1. Signals(t, p, k, Append(c, OpenedSig(t)))
    BY SignalsQuiet, Scripts, ScriptKinds
  <2> QED BY <1>2, <2>1, Scripts DEF Signals
<1>3. CASE k = 2
  <2> DEFINE s == PositionSig(t)
  <2>1. /\ Silent(c, t) /\ ~Has(c, DeletedSig(t))
        /\ p.state = "opened" /\ p.quantity = Quantity[t]
    BY <1>3 DEF Signals
  <2>2. s \in Signal /\ OfPosition(s, t) /\ Fits(s, t) /\ s.quantity = Quantity[t]
    BY Scripts, ScriptKinds
  <2>3. LET d == Append(c, s)
        IN  /\ Shape(d, t) /\ Falls(d, t) /\ Last(d, t)
            /\ Above(d, t, s.quantity) /\ Tells(d, t, s.quantity)
    BY <1>1, <2>1, <2>2, PositionAppended DEF Signals
  <2> QED BY <1>1, <1>3, <2>1, <2>2, <2>3, Scripts, ScriptKinds DEF Signals
<1>4. CASE k = 1
  BY <1>1, <1>4, DeletedAppended, Scripts DEF Signals
<1> QED BY <1>2, <1>3, <1>4

\* after the position is reduced or closed,
LEMMA SignalsClose ==
  ASSUME NEW t \in Trades, NEW c \in Seq(Signal), NEW s \in Signal,
         NEW p \in Position, NEW k \in 0..3, NEW r \in Position,
         Signals(t, p, k, c), k < 2, p.state = "opened",
         OfPosition(s, t), Fits(s, t), s.quantity < p.quantity, s # PositionSig(t),
         r.quantity = s.quantity,
         r.state = IF s.quantity = 0 THEN "closed" ELSE "opened"
  PROVE  Signals(t, r, k, Append(c, s))
<1>1. p.quantity \in Nat /\ s.quantity \in Nat /\ p.quantity <= Quantity[t]
  BY DEF Position, Signal, Signals
<1>2. LET d == Append(c, s)
      IN  /\ Shape(d, t) /\ Falls(d, t) /\ Last(d, t)
          /\ Above(d, t, s.quantity) /\ Tells(d, t, s.quantity)
  BY <1>1, PositionAppended DEF Signals
<1> QED BY <1>1, <1>2, ScriptKinds DEF Signals

\* when the entry is executed,
LEMMA SignalsExecute ==
  ASSUME NEW t \in Trades, NEW c \in Seq(Signal), NEW p \in Position, NEW k \in 0..3,
         NEW r \in Position, Signals(t, p, k, c), p.state = "none",
         r.state = "opened", r.quantity = Quantity[t]
  PROVE  Signals(t, r, 3, c)
  BY ScriptKinds DEF Signals, Above, Tells, Silent

\* and when a signal is served.
LEMMA SignalsTaken ==
  ASSUME NEW t \in Trades, NEW c \in Seq(Signal), c # <<>>, NEW p \in Position,
         NEW k \in 0..3, Signals(t, p, k, c)
  PROVE  Signals(t, p, k, Tail(c))
<1>1. p.quantity \in Nat
  BY DEF Position
<1> QED BY <1>1, HeadTaken DEF Signals

---------------------------------------------------------------------------
\* The fields of a trade, and of a position
LEMMA Fields ==
  ASSUME NEW u \in Trade, NEW p \in Position
  PROVE  /\ u.e \in Nat /\ u.x \in Nat /\ u.quantity \in Nat /\ p.quantity \in Nat
         /\ u.oid \in BOOLEAN /\ u.ref \in BOOLEAN /\ u.pos \in BOOLEAN
         /\ u.closing \in BOOLEAN
  BY DEF Trade, Position

\* The quantity of a signal, and the signals of a channel
LEMMA SignalFields ==
  /\ \A s \in Signal : s.quantity \in Nat
  /\ \A c \in Seq(Signal) : \A i \in 1..Len(c) : c[i] \in Signal
<1>1. \A s \in Signal : s.quantity \in Nat
  BY DEF Signal
<1>2. \A c \in Seq(Signal) : \A i \in 1..Len(c) : c[i] \in Signal
  OBVIOUS
<1> QED BY <1>1, <1>2

\* What was just sent is on its way
LEMMA AppendHas ==
  ASSUME NEW c \in Seq(Signal), NEW s \in Signal
  PROVE  Has(Append(c, s), s)
<1>1. Append(c, s)[Len(c) + 1] = s /\ Len(c) + 1 \in 1..Len(Append(c, s))
  BY Appended
<1> QED BY <1>1 DEF Has

\* What a trade knows stays right: after a signal that is not of its position,
LEMMA KnownQuiet ==
  ASSUME NEW t \in Trades, NEW c \in Seq(Signal), NEW s \in Signal,
         NEW u \in Trade, NEW l \in BOOLEAN, NEW p \in Position, NEW k \in 0..3,
         ~OfPosition(s, t), s # DeletedSig(t), Known(t, u, l, p, k, c)
  PROVE  Known(t, u, l, p, k, Append(c, s))
<1> DEFINE d == Append(c, s)
<1>1. /\ Below(c, t, u.quantity) => Below(d, t, u.quantity)
      /\ NoUpdate(c, t) => NoUpdate(d, t)
      /\ First(c, t) => First(d, t)
      /\ Silent(c, t) <=> Silent(d, t)
      /\ Has(c, PositionSig(t)) => Has(d, PositionSig(t))
      /\ Has(c, OpenedSig(t)) => Has(d, OpenedSig(t))
  BY QuietAppended, Fields
<1> HIDE DEF d
<1>2. Waiting(t, u, l, p, k, d)
  BY <1>1 DEF Known, Waiting
<1>3. Entered(t, u, l, p, k, d)
  BY <1>1 DEF Known, Entered
<1> QED BY <1>2, <1>3 DEF Known, d

\* after the next one of its execution,
LEMMA KnownScript ==
  ASSUME NEW t \in Trades, NEW c \in Seq(Signal),
         NEW u \in Trade, NEW l \in BOOLEAN, NEW p \in Position, NEW k \in 1..3,
         Signals(t, p, k, c), Known(t, u, l, p, k, c)
  PROVE  Known(t, u, l, p, k - 1, Append(c, Head(Script(t, k))))
<1> DEFINE s == Head(Script(t, k))
           d == Append(c, s)
<1>1. k >= 2 => u.e = 0
  BY Fields DEF Known, Entered
<1>2. CASE k = 3
  <2>1. s = OpenedSig(t) /\ s \in Signal /\ ~OfPosition(s, t) /\ s # DeletedSig(t)
    BY <1>2, Scripts, ScriptKinds
  <2>2. Known(t, u, l, p, k, d) /\ Has(d, OpenedSig(t))
    BY <2>1, KnownQuiet, AppendHas
  <2> HIDE DEF d
  <2> QED BY <1>1, <1>2, <2>2 DEF Known, Waiting, Entered, d
<1>3. CASE k = 2
  <2>1. s = PositionSig(t) /\ s \in Signal
    BY <1>3, Scripts
  <2>2. /\ OfPosition(s, t) /\ Fits(s, t) /\ Silent(c, t) /\ ~Has(c, DeletedSig(t))
        /\ s.kind # "position_updated"
    BY <1>3, <2>1, ScriptKinds DEF Signals
  <2>3. /\ NoUpdate(c, t) => NoUpdate(d, t)
        /\ First(c, t) => First(d, t)
        /\ Has(c, OpenedSig(t)) => Has(d, OpenedSig(t))
        /\ Has(d, PositionSig(t))
    BY <2>1, <2>2, PositionAppended, Fields DEF Signals
  <2> HIDE DEF d
  <2> QED BY <1>1, <1>3, <2>3 DEF Known, Waiting, Entered, d
<1>4. CASE k = 1
  <2>1. s = DeletedSig(t)
    BY <1>4, Scripts
  <2>2. /\ Below(c, t, u.quantity) => Below(d, t, u.quantity)
        /\ NoUpdate(c, t) => NoUpdate(d, t)
        /\ First(c, t) /\ Has(c, OpenedSig(t)) => First(d, t)
        /\ Silent(c, t) <=> Silent(d, t)
        /\ Has(c, PositionSig(t)) => Has(d, PositionSig(t))
    BY <2>1, DeletedAppended, Fields
  <2> HIDE DEF d
  <2>3. Waiting(t, u, l, p, k - 1, d)
    BY <1>4, <2>2 DEF Known, Waiting
  <2>4. Entered(t, u, l, p, k - 1, d)
    BY <1>4, <2>2 DEF Known, Entered
  <2> QED BY <2>3, <2>4 DEF Known, d
<1> QED BY <1>2, <1>3, <1>4

\* after its position is reduced or closed,
LEMMA KnownClose ==
  ASSUME NEW t \in Trades, NEW c \in Seq(Signal), NEW s \in Signal,
         NEW u \in Trade, NEW l \in BOOLEAN, NEW p \in Position, NEW k \in 0..3,
         NEW r \in Position,
         Signals(t, p, k, c), Known(t, u, l, p, k, c), k < 2, p.state = "opened",
         OfPosition(s, t), Fits(s, t), s.quantity < p.quantity, s # PositionSig(t),
         s.kind = "position_updated" => u.e > 0,
         r.state # "none"
  PROVE  Known(t, u, l, r, k, Append(c, s))
<1> DEFINE d == Append(c, s)
<1>1. p.quantity > 0 /\ s.quantity \in Nat
  BY DEF Signals, Signal
<1>2. u.e > 0 => p.quantity <= u.quantity /\ l
  BY <1>1, Fields DEF Known, Entered, Signals, Tells, Below
<1>3. /\ ~Silent(d, t)
      /\ Below(c, t, u.quantity) /\ s.quantity < u.quantity => Below(d, t, u.quantity)
      /\ NoUpdate(c, t) /\ s.kind # "position_updated" => NoUpdate(d, t)
      /\ First(c, t) => First(d, t)
      /\ Has(c, PositionSig(t)) => Has(d, PositionSig(t))
      /\ Has(c, OpenedSig(t)) => Has(d, OpenedSig(t))
  BY PositionAppended, Fields DEF Signals
<1> HIDE DEF d
<1>4. Sound(u, l, r)
  BY DEF Known, Sound
<1>5. Waiting(t, u, l, r, k, d)
  BY <1>3, Fields DEF Known, Waiting
<1>6. Entered(t, u, l, r, k, d)
  BY <1>1, <1>2, <1>3, Fields DEF Known, Entered
<1> QED BY <1>4, <1>5, <1>6 DEF Known, d

\* when its entry is executed,
LEMMA KnownExecute ==
  ASSUME NEW t \in Trades, NEW c \in Seq(Signal),
         NEW u \in Trade, NEW l \in BOOLEAN, NEW p \in Position, NEW k \in 0..3,
         NEW r \in Position,
         Known(t, u, l, p, k, c), p.state = "none", r.state = "opened",
         u.entry # "rejected"
  PROVE  Known(t, u, l, r, 3, c)
<1>1. u.e = 0
  BY Fields DEF Known, Entered
<1> QED BY <1>1 DEF Known, Sound, Waiting, Entered

\* when a signal is served that does not concern it,
LEMMA KnownTaken ==
  ASSUME NEW t \in Trades, NEW c \in Seq(Signal), c # <<>>,
         NEW u \in Trade, NEW l \in BOOLEAN, NEW p \in Position, NEW k \in 0..3,
         Signals(t, p, k, c), Known(t, u, l, p, k, c),
         Head(c).trade # t \/ ~l \/ ~Target(u, Head(c)),
         ~l /\ u.e = 0 /\ p.state # "none" => u.entry = "canceled"
  PROVE  Known(t, u, l, p, k, Tail(c))
<1> DEFINE d == Tail(c)
           s == Head(c)
<1>1. /\ Below(c, t, u.quantity) => Below(d, t, u.quantity)
      /\ NoUpdate(c, t) => NoUpdate(d, t)
      /\ Silent(c, t) => Silent(d, t)
      /\ s # OpenedSig(t) /\ First(c, t) => First(d, t)
      /\ s # OpenedSig(t) /\ Has(c, OpenedSig(t)) => Has(d, OpenedSig(t))
      /\ s # PositionSig(t) /\ Has(c, PositionSig(t)) => Has(d, PositionSig(t))
      /\ ~OfPosition(s, t) /\ Silent(d, t) => Silent(c, t)
  BY HeadTaken, Fields
<1>2. s \in Signal /\ 1 \in 1..Len(c) /\ s = c[1]
  BY Taken
<1>3. s.trade # t \/ ~l \/ ~Target(u, s)
  OBVIOUS
<1> HIDE DEF d, s
<1>4. s = PositionSig(t) \/ OfPosition(s, t) => ~l \/ (~u.pos /\ (s = PositionSig(t) => ~u.ref))
  BY <1>3 DEF Target, OfPosition, OrderKinds, PositionSig, Sig
<1>5. s = OpenedSig(t) => ~l \/ ~u.oid
  BY <1>3 DEF Target, OrderKinds, OpenedSig, Sig
<1>6. u.e > 0 => ~OfPosition(s, t)
  BY <1>2, <1>4 DEF Known, Entered, Silent
<1>7. Waiting(t, u, l, p, k, d)
  BY <1>1, <1>4, <1>5 DEF Known, Waiting
<1>8. Entered(t, u, l, p, k, d)
  BY <1>1, <1>6 DEF Known, Entered
<1> QED BY <1>7, <1>8 DEF Known, d

---------------------------------------------------------------------------
\* What a signal does to the fields: that of an order,
LEMMA OrderSignalIs ==
  ASSUME NEW u \in Trade, NEW s \in Signal
  PROVE  LET v == OrderSignal(u, s)
         IN  /\ v \in Trade /\ v.e = u.e /\ v.x = u.x /\ v.quantity = u.quantity
             /\ v.pos = u.pos /\ v.exit = u.exit
             /\ s.kind = "order_opened" =>
                  /\ ~u.ref => v = u
                  /\ u.ref => v.oid /\ v.ref
                              /\ v.entry = (IF u.e = 0 THEN "opened" ELSE u.entry)
             /\ s.kind # "order_opened" /\ u.oid =>
                  /\ ~v.oid /\ ~v.ref
                  /\ v.entry = (IF u.pos THEN u.entry
                                ELSE IF s.kind = "order_deleted" THEN "deleted"
                                ELSE "canceled")
<1>1. CASE s.kind = "order_opened"
  BY <1>1 DEF OrderSignal, Trade
<1>2. CASE s.kind = "order_deleted"
  BY <1>2 DEF OrderSignal, Trade
<1>3. CASE s.kind # "order_opened" /\ s.kind # "order_deleted"
  BY <1>3 DEF OrderSignal, Trade
<1> QED BY <1>1, <1>2, <1>3

\* of the signal that opens the position,
LEMMA PositionOpenedIs ==
  ASSUME NEW u \in Trade, NEW q \in Nat, u.e = 0, u.quantity = 0
  PROVE  LET v == PositionOpened(u, q)
         IN  /\ v \in Trade /\ v.e = q /\ v.quantity = q /\ v.x = u.x /\ v.exit = u.exit
             /\ v.pos /\ v.entry = "filled" /\ ~v.oid /\ ~v.ref
<1>1. u.e + q - u.quantity = q
  OBVIOUS
<1>2. PositionOpened(u, q) =
        [u EXCEPT !.pos = TRUE, !.e = q, !.quantity = q, !.entry = "filled",
                  !.oid = FALSE, !.ref = FALSE]
  BY <1>1 DEF PositionOpened, Trade
<1> QED BY <1>2 DEF Trade

\* of one that reduces it,
LEMMA PositionUpdatedIs ==
  ASSUME NEW u \in Trade, NEW q \in Nat, q < u.quantity, q > 0, u.x + u.quantity = u.e
  PROVE  LET v == PositionUpdated(u, q)
         IN  /\ v \in Trade /\ v.e = u.e /\ v.quantity = q /\ v.x + q = u.e
             /\ v.exit = "partially_filled" /\ v.pos = u.pos /\ v.entry = u.entry
             /\ v.oid = u.oid /\ v.ref = u.ref
<1> DEFINE x == u.x + u.quantity - q
<1>1. u.x \in Nat /\ u.quantity \in Nat /\ u.e \in Nat
  BY Fields DEF Trade
<1>2. x \in Nat /\ x + q = u.e /\ ~(x >= u.e)
  BY <1>1
<1>3. PositionUpdated(u, q) =
        [u EXCEPT !.x = x, !.quantity = q, !.exit = "partially_filled"]
  BY <1>2 DEF PositionUpdated, Trade
<1> HIDE DEF x
<1> QED BY <1>2, <1>3 DEF Trade

\* and of the one that closes it.
LEMMA PositionDeletedIs ==
  ASSUME NEW u \in Trade
  PROVE  LET v == PositionDeleted(u)
         IN  /\ v \in Trade /\ v.e = u.e /\ v.quantity = 0 /\ v.x = u.e
             /\ v.exit = "filled" /\ ~v.pos /\ v.entry = u.entry /\ ~v.oid /\ ~v.ref
  BY DEF PositionDeleted, Trade

---------------------------------------------------------------------------
\* when a signal of its order is served,
LEMMA KnownOrder ==
  ASSUME NEW t \in Trades, NEW c \in Seq(Signal), c # <<>>,
         NEW u \in Trade, NEW p \in Position, NEW k \in 0..3,
         Signals(t, p, k, c), Known(t, u, TRUE, p, k, c),
         Head(c).trade = t, Head(c).kind \in OrderKinds, Head(c).quantity = 0,
         Target(u, Head(c)),
         NEW v \in Trade, v = OrderSignal(u, Head(c)), NEW l \in BOOLEAN, l = ~CanDelete(v)
  PROVE  /\ Known(t, v, l, p, k, Tail(c))
         /\ ~l /\ v.e = 0 => v.entry \in {"rejected", "canceled"}
         /\ v.entry # "rejected"
<1> DEFINE d == Tail(c)
           s == Head(c)
<1>1. /\ Below(c, t, u.quantity) => Below(d, t, u.quantity)
      /\ NoUpdate(c, t) => NoUpdate(d, t)
      /\ Silent(c, t) => Silent(d, t)
      /\ s # PositionSig(t) /\ Has(c, PositionSig(t)) => Has(d, PositionSig(t))
      /\ ~OfPosition(s, t) /\ Silent(d, t) => Silent(c, t)
      /\ s = DeletedSig(t) /\ Last(c, t) => ~Has(c, PositionSig(t))
      /\ s = DeletedSig(t) => ~First(c, t)
      /\ s # OpenedSig(t) /\ First(c, t) => First(d, t)
      /\ s # OpenedSig(t) /\ Has(c, OpenedSig(t)) => Has(d, OpenedSig(t))
  BY HeadTaken, Fields
<1>2. /\ s \in Signal /\ s = c[1] /\ 1 \in 1..Len(c)
      /\ s.trade = t /\ s.kind \in OrderKinds /\ s.quantity = 0 /\ Target(u, s)
  BY Taken
<1>3. /\ v.e = u.e /\ v.x = u.x /\ v.quantity = u.quantity /\ v.pos = u.pos /\ v.exit = u.exit
      /\ s.kind = "order_opened" =>
           /\ ~u.ref => v = u
           /\ u.ref => v.oid /\ v.ref
                       /\ v.entry = (IF u.e = 0 THEN "opened" ELSE u.entry)
      /\ s.kind # "order_opened" /\ u.oid =>
           /\ ~v.oid /\ ~v.ref
           /\ v.entry = (IF u.pos THEN u.entry
                         ELSE IF s.kind = "order_deleted" THEN "deleted" ELSE "canceled")
  BY <1>2, OrderSignalIs
<1> HIDE DEF d, s
<1>4. ~OfPosition(s, t) /\ s # PositionSig(t)
  BY <1>2 DEF OfPosition, PositionSig, Sig, OrderKinds
<1>5. s.kind = "order_deleted" => s = DeletedSig(t)
  BY <1>2 DEF DeletedSig, Sig, Signal
<1>6. s.kind # "order_opened" => u.oid
  BY <1>2 DEF Target
<1>7. s.kind = "order_opened" => u.oid \/ u.ref
  BY <1>2 DEF Target
<1>8. s.kind = "order_deleted" => u.pos
  <2> SUFFICES ASSUME s.kind = "order_deleted", ~u.pos
               PROVE  FALSE
    OBVIOUS
  <2>1. u.e = 0 /\ u.oid
    BY <1>6, Fields DEF Known, Entered
  <2>2. Has(c, DeletedSig(t)) /\ ~Has(c, PositionSig(t))
    BY <1>1, <1>2, <1>5 DEF Has, Signals
  <2>3. p.state # "none" /\ k < 2
    BY <2>2 DEF Signals
  <2>4. First(c, t)
    BY <2>1, <2>2, <2>3 DEF Known, Waiting
  <2> QED BY <1>1, <1>5, <2>4
<1>9. Sound(u, TRUE, p) /\ (u.e = 0 => u.x = 0 /\ u.quantity = 0 /\ u.entry # "filled")
  BY DEF Known, Waiting
<1>10. v.entry # "deleted" /\ (u.pos /\ u.e > 0 => v.entry = u.entry)
  BY <1>3, <1>6, <1>7, <1>8, <1>9 DEF Sound
<1>11. v.e > 0 => l /\ v.entry = u.entry
  <2> SUFFICES ASSUME u.e > 0
               PROVE  l /\ v.entry = u.entry
    BY <1>3
  <2>1. u.pos /\ v.entry = u.entry /\ u.entry \in {"filled", "canceled"}
    BY <1>10 DEF Known, Entered
  <2> QED BY <1>3, <1>9, <2>1, Fields DEF CanDelete, Sound
<1>12. Entered(t, v, l, p, k, d)
  BY <1>1, <1>3, <1>4, <1>11 DEF Known, Entered
<1>13. v.entry = "canceled" => ~v.ref
  BY <1>3, <1>6, <1>7, <1>9 DEF Sound
<1>14. Sound(v, l, p)
  BY <1>3, <1>6, <1>7, <1>9, <1>10, <1>13 DEF Sound
<1>15. u.e = 0 /\ u.entry = "canceled" => v.entry = "canceled"
  BY <1>3, <1>6, <1>7, <1>8, <1>9 DEF Sound
<1>16. v.entry = "canceled" /\ v.e = 0 => ~l
  BY DEF CanDelete
<1>17. v.e = 0 /\ ~v.ref /\ ~v.pos => v.entry = "canceled"
  BY <1>3, <1>6, <1>7, <1>8, <1>15 DEF Known, Waiting
<1>18. Waiting(t, v, l, p, k, d)
  BY <1>1, <1>3, <1>4, <1>6, <1>7, <1>9, <1>15, <1>16, <1>17 DEF Known, Waiting
<1>19. ~l /\ v.e = 0 => v.entry \in {"rejected", "canceled"}
  BY <1>3, <1>9, <1>10 DEF CanDelete, Sound
<1>20. v.entry # "rejected"
  BY <1>3, <1>6, <1>7, <1>9 DEF Sound
<1> QED BY <1>12, <1>14, <1>18, <1>19, <1>20 DEF Known, d

\* when one of its position is,
LEMMA KnownPosition ==
  ASSUME NEW t \in Trades, NEW c \in Seq(Signal), c # <<>>,
         NEW u \in Trade, NEW p \in Position, NEW k \in 0..3,
         Signals(t, p, k, c), Known(t, u, TRUE, p, k, c),
         Head(c).trade = t, Head(c).kind \notin OrderKinds,
         Target(u, Head(c))
  PROVE  LET v == PositionSignal(u, Head(c))
             l == ~IsClosed(v)
         IN  /\ v \in Trade /\ Known(t, v, l, p, k, Tail(c))
             /\ ~l /\ v.e = 0 => v.entry \in {"rejected", "canceled"}
             /\ v.entry # "rejected"
<1> DEFINE d == Tail(c)
           s == Head(c)
<1>1. /\ Below(c, t, u.quantity) => Below(d, t, u.quantity)
      /\ NoUpdate(c, t) => NoUpdate(d, t)
      /\ Silent(c, t) => Silent(d, t)
      /\ s # PositionSig(t) /\ Has(c, PositionSig(t)) => Has(d, PositionSig(t))
      /\ OfPosition(s, t) /\ Falls(c, t) => Below(d, t, s.quantity)
      /\ Falls(c, t) /\ Tells(c, t, p.quantity) /\ OfPosition(s, t) /\ Silent(d, t)
           => s.quantity = p.quantity
  BY HeadTaken, Fields
<1>2. /\ s \in Signal /\ s = c[1] /\ 1 \in 1..Len(c) /\ s.quantity \in Nat
      /\ OfPosition(s, t) /\ Target(u, s)
  BY Taken, SignalFields DEF OfPosition
<1>3. \A i \in 1..Len(d) : d[i] \in Signal /\ d[i].quantity \in Nat
  BY Taken, SignalFields
<1> HIDE DEF d, s
<1>4. ~Silent(c, t) /\ Fits(s, t)
  BY <1>2 DEF Silent, Signals, Shape
<1>5. p.state # "none" /\ k < 2
  BY <1>4 DEF Signals
<1>6. Below(d, t, s.quantity) /\ (Silent(d, t) => s.quantity = p.quantity)
  BY <1>1, <1>2 DEF Signals
<1>7. u.exit # "filled" /\ u.entry # "rejected" /\ u.entry # "deleted"
  BY DEF Known, Sound
<1>8. CASE s.kind = "position_opened"
  <2> DEFINE v == PositionOpened(u, s.quantity)
  <2>1. s = PositionSig(t) /\ s.quantity = Quantity[t]
    BY <1>2, <1>4, <1>8, PositionSigIs, ScriptKinds
  <2>2. u.e = 0
    <3>1. u.e > 0 => Quantity[t] < u.quantity /\ u.quantity <= Quantity[t]
      BY <1>2, <2>1 DEF Known, Entered, Below
    <3> QED BY <3>1, Fields, ScriptKinds
  <2>3. u.x = 0 /\ u.quantity = 0
    BY <2>2 DEF Known, Waiting
  <2>4. /\ v \in Trade /\ v.e = Quantity[t] /\ v.quantity = Quantity[t] /\ v.x = 0
        /\ v.exit = u.exit /\ v.pos /\ v.entry = "filled" /\ ~v.oid /\ ~v.ref
    BY <1>2, <2>1, <2>2, <2>3, PositionOpenedIs
  <2>5. PositionSignal(u, s) = v
    BY <1>8 DEF PositionSignal
  <2> HIDE DEF v
  <2>6. Quantity[t] > 0 /\ Quantity[t] \in Nat
    BY ScriptKinds
  <2>7. ~IsClosed(v)
    BY <1>7, <2>4 DEF IsClosed
  <2>8. Sound(v, TRUE, p) /\ Waiting(t, v, TRUE, p, k, d)
    BY <1>5, <1>7, <2>4, <2>6 DEF Sound, Waiting
  <2>9. Entered(t, v, TRUE, p, k, d)
    BY <1>5, <1>6, <2>1, <2>4, <2>6 DEF Entered
  <2> QED BY <1>7, <2>4, <2>5, <2>7, <2>8, <2>9 DEF Known, d, s
<1>9. CASE s.kind = "position_updated"
  <2> DEFINE v == PositionUpdated(u, s.quantity)
  <2>1. s.quantity > 0
    BY <1>4, <1>9 DEF Fits
  <2>2. u.e > 0
    BY <1>2, <1>9, Fields DEF Known, Waiting, NoUpdate
  <2>3. /\ s.quantity < u.quantity /\ u.x + u.quantity = u.e /\ u.pos
        /\ u.entry \in {"filled", "canceled"} /\ u.quantity <= Quantity[t]
    BY <1>2, <2>2 DEF Known, Entered, Below
  <2>4. /\ v \in Trade /\ v.e = u.e /\ v.quantity = s.quantity /\ v.x + s.quantity = u.e
        /\ v.exit = "partially_filled" /\ v.pos = u.pos /\ v.entry = u.entry
        /\ v.oid = u.oid /\ v.ref = u.ref
    BY <1>2, <2>1, <2>3, PositionUpdatedIs
  <2>5. PositionSignal(u, s) = v
    BY <1>9 DEF PositionSignal
  <2> HIDE DEF v
  <2>6. ~IsClosed(v)
    BY <2>4 DEF IsClosed
  <2>7. Sound(v, TRUE, p) /\ Waiting(t, v, TRUE, p, k, d)
    BY <1>5, <2>2, <2>4, Fields DEF Known, Sound, Waiting
  <2>8. s.quantity <= Quantity[t]
    BY <1>2, <2>3, Fields, ScriptKinds
  <2>9. Entered(t, v, TRUE, p, k, d)
    BY <1>5, <1>6, <2>1, <2>3, <2>4, <2>8 DEF Entered
  <2> QED BY <1>7, <2>4, <2>5, <2>6, <2>7, <2>9 DEF Known, d, s
<1>10. CASE s.kind = "position_deleted"
  <2> DEFINE v == PositionDeleted(u)
  <2>1. s.quantity = 0 /\ s # PositionSig(t)
    BY <1>4, <1>10, ScriptKinds DEF Fits
  <2>2. Silent(d, t)
    BY <1>3, <1>6, <2>1 DEF Silent, Below
  <2>3. /\ v \in Trade /\ v.e = u.e /\ v.quantity = 0 /\ v.x = u.e
        /\ v.exit = "filled" /\ ~v.pos /\ v.entry = u.entry /\ ~v.oid /\ ~v.ref
    BY PositionDeletedIs
  <2>4. PositionSignal(u, s) = v
    BY <1>10 DEF PositionSignal
  <2> HIDE DEF v
  <2>5. IsClosed(v)
    BY <2>3 DEF IsClosed
  <2>6. ~Has(d, PositionSig(t))
    BY <2>2, ScriptKinds DEF Has, Silent
  <2>7. ~Has(c, PositionSig(t))
    BY <1>1, <2>1, <2>6
  <2>8. u.e = 0 => u.entry = "canceled" /\ NoUpdate(c, t) /\ u.entry # "filled"
    BY <1>5, <2>7 DEF Known, Waiting
  <2>9. Sound(v, FALSE, p)
    BY <1>7, <2>3 DEF Known, Sound
  <2>10. Waiting(t, v, FALSE, p, k, d)
    BY <1>1, <2>3, <2>8 DEF Waiting
  <2>11. Entered(t, v, FALSE, p, k, d)
    BY <1>5, <1>6, <2>1, <2>2, <2>3, Fields, ScriptKinds DEF Entered, Below, Silent
  <2> QED BY <1>7, <2>3, <2>4, <2>5, <2>8, <2>9, <2>10, <2>11 DEF Known, d, s
<1> QED BY <1>2, <1>4, <1>8, <1>9, <1>10 DEF Fits

---------------------------------------------------------------------------
\* when create_order returned,
LEMMA KnownCalled ==
  ASSUME NEW t \in Trades, NEW c \in Seq(Signal),
         NEW u \in Trade, NEW l \in BOOLEAN, NEW p \in Position, NEW k \in 0..3,
         Signals(t, p, k, c), Known(t, u, l, p, k, c),
         NEW v \in Trade, v.e = u.e, v.x = u.x, v.quantity = u.quantity,
         v.entry = u.entry, v.exit = u.exit, v.ref = u.ref, v.pos <=> p.state # "none"
  PROVE  Known(t, v, l, p, k, c)
<1>1. /\ v.e = u.e /\ v.x = u.x /\ v.quantity = u.quantity /\ v.entry = u.entry
      /\ v.exit = u.exit /\ v.ref = u.ref /\ (v.pos <=> p.state # "none")
  OBVIOUS
<1>2. v.pos \/ (~u.pos /\ ~Has(c, DeletedSig(t)) /\ k = 0)
  BY <1>1 DEF Signals, Known, Sound
<1>3. Sound(v, l, p)
  BY <1>1 DEF Known, Sound
<1>4. First(c, t) \/ v.pos
  BY <1>2 DEF First, Has
<1>5. Waiting(t, v, l, p, k, c)
  BY <1>1, <1>2, <1>4 DEF Known, Waiting
<1>6. Entered(t, v, l, p, k, c)
  BY <1>1 DEF Known, Entered
<1> QED BY <1>3, <1>5, <1>6 DEF Known

\* or was refused;
LEMMA KnownRefused ==
  ASSUME NEW t \in Trades, NEW c \in Seq(Signal),
         NEW u \in Trade, NEW l \in BOOLEAN, NEW p \in Position, NEW k \in 0..3,
         Known(t, u, l, p, k, c), p.state = "none",
         NEW v \in Trade, v = [u EXCEPT !.entry = "rejected"]
  PROVE  Known(t, v, FALSE, p, k, c)
<1>1. /\ v.e = u.e /\ v.x = u.x /\ v.quantity = u.quantity /\ v.entry = "rejected"
      /\ v.exit = u.exit /\ v.pos = u.pos
  BY DEF Trade
<1>2. u.e = 0
  BY Fields DEF Known, Entered
<1> QED BY <1>1, <1>2 DEF Known, Sound, Waiting, Entered

\* when its entry order is canceled, before or after more than nothing of it was
\* executed,
LEMMA KnownCanceled ==
  ASSUME NEW t \in Trades, NEW c \in Seq(Signal),
         NEW u \in Trade, NEW p \in Position, NEW k \in 0..3,
         Known(t, u, TRUE, p, k, c),
         NEW v \in Trade, v.e = u.e, v.x = u.x, v.quantity = u.quantity,
         v.exit = u.exit, v.pos = u.pos, ~v.oid, ~v.ref,
         v.entry = "canceled" \/ (u.e > 0 /\ v.entry = "filled")
  PROVE  Known(t, v, TRUE, p, k, c)
  BY DEF Known, Sound, Waiting, Entered

\* when it leaves the list,
LEMMA KnownCleaned ==
  ASSUME NEW t \in Trades, NEW c \in Seq(Signal),
         NEW u \in Trade, NEW p \in Position, NEW k \in 0..3,
         Known(t, u, TRUE, p, k, c), CanDelete(u)
  PROVE  Known(t, u, FALSE, p, k, c) /\ u.e = 0 /\ u.entry = "canceled"
<1>1. u.e = 0 /\ u.entry = "canceled"
  BY Fields DEF CanDelete, Known, Sound, Waiting, Entered
<1> QED BY <1>1 DEF Known, Sound, Waiting, Entered

\* and when it is opened.
LEMMA KnownNew ==
  ASSUME NEW t \in Trades, NEW c \in Seq(Signal),
         NEW p \in Position, p.state = "none", Signals(t, p, 0, c),
         NEW v \in Trade, v = [NewTrade EXCEPT !.ref = TRUE]
  PROVE  Known(t, v, TRUE, p, 0, c) /\ v.entry = "new"
<1>1. /\ v.e = 0 /\ v.x = 0 /\ v.quantity = 0 /\ v.entry = "new"
      /\ v.exit = "new" /\ v.ref /\ ~v.pos
  BY DEF NewTrade
<1>2. NoUpdate(c, t)
  BY DEF Signals, Silent, NoUpdate
<1> QED BY <1>1, <1>2 DEF Known, Sound, Waiting, Entered

-----------------------------------------------------------------------------
(***************************************************************************)
(* The signals the threads still have to send.                             *)
(***************************************************************************)
Busy(S, th, t) == \E n \in 1..3 : S[th] = Script(t, n)

Left(S, t) ==
  IF Busy(S, t, t) THEN Len(S[t]) ELSE IF Busy(S, Paper, t) THEN Len(S[Paper]) ELSE 0

Idle(S, t) == S[t] = <<>> \/ S[t] = <<OpenedSig(t)>>

\* One thread at most executes t, and what it has to send is the end of a script;
\* the signals of a market order are sent before open goes on.
Sends(S) ==
  /\ \A t \in Trades : Idle(S, t) \/ Busy(S, t, t)
  /\ \A t \in Trades : ~(Busy(S, t, t) /\ Busy(S, Paper, t))
  /\ S[Paper] = <<>> \/ \E t \in Trades : Busy(S, Paper, t)

\* An execution is that of one trade
LEMMA ScriptOfOne ==
  ASSUME NEW t \in Trades, NEW v \in Trades, NEW n \in 1..3, NEW m \in 1..3
  PROVE  /\ Script(t, n) = Script(v, m) => t = v /\ n = m
         /\ Script(t, n) # <<>> /\ Script(t, n) # <<OpenedSig(v)>>
<1>1. DeletedSig(t) = DeletedSig(v) => t = v
  BY DEF DeletedSig, Sig
<1>2. DeletedSig(t) # OpenedSig(v)
  BY DEF DeletedSig, OpenedSig, Sig
<1>3. /\ Len(Script(t, n)) = n /\ Script(t, n)[n] = DeletedSig(t) /\ Script(t, n) # <<>>
      /\ Len(Script(v, m)) = m /\ Script(v, m)[m] = DeletedSig(v)
  BY Scripts
<1>4. Len(<<OpenedSig(v)>>) = 1 /\ <<OpenedSig(v)>>[1] = OpenedSig(v)
  BY Ones, Scripts
<1>5. ASSUME Script(t, n) = Script(v, m)
      PROVE  t = v /\ n = m
  <2>1. n = m
    BY <1>3, <1>5
  <2> QED BY <1>1, <1>3, <1>5, <2>1
<1>6. ASSUME Script(t, n) = <<OpenedSig(v)>>
      PROVE  FALSE
  <2>1. n = 1
    BY <1>3, <1>4, <1>6
  <2>2. Script(t, n)[1] = <<OpenedSig(v)>>[1]
    BY <1>6
  <2> QED BY <1>2, <1>3, <1>4, <2>1, <2>2
<1> QED BY <1>3, <1>5, <1>6

\* How much of the execution of t is left
LEMMA LeftIs ==
  ASSUME NEW S, NEW t \in Trades, Sends(S)
  PROVE  /\ \A th \in {t, Paper}, n \in 1..3 : S[th] = Script(t, n) => Left(S, t) = n
         /\ ~Busy(S, t, t) /\ ~Busy(S, Paper, t) => Left(S, t) = 0
         /\ Left(S, t) \in 0..3
<1>1. ASSUME NEW th \in {t, Paper}, NEW n \in 1..3, S[th] = Script(t, n)
      PROVE  Left(S, t) = n
  <2>1. Busy(S, th, t) /\ Len(S[th]) = n
    BY <1>1, Scripts DEF Busy
  <2> QED BY <2>1 DEF Left, Sends
<1>2. ~Busy(S, t, t) /\ ~Busy(S, Paper, t) => Left(S, t) = 0
  BY DEF Left
<1>3. CASE \E th \in {t, Paper} : Busy(S, th, t)
  <2>1. PICK th \in {t, Paper}, n \in 1..3 : S[th] = Script(t, n)
    BY <1>3 DEF Busy
  <2>2. Left(S, t) = n
    BY <1>1, <2>1
  <2> QED BY <1>1, <1>2, <2>2
<1>4. CASE ~\E th \in {t, Paper} : Busy(S, th, t)
  BY <1>1, <1>2, <1>4
<1> QED BY <1>3, <1>4

\* It does not depend on what the threads do for others
LEMMA LeftSame ==
  ASSUME NEW S, NEW R, NEW t \in Trades, Sends(S), Sends(R),
         \A th \in {t, Paper}, n \in 1..3 : R[th] = Script(t, n) <=> S[th] = Script(t, n)
  PROVE  Left(R, t) = Left(S, t)
<1>1. \A th \in {t, Paper} : Busy(R, th, t) <=> Busy(S, th, t)
  BY DEF Busy
<1>2. CASE \E th \in {t, Paper} : Busy(S, th, t)
  <2>1. PICK th \in {t, Paper}, n \in 1..3 : S[th] = Script(t, n)
    BY <1>2 DEF Busy
  <2>2. R[th] = Script(t, n)
    BY <2>1
  <2> QED BY <2>1, <2>2, LeftIs
<1>3. CASE ~\E th \in {t, Paper} : Busy(S, th, t)
  BY <1>1, <1>3, LeftIs
<1> QED BY <1>2, <1>3

\* A thread sent its next signal, s: that of the order of t, or the next one of its
\* execution
SentFrom(S, R, th) ==
  S[th] # <<>> /\ R[th] = Tail(S[th]) /\ \A o \in Threads \ {th} : R[o] = S[o]

SentFor(S, R, s, t) ==
  /\ \A v \in Trades \ {t} : Left(R, v) = Left(S, v)
  /\ \/ s = OpenedSig(t) /\ Left(R, t) = Left(S, t)
     \/ \E n \in 1..3 : s = Head(Script(t, n)) /\ Left(S, t) = n /\ Left(R, t) = n - 1

\* Each signal that is sent is one or the other
LEMMA SendsNext ==
  ASSUME NEW S, NEW R, NEW th \in Threads, Sends(S), SentFrom(S, R, th)
  PROVE  Sends(R) /\ \E t \in Trades : SentFor(S, R, Head(S[th]), t)
<1> USE DEF SentFrom, SentFor
<1>2. /\ R[th] = Tail(S[th])
      /\ \A o \in Threads : o # th => R[o] = S[o]
      /\ Paper \in Threads /\ Trades \subseteq Threads /\ Paper \notin Trades
  BY DEF Threads
<1>3. CASE th \in Trades /\ S[th] = <<OpenedSig(th)>>
  <2>1. R[th] = <<>> /\ Head(S[th]) = OpenedSig(th)
    BY <1>2, <1>3, Ones, Scripts
  <2>2. \A n \in 1..3 : S[th] # Script(th, n) /\ R[th] # Script(th, n)
    BY <1>3, <2>1, ScriptOfOne
  <2>3. \A v \in Trades : \A o \in {v, Paper}, n \in 1..3 :
          R[o] = Script(v, n) <=> S[o] = Script(v, n)
    BY <1>2, <1>3, <2>2
  <2>4. \A v \in Trades : \A o \in {v, Paper} : Busy(R, o, v) <=> Busy(S, o, v)
    BY <2>3 DEF Busy
  <2>5. Sends(R)
    BY <1>2, <1>3, <2>1, <2>4 DEF Sends, Idle
  <2>6. \A v \in Trades : Left(R, v) = Left(S, v)
    <3> SUFFICES ASSUME NEW v \in Trades PROVE Left(R, v) = Left(S, v)
      OBVIOUS
    <3>1. \A o \in {v, Paper}, n \in 1..3 : R[o] = Script(v, n) <=> S[o] = Script(v, n)
      BY <2>3
    <3> QED BY <2>5, <3>1, LeftSame
  <2> QED BY <1>3, <2>1, <2>5, <2>6
<1>4. CASE \E t \in Trades, n \in 1..3 : th \in {t, Paper} /\ S[th] = Script(t, n)
  <2>1. PICK t \in Trades, n \in 1..3 : th \in {t, Paper} /\ S[th] = Script(t, n)
    BY <1>4
  <2>2. Left(S, t) = n
    BY <2>1, LeftIs
  <2>3. \/ n = 1 /\ R[th] = <<>>
        \/ n - 1 \in 1..3 /\ R[th] = Script(t, n - 1)
    <3>1. n = 1 \/ n = 2 \/ n = 3
      OBVIOUS
    <3>2. CASE n = 1
      BY <1>2, <2>1, <3>2, Scripts
    <3>3. CASE n = 2
      BY <1>2, <2>1, <3>3, Scripts
    <3>4. CASE n = 3
      BY <1>2, <2>1, <3>4, Scripts
    <3> QED BY <3>1, <3>2, <3>3, <3>4
  <2>4. \A v \in Trades, m \in 1..3 : S[th] = Script(v, m) => v = t
    <3> SUFFICES ASSUME NEW v \in Trades, NEW m \in 1..3, S[th] = Script(v, m)
                 PROVE  v = t
      OBVIOUS
    <3>1. Script(v, m) = Script(t, n)
      BY <2>1
    <3> QED BY <3>1, ScriptOfOne
  <2>5. \A v \in Trades, m \in 1..3 : R[th] = Script(v, m) => v = t
    <3>1. CASE R[th] = <<>>
      BY <3>1, ScriptOfOne
    <3>2. CASE n - 1 \in 1..3 /\ R[th] = Script(t, n - 1)
      BY <3>2, ScriptOfOne
    <3> QED BY <2>3, <3>1, <3>2
  <2>6. \A v \in Trades \ {t} : \A o \in {v, Paper}, m \in 1..3 :
          R[o] = Script(v, m) <=> S[o] = Script(v, m)
    BY <1>2, <2>1, <2>4, <2>5
  <2>7. \A v \in Trades \ {t} : \A o \in {v, Paper} : Busy(R, o, v) <=> Busy(S, o, v)
    BY <2>6 DEF Busy
  <2>8. Busy(S, th, t) /\ (Busy(R, th, t) \/ R[th] = <<>>)
    BY <2>1, <2>3 DEF Busy
  <2>9. \A o \in {t, Paper} : o # th => (Busy(R, o, t) <=> Busy(S, o, t))
    BY <1>2 DEF Busy
  <2>10. \A v \in Trades : Idle(R, v) \/ Busy(R, v, v)
    <3> SUFFICES ASSUME NEW v \in Trades PROVE Idle(R, v) \/ Busy(R, v, v)
      OBVIOUS
    <3>1. CASE v # th
      BY <1>2, <3>1 DEF Sends, Idle, Busy
    <3>2. CASE v = th
      BY <1>2, <2>1, <2>8, <3>2 DEF Idle
    <3> QED BY <3>1, <3>2
  <2>11. \A v \in Trades : ~(Busy(R, v, v) /\ Busy(R, Paper, v))
    <3> SUFFICES ASSUME NEW v \in Trades PROVE ~(Busy(R, v, v) /\ Busy(R, Paper, v))
      OBVIOUS
    <3>1. CASE v # t
      BY <2>7, <3>1 DEF Sends
    <3>2. CASE v = t
      BY <1>2, <2>1, <2>8, <2>9, <3>2 DEF Sends
    <3> QED BY <3>1, <3>2
  <2>12. R[Paper] = <<>> \/ \E v \in Trades : Busy(R, Paper, v)
    <3>1. CASE th = Paper
      BY <2>8, <3>1
    <3>2. CASE th # Paper
      BY <1>2, <3>2 DEF Sends, Busy
    <3> QED BY <3>1, <3>2
  <2>13. Sends(R)
    BY <2>10, <2>11, <2>12 DEF Sends
  <2>14. \A v \in Trades \ {t} : Left(R, v) = Left(S, v)
    <3> SUFFICES ASSUME NEW v \in Trades \ {t} PROVE Left(R, v) = Left(S, v)
      OBVIOUS
    <3>1. \A o \in {v, Paper}, m \in 1..3 : R[o] = Script(v, m) <=> S[o] = Script(v, m)
      BY <2>6
    <3> QED BY <2>13, <3>1, LeftSame
  <2>15. Left(R, t) = n - 1
    <3>1. CASE n - 1 \in 1..3 /\ R[th] = Script(t, n - 1)
      BY <2>1, <2>13, <3>1, LeftIs
    <3>2. CASE n = 1 /\ R[th] = <<>>
      <4>1. ~Busy(R, th, t)
        BY <3>2, ScriptOfOne DEF Busy
      <4>2. ~Busy(R, t, t) /\ ~Busy(R, Paper, t)
        BY <1>2, <2>1, <2>8, <2>9, <4>1 DEF Sends
      <4> QED BY <2>13, <3>2, <4>2, LeftIs
    <3> QED BY <2>3, <3>1, <3>2
  <2> QED BY <2>1, <2>2, <2>13, <2>14, <2>15
<1> QED BY <1>2, <1>3, <1>4 DEF Sends, Idle, Busy, Threads

\* A thread that has nothing to send executes t
LEMMA SendsExecute ==
  ASSUME NEW S, Sends(S), NEW t \in Trades,
         NEW th \in {t, Paper}, S[th] = <<>>, Left(S, t) = 0,
         NEW R, R[th] = Script(t, 3),
         \A o \in Threads \ {th} : R[o] = S[o]
  PROVE  /\ Sends(R) /\ Left(R, t) = 3
         /\ \A v \in Trades \ {t} : Left(R, v) = Left(S, v)
<1>1. th \in Threads /\ Paper \in Threads /\ Trades \subseteq Threads /\ Paper \notin Trades
  BY DEF Threads
<1>3. /\ R[th] = Script(t, 3)
      /\ \A o \in Threads : o # th => R[o] = S[o]
  BY <1>1
<1>4. \A o \in {t, Paper}, n \in 1..3 : S[o] # Script(t, n)
  <2> SUFFICES ASSUME NEW o \in {t, Paper}, NEW n \in 1..3, S[o] = Script(t, n)
               PROVE  FALSE
    OBVIOUS
  <2>1. Left(S, t) = n
    BY LeftIs
  <2> QED BY <2>1
<1>5. ~Busy(S, t, t) /\ ~Busy(S, Paper, t) /\ Busy(R, th, t)
  BY <1>3, <1>4 DEF Busy
<1>6. \A v \in Trades \ {t} : \A o \in {v, Paper}, m \in 1..3 :
        R[o] = Script(v, m) <=> S[o] = Script(v, m)
  BY <1>1, <1>3, ScriptOfOne
<1>7. \A v \in Trades \ {t} : \A o \in {v, Paper} : Busy(R, o, v) <=> Busy(S, o, v)
  BY <1>6 DEF Busy
<1>8. \A o \in {t, Paper} : o # th => ~Busy(R, o, t)
  BY <1>1, <1>3, <1>5 DEF Busy
<1>9. \A v \in Trades : Idle(R, v) \/ Busy(R, v, v)
  <2> SUFFICES ASSUME NEW v \in Trades PROVE Idle(R, v) \/ Busy(R, v, v)
    OBVIOUS
  <2>1. CASE v # th
    BY <1>1, <1>3, <2>1 DEF Sends, Idle, Busy
  <2>2. CASE v = th
    BY <1>1, <1>5, <2>2
  <2> QED BY <2>1, <2>2
<1>10. \A v \in Trades : ~(Busy(R, v, v) /\ Busy(R, Paper, v))
  BY <1>1, <1>7, <1>8 DEF Sends
<1>11. R[Paper] = <<>> \/ \E v \in Trades : Busy(R, Paper, v)
  <2>1. CASE th = Paper
    BY <1>5, <2>1
  <2>2. CASE th # Paper
    BY <1>1, <1>3, <2>2 DEF Sends, Busy
  <2> QED BY <2>1, <2>2
<1>12. Sends(R)
  BY <1>9, <1>10, <1>11 DEF Sends
<1>13. Left(R, t) = 3
  <2>1. 3 \in 1..3
    OBVIOUS
  <2> QED BY <1>3, <1>12, <2>1, LeftIs
<1>14. \A v \in Trades \ {t} : Left(R, v) = Left(S, v)
  <2> SUFFICES ASSUME NEW v \in Trades \ {t} PROVE Left(R, v) = Left(S, v)
    OBVIOUS
  <2>1. \A o \in {v, Paper}, m \in 1..3 : R[o] = Script(v, m) <=> S[o] = Script(v, m)
    BY <1>6
  <2> QED BY <1>12, <2>1, LeftSame
<1> QED BY <1>12, <1>13, <1>14

\* A thread that has nothing to send placed the order of t
PlacedBy(S, R, t) ==
  S[t] = <<>> /\ R[t] = <<OpenedSig(t)>> /\ \A o \in Threads \ {t} : R[o] = S[o]

\* Its signal is not that of an execution
LEMMA SendsOrder ==
  ASSUME NEW S, NEW R, NEW t \in Trades, Sends(S), PlacedBy(S, R, t)
  PROVE  /\ Sends(R)
         /\ \A v \in Trades : Left(R, v) = Left(S, v)
<1> USE DEF PlacedBy
<1>1. t \in Threads /\ Paper \in Threads /\ Trades \subseteq Threads /\ Paper \notin Trades
  BY DEF Threads
<1>3. /\ R[t] = <<OpenedSig(t)>>
      /\ \A o \in Threads : o # t => R[o] = S[o]
  BY <1>1
<1>4. \A v \in Trades : \A o \in {v, Paper}, m \in 1..3 :
        R[o] = Script(v, m) <=> S[o] = Script(v, m)
  BY <1>1, <1>3, ScriptOfOne
<1>5. \A v \in Trades : \A o \in {v, Paper} : Busy(R, o, v) <=> Busy(S, o, v)
  BY <1>4 DEF Busy
<1>6. Sends(R)
  BY <1>1, <1>3, <1>5 DEF Sends, Idle
<1>7. \A v \in Trades : Left(R, v) = Left(S, v)
  <2> SUFFICES ASSUME NEW v \in Trades PROVE Left(R, v) = Left(S, v)
    OBVIOUS
  <2>1. \A o \in {v, Paper}, m \in 1..3 : R[o] = Script(v, m) <=> S[o] = Script(v, m)
    BY <1>4
  <2> QED BY <1>6, <2>1, LeftSame
<1> QED BY <1>6, <1>7

-----------------------------------------------------------------------------
(***************************************************************************)
(* The inductive invariant.                                                *)
(***************************************************************************)
Typed ==
  /\ trade \in [Trades -> Trade]
  /\ listed \subseteq Trades
  /\ opening \in [Trades -> {"no", "called", "refused", "done"}]
  /\ book \subseteq Trades /\ bracket \subseteq Trades
  /\ position \in [Trades -> Position]
  /\ phase \in {"idle", "orders"}
  /\ todo \subseteq Trades /\ rm_list \subseteq Trades
  /\ sending \in [Threads -> Seq(Signal)]
  /\ channel \in Seq(Signal)

Plain(c) == \A i \in 1..Len(c) : c[i].kind \in OrderKinds => c[i].quantity = 0

\* A trade that was not opened is as new, one that was refused has no position, and
\* one that left the list without an entry was refused or canceled.
Started(u, l, o, p) ==
  /\ o = "no" => u = NewTrade /\ ~l /\ p.state = "none"
  /\ o = "refused" => p.state = "none"
  /\ ~l /\ o # "no" /\ u.e = 0 => u.entry \in {"rejected", "canceled"}

Fine(t, u, l, o, p, k, c) ==
  Signals(t, p, k, c) /\ Known(t, u, l, p, k, c) /\ Started(u, l, o, p)

FineAll ==
  \A t \in Trades :
     Fine(t, trade[t], t \in listed, opening[t], position[t], Left(sending, t), channel)

\* An order that can still be executed has no position; an entry that waits for its
\* position's signals has no take-profit and no stop-loss yet.
Booked ==
  /\ phase = "idle" => todo = {} /\ rm_list = {}
  /\ \A t \in Trades :
       /\ t \in todo \/ (t \in book /\ t \notin rm_list) => position[t].state = "none"
       /\ t \in book \/ t \in todo \/ t \in rm_list \/ t \in bracket => opening[t] # "no"
       /\ t \in book \/ t \in todo =>
            opening[t] # "refused" /\ trade[t].entry # "rejected"
       /\ opening[t] # "called" => sending[t] = <<>>
       /\ t \in bracket => sending[t] # Script(t, 2) /\ sending[t] # Script(t, 3)

PositionInv == Typed /\ Plain(channel) /\ Sends(sending) /\ Booked /\ FineAll

\* How much is left is sent by some thread
LEMMA LeftBy ==
  ASSUME NEW S, NEW t \in Trades, Sends(S), Left(S, t) # 0
  PROVE  \E th \in {t, Paper} : S[th] = Script(t, Left(S, t))
<1>1. PICK th \in {t, Paper}, n \in 1..3 : S[th] = Script(t, n)
  BY LeftIs DEF Busy
<1>2. Left(S, t) = n
  BY <1>1, LeftIs
<1> QED BY <1>1, <1>2

\* Order signals carry no quantity, at the end of the channel and after its head
LEMMA PlainKept ==
  ASSUME NEW c \in Seq(Signal), Plain(c)
  PROVE  /\ c # <<>> => Plain(Tail(c))
         /\ \A s \in Signal : (s.kind \in OrderKinds => s.quantity = 0)
                                => Plain(Append(c, s))
<1>1. c # <<>> => Plain(Tail(c))
  BY Taken DEF Plain
<1>2. ASSUME NEW s \in Signal, s.kind \in OrderKinds => s.quantity = 0
      PROVE  Plain(Append(c, s))
  <2>1. \A i \in 1..Len(Append(c, s)) : i \in 1..Len(c) \/ i = Len(c) + 1
    BY Appended
  <2> QED BY <1>2, <2>1, Appended DEF Plain
<1> QED BY <1>1, <1>2

\* A signal of another trade changes nothing for v
LEMMA FineForeign ==
  ASSUME NEW v \in Trades, NEW c \in Seq(Signal), NEW s \in Signal, s.trade # v,
         NEW u \in Trade, NEW l \in BOOLEAN, NEW o, NEW p \in Position, NEW k \in 0..3,
         Fine(v, u, l, o, p, k, c)
  PROVE  Fine(v, u, l, o, p, k, Append(c, s))
<1>1. ~OfPosition(s, v) /\ s # DeletedSig(v)
  BY DEF OfPosition, DeletedSig, Sig
<1> QED BY <1>1, SignalsQuiet, KnownQuiet DEF Fine

\* A step about one trade leaves the others as they are
LEMMA OneFine ==
  ASSUME Typed, Typed', FineAll, NEW t \in Trades, Sends(sending),
         \A v \in Trades \ {t} :
            /\ trade'[v] = trade[v] /\ (v \in listed' <=> v \in listed)
            /\ opening'[v] = opening[v] /\ position'[v] = position[v]
            /\ Left(sending', v) = Left(sending, v),
         \/ channel' = channel
         \/ \E s \in Signal : s.trade = t /\ channel' = Append(channel, s),
         Fine(t, trade'[t], t \in listed', opening'[t], position'[t],
              Left(sending', t), channel')
  PROVE  FineAll'
<1> SUFFICES ASSUME NEW v \in Trades \ {t}
             PROVE  Fine(v, trade'[v], v \in listed', opening'[v], position'[v],
                         Left(sending', v), channel')
  BY DEF FineAll
<1> DEFINE l == v \in listed
           k == Left(sending, v)
           u == trade[v]
           p == position[v]
           o == opening[v]
<1>1. /\ u \in Trade /\ p \in Position /\ channel \in Seq(Signal) /\ l \in BOOLEAN
      /\ k \in 0..3
  BY LeftIs DEF Typed
<1>2. Fine(v, u, l, o, p, k, channel)
  BY DEF FineAll
<1>3. Fine(v, u, l, o, p, k, channel')
  <2>1. CASE channel' = channel
    BY <1>2, <2>1
  <2>2. CASE \E s \in Signal : s.trade = t /\ channel' = Append(channel, s)
    <3>1. PICK s \in Signal : s.trade = t /\ channel' = Append(channel, s)
      BY <2>2
    <3> HIDE DEF l, k, u, p, o
    <3>2. Fine(v, u, l, o, p, k, Append(channel, s))
      BY <1>1, <1>2, <3>1, FineForeign
    <3> QED BY <3>1, <3>2
  <2> QED BY <2>1, <2>2
<1> QED BY <1>3

\* What is reduced of the position of t is told, and t will know it
LEMMA Reduced ==
  ASSUME PositionInv, NEW t \in Trades, NEW n \in Nat \ {0}, ClosePosition(t, n),
         position[t].state = "opened", Left(sending, t) < 2,
         trade[t].e = 0 => n >= position[t].quantity
  PROVE  \E s \in Signal :
           /\ s.trade = t /\ s.kind \notin OrderKinds /\ channel' = Append(channel, s)
           /\ position' \in [Trades -> Position]
           /\ \A v \in Trades \ {t} : position'[v] = position[v]
           /\ position'[t].state # "none"
           /\ Signals(t, position'[t], Left(sending, t), channel')
           /\ Known(t, trade[t], t \in listed, position'[t], Left(sending, t), channel')
<1>1. PICK p \in Position : p = position[t]
  BY DEF PositionInv, Typed
<1>2. PICK u \in Trade : u = trade[t]
  BY DEF PositionInv, Typed
<1>3. PICK k \in 0..3 : k = Left(sending, t)
  BY LeftIs DEF PositionInv
<1> DEFINE l == t \in listed
<1>4. l \in BOOLEAN
  OBVIOUS
<1>5. PICK c \in Seq(Signal) : c = channel
  BY DEF PositionInv, Typed
<1>6. Signals(t, p, k, c) /\ Known(t, u, l, p, k, c)
  BY <1>1, <1>2, <1>3, <1>5 DEF PositionInv, FineAll, Fine
<1>7. /\ p.state = "opened" /\ k < 2 /\ p.quantity \in Nat /\ p.quantity > 0
      /\ p.quantity <= Quantity[t] /\ u.e \in Nat /\ Quantity[t] \in Nat
      /\ position \in [Trades -> Position]
  BY <1>1, <1>2, <1>3, <1>6, Fields, ScriptKinds DEF Signals, PositionInv, Typed
<1>8. ASSUME NEW r \in Position, NEW s \in Signal, channel' = Append(c, s),
             position' = [position EXCEPT ![t] = r],
             s.trade = t, s.kind \in {"position_updated", "position_deleted"},
             s.quantity < p.quantity, Fits(s, t), s.quantity = r.quantity,
             r.state = IF s.quantity = 0 THEN "closed" ELSE "opened",
             s.kind = "position_updated" => u.e > 0
      PROVE  /\ s.trade = t /\ s.kind \notin OrderKinds /\ channel' = Append(channel, s)
             /\ position' \in [Trades -> Position]
             /\ \A v \in Trades \ {t} : position'[v] = position[v]
             /\ position'[t].state # "none"
             /\ Signals(t, position'[t], Left(sending, t), channel')
             /\ Known(t, trade[t], t \in listed, position'[t], Left(sending, t), channel')
  <2>1. position'[t] = r /\ position' \in [Trades -> Position]
    BY <1>7, <1>8
  <2>2. OfPosition(s, t) /\ s # PositionSig(t) /\ s.kind \notin OrderKinds
    BY <1>8, ScriptKinds DEF OfPosition, OrderKinds
  <2>3. r.state # "none"
    BY <1>8
  <2> HIDE DEF l
  <2>4. Signals(t, r, k, Append(c, s))
    BY <1>6, <1>7, <1>8, <2>2, SignalsClose
  <2>5. Known(t, u, l, r, k, Append(c, s))
    BY <1>4, <1>6, <1>7, <1>8, <2>2, <2>3, KnownClose
  <2>6. \A v \in Trades \ {t} : position'[v] = position[v]
    BY <1>7, <1>8
  <2> QED BY <1>2, <1>3, <1>5, <1>8, <2>1, <2>2, <2>3, <2>4, <2>5, <2>6 DEF l
<1>9. CASE n < p.quantity
  <2> DEFINE q == p.quantity - n
             r == [state |-> "opened", quantity |-> q]
             s == Sig("position_updated", t, q)
  <2>1. /\ q \in Nat /\ q > 0 /\ q < p.quantity /\ q < Quantity[t] /\ u.e > 0
    BY <1>1, <1>2, <1>7, <1>9
  <2>2. position' = [position EXCEPT ![t] = r] /\ channel' = Append(c, s)
    BY <1>1, <1>5, <1>7, <1>9 DEF ClosePosition, Position
  <2>3. r \in Position /\ r.quantity = q /\ r.state = "opened"
    BY <2>1 DEF Position
  <2>4. /\ s \in Signal /\ s.trade = t /\ s.kind = "position_updated" /\ s.quantity = q
    BY <2>1 DEF Sig, Signal
  <2> HIDE DEF q, r, s
  <2>5. Fits(s, t)
    BY <2>1, <2>4 DEF Fits
  <2>6. /\ s.trade = t /\ s.kind \notin OrderKinds /\ channel' = Append(channel, s)
        /\ position' \in [Trades -> Position]
        /\ \A v \in Trades \ {t} : position'[v] = position[v]
        /\ position'[t].state # "none"
        /\ Signals(t, position'[t], Left(sending, t), channel')
        /\ Known(t, trade[t], t \in listed, position'[t], Left(sending, t), channel')
    <3>1. /\ s.kind \in {"position_updated", "position_deleted"} /\ s.quantity < p.quantity
          /\ r.state = (IF s.quantity = 0 THEN "closed" ELSE "opened")
          /\ s.quantity = r.quantity
      BY <2>1, <2>3, <2>4
    <3> QED BY <1>8, <2>1, <2>2, <2>3, <2>4, <2>5, <3>1
  <2> QED BY <2>4, <2>6
<1>10. CASE ~(n < p.quantity)
  <2> DEFINE r == Closed(t)
             s == Sig("position_deleted", t, 0)
  <2>1. position' = [position EXCEPT ![t] = r] /\ channel' = Append(c, s)
    BY <1>1, <1>5, <1>10 DEF ClosePosition
  <2>2. r \in Position /\ r.quantity = 0 /\ r.state = "closed"
    BY DEF Position, Closed
  <2>3. /\ s \in Signal /\ s.trade = t /\ s.kind = "position_deleted" /\ s.quantity = 0
    BY DEF Sig, Signal
  <2> HIDE DEF r, s
  <2>4. Fits(s, t)
    BY <2>3 DEF Fits
  <2>5. /\ s.trade = t /\ s.kind \notin OrderKinds /\ channel' = Append(channel, s)
        /\ position' \in [Trades -> Position]
        /\ \A v \in Trades \ {t} : position'[v] = position[v]
        /\ position'[t].state # "none"
        /\ Signals(t, position'[t], Left(sending, t), channel')
        /\ Known(t, trade[t], t \in listed, position'[t], Left(sending, t), channel')
    BY <1>7, <1>8, <2>1, <2>2, <2>3, <2>4
  <2> QED BY <2>3, <2>5
<1> QED BY <1>9, <1>10

-----------------------------------------------------------------------------
(***************************************************************************)
(* Each action preserves it.                                               *)
(***************************************************************************)
\* An operation that changes the trade t, and reports no more than a cancel
LEMMA TradeStep ==
  ASSUME PositionInv, NEW t \in Trades, NEW v \in Trade, trade' = [trade EXCEPT ![t] = v],
         listed' \subseteq Trades,
         \A w \in Trades \ {t} : w \in listed' <=> w \in listed,
         opening' \in [Trades -> {"no", "called", "refused", "done"}],
         \A w \in Trades \ {t} : opening'[w] = opening[w],
         book' \subseteq book,
         UNCHANGED <<bracket, position, phase, todo, rm_list, sending>>,
         \/ channel' = channel
         \/ channel' = Append(channel, Sig("order_canceled", t, 0)),
         Known(t, v, t \in listed', position[t], Left(sending, t), channel),
         Started(v, t \in listed', opening'[t], position[t]),
         opening'[t] # "no", opening'[t] # "called" => sending[t] = <<>>,
         t \in book' \/ t \in todo => opening'[t] # "refused" /\ v.entry # "rejected"
  PROVE  PositionInv'
<1> DEFINE s == Sig("order_canceled", t, 0)
           l == t \in listed'
<1>1. /\ s \in Signal /\ s.trade = t /\ s.quantity = 0
      /\ ~OfPosition(s, t) /\ s # DeletedSig(t)
  BY DEF Sig, Signal, OfPosition, OrderKinds, DeletedSig
<1>2. /\ bracket' = bracket /\ position' = position /\ phase' = phase /\ todo' = todo
      /\ rm_list' = rm_list /\ sending' = sending
  OBVIOUS
<1>3. channel \in Seq(Signal) /\ Append(channel, s) \in Seq(Signal)
  BY <1>1, Appended DEF PositionInv, Typed
<1>4. trade'[t] = v /\ \A w \in Trades \ {t} : trade'[w] = trade[w]
  BY DEF PositionInv, Typed
<1>5. Typed'
  <2>1. trade' \in [Trades -> Trade] /\ channel' \in Seq(Signal)
    BY <1>3 DEF PositionInv, Typed
  <2> QED BY <1>2, <2>1 DEF PositionInv, Typed
<1>6. Plain(channel)'
  <2>1. channel' = channel \/ channel' = Append(channel, s)
    OBVIOUS
  <2> HIDE DEF s
  <2>2. Plain(channel) /\ Plain(Append(channel, s))
    BY <1>1, <1>3, PlainKept DEF PositionInv
  <2>3. Plain(channel')
    BY <2>1, <2>2
  <2> QED BY <2>3
<1>7. Sends(sending)'
  BY <1>2 DEF PositionInv
<1>8. Booked'
  <2> SUFFICES ASSUME NEW w \in Trades
      PROVE  /\ w \in todo' \/ (w \in book' /\ w \notin rm_list') => position'[w].state = "none"
             /\ w \in book' \/ w \in todo' \/ w \in rm_list' \/ w \in bracket'
                  => opening'[w] # "no"
             /\ w \in book' \/ w \in todo' =>
                  opening'[w] # "refused" /\ trade'[w].entry # "rejected"
             /\ opening'[w] # "called" => sending'[w] = <<>>
             /\ w \in bracket' => sending'[w] # Script(w, 2) /\ sending'[w] # Script(w, 3)
    BY <1>2 DEF PositionInv, Booked
  <2>1. CASE w = t
    BY <1>2, <1>4, <2>1 DEF PositionInv, Booked
  <2>2. CASE w # t
    BY <1>2, <1>4, <2>2 DEF PositionInv, Booked
  <2> QED BY <2>1, <2>2
<1>9. position[t] \in Position /\ Left(sending, t) \in 0..3 /\ l \in BOOLEAN
  BY LeftIs DEF PositionInv, Typed
<1>10. Signals(t, position[t], Left(sending, t), channel)
  BY DEF PositionInv, FineAll, Fine
<1>11. Fine(t, v, l, opening'[t], position[t], Left(sending, t), channel)
  BY <1>10 DEF Fine
<1>12. Fine(t, v, l, opening'[t], position[t], Left(sending, t), channel')
  <2> HIDE DEF l, s
  <2>1. Signals(t, position[t], Left(sending, t), Append(channel, s))
    BY <1>1, <1>3, <1>9, <1>10, SignalsQuiet
  <2>2. Known(t, v, l, position[t], Left(sending, t), channel)
    BY <1>11 DEF Fine
  <2>3. Known(t, v, l, position[t], Left(sending, t), Append(channel, s))
    BY <1>1, <1>3, <1>9, <2>2, KnownQuiet
  <2>4. Started(v, l, opening'[t], position[t])
    BY <1>11 DEF Fine
  <2> QED BY <1>11, <2>1, <2>3, <2>4 DEF Fine, s
<1>13. FineAll'
  <2>1. Fine(t, trade'[t], t \in listed', opening'[t], position'[t],
              Left(sending', t), channel')
    BY <1>2, <1>4, <1>12
  <2>2. \A w \in Trades \ {t} :
            /\ trade'[w] = trade[w] /\ (w \in listed' <=> w \in listed)
            /\ opening'[w] = opening[w] /\ position'[w] = position[w]
            /\ Left(sending', w) = Left(sending, w)
    BY <1>2, <1>4
  <2>3. \/ channel' = channel
        \/ \E z \in Signal : z.trade = t /\ channel' = Append(channel, z)
    BY <1>1
  <2>4. Typed /\ FineAll /\ Sends(sending)
    BY DEF PositionInv
  <2> HIDE DEF s, l
  <2> QED BY ONLY <1>5, <2>1, <2>2, <2>3, <2>4, OneFine
<1> QED BY <1>5, <1>6, <1>7, <1>8, <1>13 DEF PositionInv

\* One that also reduces or closes the position of t
LEMMA CloseStep ==
  ASSUME PositionInv, NEW t \in Trades, NEW n \in Nat \ {0}, ClosePosition(t, n),
         position[t].state = "opened", Left(sending, t) < 2,
         trade[t].e = 0 => n >= position[t].quantity,
         NEW v \in Trade, trade' = [trade EXCEPT ![t] = v], book' \subseteq book,
         UNCHANGED <<listed, opening, bracket, phase, todo, rm_list, sending>>,
         \A p \in Position, c \in Seq(Signal) :
            Known(t, trade[t], t \in listed, p, Left(sending, t), c)
              => Known(t, v, t \in listed, p, Left(sending, t), c),
         v = trade[t] \/ t \in listed
  PROVE  PositionInv'
<1>1. PICK s \in Signal :
           /\ s.trade = t /\ s.kind \notin OrderKinds /\ channel' = Append(channel, s)
           /\ position' \in [Trades -> Position]
           /\ \A w \in Trades \ {t} : position'[w] = position[w]
           /\ position'[t].state # "none"
           /\ Signals(t, position'[t], Left(sending, t), channel')
           /\ Known(t, trade[t], t \in listed, position'[t], Left(sending, t), channel')
  BY Reduced
<1>2. /\ bracket' = bracket /\ phase' = phase /\ todo' = todo /\ listed' = listed
      /\ rm_list' = rm_list /\ sending' = sending /\ opening' = opening
  OBVIOUS
<1>3. channel \in Seq(Signal) /\ channel' \in Seq(Signal)
  BY <1>1, Appended DEF PositionInv, Typed
<1>4. trade'[t] = v /\ \A w \in Trades \ {t} : trade'[w] = trade[w]
  BY DEF PositionInv, Typed
<1>5. Typed'
  <2>1. trade' \in [Trades -> Trade]
    BY DEF PositionInv, Typed
  <2> QED BY <1>1, <1>2, <1>3, <2>1 DEF PositionInv, Typed
<1>6. Plain(channel)'
  BY <1>1, <1>3, PlainKept DEF PositionInv
<1>7. Sends(sending)'
  BY <1>2 DEF PositionInv
<1>8. Known(t, v, t \in listed, position'[t], Left(sending, t), channel')
  BY <1>1, <1>3
<1>9. t \notin todo /\ (t \in book => t \in rm_list) /\ opening[t] # "no"
      /\ opening[t] # "refused"
  BY DEF PositionInv, Booked, FineAll, Fine, Started
<1>10. v.entry = "rejected" => v = trade[t]
  BY <1>1, <1>8 DEF Known, Sound
<1>11. Booked'
  <2> SUFFICES ASSUME NEW w \in Trades
      PROVE  /\ w \in todo' \/ (w \in book' /\ w \notin rm_list') => position'[w].state = "none"
             /\ w \in book' \/ w \in todo' \/ w \in rm_list' \/ w \in bracket'
                  => opening'[w] # "no"
             /\ w \in book' \/ w \in todo' =>
                  opening'[w] # "refused" /\ trade'[w].entry # "rejected"
             /\ opening'[w] # "called" => sending'[w] = <<>>
             /\ w \in bracket' => sending'[w] # Script(w, 2) /\ sending'[w] # Script(w, 3)
    BY <1>2 DEF PositionInv, Booked
  <2>1. CASE w = t
    BY <1>2, <1>4, <1>9, <1>10, <2>1 DEF PositionInv, Booked
  <2>2. CASE w # t
    BY <1>1, <1>2, <1>4, <2>2 DEF PositionInv, Booked
  <2> QED BY <2>1, <2>2
<1>12. Started(v, t \in listed, opening[t], position'[t])
  BY <1>9 DEF PositionInv, FineAll, Fine, Started
<1>13. FineAll'
  <2>1. Fine(t, trade'[t], t \in listed', opening'[t], position'[t],
              Left(sending', t), channel')
    BY <1>1, <1>2, <1>4, <1>8, <1>12 DEF Fine
  <2>2. \A w \in Trades \ {t} :
            /\ trade'[w] = trade[w] /\ (w \in listed' <=> w \in listed)
            /\ opening'[w] = opening[w] /\ position'[w] = position[w]
            /\ Left(sending', w) = Left(sending, w)
    BY <1>1, <1>2, <1>4
  <2>3. \/ channel' = channel
        \/ \E z \in Signal : z.trade = t /\ channel' = Append(channel, z)
    BY <1>1
  <2>4. Typed /\ FineAll /\ Sends(sending)
    BY DEF PositionInv
  <2> QED BY ONLY <1>5, <2>1, <2>2, <2>3, <2>4, OneFine
<1> QED BY <1>5, <1>6, <1>7, <1>11, <1>13 DEF PositionInv

\* The update closes a position whose take-profit or stop-loss is reached
LEMMA CloseBracketKept ==
  ASSUME PositionInv, NEW t \in Trades, CloseBracket(t)
  PROVE  PositionInv'
<1>1. /\ sending[Paper] = <<>> /\ t \in bracket /\ position[t].state = "opened"
      /\ ClosePosition(t, position[t].quantity)
      /\ UNCHANGED <<listed, opening, bracket, phase, todo, rm_list, sending>>
      /\ trade' = trade /\ book' = book
  BY DEF CloseBracket
<1>2. Left(sending, t) < 2
  <2>1. Sends(sending) /\ sending[t] # Script(t, 2) /\ sending[t] # Script(t, 3)
    BY <1>1 DEF PositionInv, Booked
  <2>2. sending[Paper] # Script(t, 2) /\ sending[Paper] # Script(t, 3)
    BY <1>1, ScriptOfOne
  <2>3. Left(sending, t) \in 0..3
    BY <2>1, LeftIs
  <2> QED BY <2>1, <2>2, <2>3, LeftBy
<1>3. position[t].quantity \in Nat \ {0}
  BY <1>1 DEF PositionInv, Typed, Position, FineAll, Fine, Signals
<1>4. trade[t] \in Trade /\ trade' = [trade EXCEPT ![t] = trade[t]]
  BY <1>1 DEF PositionInv, Typed
<1>5. position[t].quantity >= position[t].quantity
  BY <1>3
<1> QED BY <1>1, <1>2, <1>3, <1>4, <1>5, CloseStep

\* What an active trade is
LEMMA ActiveIs ==
  ASSUME PositionInv, NEW t \in listed, IsActive(trade[t])
  PROVE  /\ trade[t] \in Trade /\ trade[t].entry = "filled" /\ trade[t].e > 0
         /\ trade[t].quantity \in Nat /\ trade[t].quantity > 0
         /\ t \in Trades /\ Left(sending, t) < 2 /\ opening[t] # "no" /\ opening[t] # "refused"
         /\ position[t].state # "none" /\ position[t] \in Position
<1>1. t \in Trades
  BY DEF PositionInv, Typed
<1>2. Fine(t, trade[t], t \in listed, opening[t], position[t], Left(sending, t), channel)
  BY <1>1 DEF PositionInv, FineAll
<1>3. trade[t] \in Trade /\ trade[t].entry = "filled"
  BY <1>1 DEF PositionInv, Typed, IsActive
<1>4. trade[t].e \in Nat /\ trade[t].quantity \in Nat
  BY <1>3 DEF Trade
<1>5. trade[t].e > 0
  BY <1>2, <1>3, <1>4 DEF Fine, Known, Waiting
<1>6. trade[t].quantity > 0 /\ Left(sending, t) < 2 /\ position[t].state # "none"
  BY <1>2, <1>5 DEF Fine, Known, Entered
<1>7. opening[t] # "no" /\ opening[t] # "refused" /\ position[t] \in Position
  BY <1>1, <1>2, <1>6 DEF Fine, Started, PositionInv, Typed
<1> QED BY <1>1, <1>3, <1>4, <1>5, <1>6, <1>7

\* close and reduce
LEMMA ExitKept ==
  ASSUME PositionInv, NEW t \in Trades, NEW n \in Nat \ {0}, NEW closing \in BOOLEAN,
         Exit(t, n, closing)
  PROVE  PositionInv'
<1> DEFINE u == Canceled(t)
           w == [u EXCEPT !.closing = closing]
<1>1. /\ t \in listed /\ IsActive(trade[t])
      /\ listed' = listed /\ opening' = opening /\ bracket' = bracket /\ phase' = phase
      /\ todo' = todo /\ rm_list' = rm_list /\ sending' = sending
      /\ book' \subseteq book
  BY DEF Exit
<1>2. /\ trade[t] \in Trade /\ trade[t].entry = "filled" /\ trade[t].e > 0
      /\ Left(sending, t) < 2 /\ opening[t] # "no" /\ opening[t] # "refused"
      /\ position[t].state # "none" /\ position[t] \in Position
      /\ Left(sending, t) \in 0..3
  BY <1>1, ActiveIs, LeftIs DEF PositionInv
<1>3. /\ u \in Trade /\ u.e = trade[t].e /\ u.x = trade[t].x /\ u.quantity = trade[t].quantity
      /\ u.exit = trade[t].exit /\ u.pos = trade[t].pos
      /\ u = trade[t] \/ (~u.oid /\ ~u.ref)
      /\ u.entry \in {"canceled", "filled"}
  BY <1>2 DEF Canceled, Trade
<1>4. /\ w \in Trade /\ w.e = u.e /\ w.x = u.x /\ w.quantity = u.quantity /\ w.exit = u.exit
      /\ w.pos = u.pos /\ w.oid = u.oid /\ w.ref = u.ref /\ w.entry = u.entry
  BY <1>3 DEF Trade
<1> HIDE DEF w, u
<1>5. ASSUME NEW v \in Trade, v \in {u, w}, NEW p \in Position, NEW c \in Seq(Signal),
             Known(t, trade[t], t \in listed, p, Left(sending, t), c)
      PROVE  Known(t, v, t \in listed, p, Left(sending, t), c)
  <2>1. /\ v.e = trade[t].e /\ v.x = trade[t].x /\ v.quantity = trade[t].quantity
        /\ v.exit = trade[t].exit /\ v.pos = trade[t].pos
        /\ v.entry \in {"canceled", "filled"} /\ v.oid = u.oid /\ v.ref = u.ref
        /\ v.entry = u.entry
    BY <1>3, <1>4, <1>5
  <2>2. Known(t, trade[t], TRUE, p, Left(sending, t), c)
    BY <1>1, <1>5
  <2>3. Known(t, v, TRUE, p, Left(sending, t), c)
    <3>1. CASE ~u.oid /\ ~u.ref
      BY <1>2, <2>1, <2>2, <3>1, KnownCanceled
    <3>2. CASE u = trade[t]
      BY <1>2, <2>1, <2>2, <3>2 DEF Known, Sound, Waiting, Entered
    <3> QED BY <1>3, <3>1, <3>2
  <2> QED BY <1>1, <2>3
<1>6. CASE u.pos /\ position[t].state = "opened"
  <2>1. ClosePosition(t, n) /\ trade' = [trade EXCEPT ![t] = w]
    BY <1>6 DEF Exit, u, w
  <2>2. trade[t].e # 0
    BY <1>2, Fields
  <2> QED BY <1>1, <1>2, <1>4, <1>5, <1>6, <2>1, <2>2, CloseStep
<1>7. CASE ~(u.pos /\ position[t].state = "opened")
  <2>1. trade' = [trade EXCEPT ![t] = u] /\ position' = position /\ channel' = channel
    BY <1>7 DEF Exit, u
  <2>2. Fine(t, trade[t], t \in listed, opening[t], position[t], Left(sending, t), channel)
    BY <1>1 DEF PositionInv, FineAll, Typed
  <2>3. Known(t, u, t \in listed', position[t], Left(sending, t), channel)
    BY <1>1, <1>2, <1>3, <1>5, <2>2 DEF Fine, PositionInv, Typed
  <2>4. Started(u, t \in listed', opening'[t], position[t])
    BY <1>1, <1>2 DEF Started
  <2>5. opening[t] # "called" => sending[t] = <<>>
    BY DEF PositionInv, Booked
  <2>6. u.entry # "rejected"
    BY <1>3
  <2>7. listed \subseteq Trades /\ opening \in [Trades -> {"no", "called", "refused", "done"}]
    BY DEF PositionInv, Typed
  <2> QED BY <1>1, <1>2, <1>3, <2>1, <2>3, <2>4, <2>5, <2>6, <2>7, TradeStep
<1> QED BY <1>6, <1>7

\* Close, of what the trade knows or of the whole position
LEMMA CloseKept ==
  ASSUME PositionInv, NEW t \in Trades, Close(t)
  PROVE  PositionInv'
<1>1. t \in listed /\ IsActive(trade[t])
  BY DEF Close, Exit
<1>2. trade[t].quantity \in Nat /\ trade[t].quantity > 0
  BY <1>1, ActiveIs
<1> DEFINE n == IF trade[t].quantity > 0 THEN trade[t].quantity ELSE position[t].quantity
<1>3. n \in Nat \ {0}
  BY <1>2
<1>4. Exit(t, n, TRUE)
  BY Zenon DEF Close
<1> HIDE DEF n
<1> QED BY <1>3, <1>4, ExitKept

\* Reduce, of a part of what is not exited yet
LEMMA ReduceKept ==
  ASSUME PositionInv, NEW t \in Trades, Reduce(t)
  PROVE  PositionInv'
<1>1. trade[t].e \in Nat /\ trade[t].x \in Nat
  BY Fields DEF PositionInv, Typed
<1>2. PICK n \in 1..(trade[t].e - trade[t].x) : Exit(t, n, n >= trade[t].e - trade[t].x)
  BY DEF Reduce
<1>3. n \in Nat \ {0} /\ (n >= trade[t].e - trade[t].x) \in BOOLEAN
  BY <1>1
<1> QED BY <1>2, <1>3, ExitKept

\* create_order returned
LEMMA OpenReturnKept ==
  ASSUME PositionInv, NEW t \in Trades, OpenReturn(t)
  PROVE  PositionInv'
<1>1. /\ opening[t] \in {"called", "refused"} /\ sending[t] = <<>>
      /\ opening' = [opening EXCEPT ![t] = "done"]
      /\ bracket' = bracket /\ position' = position /\ phase' = phase /\ todo' = todo
      /\ rm_list' = rm_list /\ sending' = sending /\ book' = book /\ channel' = channel
  BY DEF OpenReturn, paperVars
<1>2. /\ opening' \in [Trades -> {"no", "called", "refused", "done"}]
      /\ opening'[t] = "done" /\ \A w \in Trades \ {t} : opening'[w] = opening[w]
      /\ listed \subseteq Trades /\ channel \in Seq(Signal)
  BY <1>1 DEF PositionInv, Typed
<1> DEFINE u == trade[t]
           p == position[t]
           l == t \in listed
           k == Left(sending, t)
<1>3. u \in Trade /\ p \in Position /\ l \in BOOLEAN /\ k \in 0..3
  BY LeftIs DEF PositionInv, Typed
<1>4. Signals(t, p, k, channel) /\ Known(t, u, l, p, k, channel)
  BY DEF PositionInv, FineAll, Fine
<1>5. Started(u, l, opening[t], p)
  BY DEF PositionInv, FineAll, Fine
<1>6. CASE opening[t] = "called"
  <2> DEFINE v == [u EXCEPT !.oid = TRUE, !.pos = p.state # "none"]
  <2>1. trade' = [trade EXCEPT ![t] = v] /\ listed' = listed
    BY <1>1, <1>3, <1>6 DEF OpenReturn, PositionInv, Typed
  <2>2. /\ v \in Trade /\ v.e = u.e /\ v.x = u.x /\ v.quantity = u.quantity
        /\ v.entry = u.entry /\ v.exit = u.exit /\ v.ref = u.ref
        /\ v.pos <=> p.state # "none"
    BY <1>3 DEF Trade
  <2> HIDE DEF u, p, l, k, v
  <2>3. Known(t, v, l, p, k, channel)
    BY <1>2, <1>3, <1>4, <2>2, KnownCalled
  <2>4. Started(v, l, "done", p)
    BY <1>5, <1>6, <2>2 DEF Started
  <2>5. t \in book \/ t \in todo => v.entry # "rejected"
    BY <2>2 DEF PositionInv, Booked, u
  <2> QED BY <1>1, <1>2, <2>1, <2>2, <2>3, <2>4, <2>5, TradeStep DEF l, p, k
<1>7. CASE opening[t] = "refused"
  <2> DEFINE v == [u EXCEPT !.entry = "rejected"]
  <2>1. trade' = [trade EXCEPT ![t] = v] /\ listed' = listed \ {t}
    BY <1>1, <1>3, <1>7 DEF OpenReturn, PositionInv, Typed
  <2>2. v \in Trade /\ v.e = u.e /\ v.entry = "rejected"
    BY <1>3 DEF Trade
  <2>3. t \notin book /\ t \notin todo
    BY <1>7 DEF PositionInv, Booked
  <2> HIDE DEF u, p, l, k
  <2>4. p.state = "none"
    BY <1>5, <1>7 DEF Started
  <2>5. Known(t, v, FALSE, p, k, channel)
    BY <1>2, <1>3, <1>4, <2>2, <2>4, KnownRefused
  <2> HIDE DEF v
  <2>6. Started(v, FALSE, "done", p)
    BY <2>2 DEF Started
  <2>7. (t \in listed') = FALSE
    BY <2>1
  <2> QED BY <1>1, <1>2, <2>1, <2>2, <2>3, <2>5, <2>6, <2>7, TradeStep DEF p, k
<1> QED BY <1>1, <1>6, <1>7

\* cancel_open
LEMMA CancelOpenKept ==
  ASSUME PositionInv, NEW t \in Trades, CancelOpen(t)
  PROVE  PositionInv'
<1> DEFINE u == trade[t]
           v == [u EXCEPT !.oid = FALSE, !.ref = FALSE,
                          !.entry = IF t \in book /\ u.e > 0 THEN "filled" ELSE "canceled"]
           p == position[t]
           k == Left(sending, t)
<1>1. /\ t \in listed /\ listed' = listed /\ opening' = opening /\ bracket' = bracket
      /\ position' = position /\ phase' = phase /\ todo' = todo /\ rm_list' = rm_list
      /\ sending' = sending /\ book' = book \ {t}
      /\ channel' = channel \/ channel' = Append(channel, Sig("order_canceled", t, 0))
  BY DEF CancelOpen, CancelOrder
<1>2. u \in Trade /\ p \in Position /\ k \in 0..3 /\ channel \in Seq(Signal)
  BY LeftIs DEF PositionInv, Typed
<1>3. trade' = [trade EXCEPT ![t] = v]
  BY <1>2 DEF CancelOpen, PositionInv, Typed
<1>4. /\ v \in Trade /\ v.e = u.e /\ v.x = u.x /\ v.quantity = u.quantity
      /\ v.exit = u.exit /\ v.pos = u.pos /\ ~v.oid /\ ~v.ref
      /\ v.entry = (IF t \in book /\ u.e > 0 THEN "filled" ELSE "canceled")
  BY <1>2 DEF Trade
<1>5. /\ Known(t, u, t \in listed, p, k, channel)
      /\ Started(u, t \in listed, opening[t], p)
  BY DEF PositionInv, FineAll, Fine
<1>6. opening[t] # "no" /\ v.entry # "rejected"
  BY <1>1, <1>4, <1>5 DEF Started
<1> HIDE DEF u, v, p, k
<1>7. Known(t, u, TRUE, p, k, channel)
  BY <1>1, <1>5
<1>8. Known(t, v, TRUE, p, k, channel)
  BY <1>2, <1>4, <1>7, KnownCanceled
<1>9. Started(v, TRUE, opening[t], p)
  BY <1>1, <1>5, <1>6 DEF Started
<1>10. /\ opening[t] # "called" => sending[t] = <<>>
       /\ t \in book \/ t \in todo => opening[t] # "refused"
       /\ listed \subseteq Trades /\ opening \in [Trades -> {"no", "called", "refused", "done"}]
  BY DEF PositionInv, Booked, Typed
<1>11. (t \in listed') = TRUE
  BY <1>1
<1> QED BY <1>1, <1>3, <1>4, <1>6, <1>8, <1>9, <1>10, <1>11, TradeStep DEF p, k

\* What a step that changes none of what Fine reads preserves
LEMMA SameFine ==
  ASSUME FineAll, UNCHANGED <<trade, listed, opening, position, sending, channel>>
  PROVE  FineAll'
  BY DEF FineAll

\* modify_take_profit and modify_stop_loss
LEMMA ModifyKept ==
  ASSUME PositionInv, NEW t \in Trades, Modify(t)
  PROVE  PositionInv'
<1>1. /\ t \in listed /\ IsActive(trade[t]) /\ bracket' = bracket \cup {t}
      /\ trade' = trade /\ listed' = listed /\ opening' = opening /\ book' = book
      /\ position' = position /\ phase' = phase /\ todo' = todo /\ rm_list' = rm_list
      /\ sending' = sending /\ channel' = channel
  BY DEF Modify
<1>2. Left(sending, t) < 2 /\ opening[t] # "no"
  BY <1>1, ActiveIs
<1>3. sending[t] # Script(t, 2) /\ sending[t] # Script(t, 3)
  BY <1>2, LeftIs DEF PositionInv
<1>4. Typed' /\ Plain(channel)' /\ Sends(sending)'
  BY <1>1 DEF PositionInv, Typed
<1>5. Booked'
  BY <1>1, <1>2, <1>3 DEF PositionInv, Booked
<1>6. FineAll'
  BY <1>1, SameFine DEF PositionInv
<1> QED BY <1>4, <1>5, <1>6 DEF PositionInv

\* The update copies the list of the orders,
LEMMA SnapshotKept ==
  ASSUME PositionInv, Snapshot
  PROVE  PositionInv'
<1>1. /\ phase = "idle" /\ phase' = "orders" /\ todo' = book
      /\ trade' = trade /\ listed' = listed /\ opening' = opening /\ book' = book
      /\ bracket' = bracket /\ position' = position /\ rm_list' = rm_list
      /\ sending' = sending /\ channel' = channel
  BY DEF Snapshot
<1>2. Typed' /\ Plain(channel)' /\ Sends(sending)'
  BY <1>1 DEF PositionInv, Typed
<1>3. Booked'
  BY <1>1 DEF PositionInv, Booked
<1>4. FineAll'
  BY <1>1, SameFine DEF PositionInv
<1> QED BY <1>2, <1>3, <1>4 DEF PositionInv

\* and removes those it executed or refused.
LEMMA RemoveOrdersKept ==
  ASSUME PositionInv, RemoveOrders
  PROVE  PositionInv'
<1>1. /\ phase' = "idle" /\ todo = {} /\ todo' = todo /\ book' = book \ rm_list
      /\ rm_list' = {}
      /\ trade' = trade /\ listed' = listed /\ opening' = opening
      /\ bracket' = bracket /\ position' = position
      /\ sending' = sending /\ channel' = channel
  BY DEF RemoveOrders
<1>2. Typed' /\ Plain(channel)' /\ Sends(sending)'
  BY <1>1 DEF PositionInv, Typed
<1>3. Booked'
  BY <1>1 DEF PositionInv, Booked
<1>4. FineAll'
  BY <1>1, SameFine DEF PositionInv
<1> QED BY <1>2, <1>3, <1>4 DEF PositionInv

\* An execution: the position is opened, and its signals are left to send
LEMMA Executed ==
  ASSUME PositionInv, NEW t \in Trades, NEW th \in {t, Paper}, Execute(th, t),
         sending[th] = <<>>, position[t].state = "none"
  PROVE  /\ position' \in [Trades -> Position] /\ sending' \in [Threads -> Seq(Signal)]
         /\ position'[t] = [state |-> "opened", quantity |-> Quantity[t]]
         /\ \A v \in Trades \ {t} : position'[v] = position[v]
         /\ sending'[th] = Script(t, 3)
         /\ \A o \in Threads \ {th} : sending'[o] = sending[o]
         /\ Sends(sending') /\ Left(sending', t) = 3 /\ Left(sending, t) = 0
         /\ \A v \in Trades \ {t} : Left(sending', v) = Left(sending, v)
<1>1. /\ position \in [Trades -> Position] /\ sending \in [Threads -> Seq(Signal)]
      /\ Sends(sending) /\ th \in Threads
  BY DEF PositionInv, Typed, Threads
<1>2. [state |-> "opened", quantity |-> Quantity[t]] \in Position
  BY ScriptKinds DEF Position
<1>3. /\ position' \in [Trades -> Position]
      /\ position'[t] = [state |-> "opened", quantity |-> Quantity[t]]
      /\ \A v \in Trades \ {t} : position'[v] = position[v]
  BY <1>1, <1>2 DEF Execute
<1>4. Script(t, 3) \in Seq(Signal)
  <2>1. 3 \in 1..3
    OBVIOUS
  <2> QED BY <2>1, Scripts
<1>5. sending' = [sending EXCEPT ![th] = Script(t, 3)]
  <2> DEFINE x == OpenedSig(t)
             y == PositionSig(t)
             z == DeletedSig(t)
  <2>1. sending' = [sending EXCEPT ![th] = sending[th] \o <<x, y, z>>]
    BY DEF Execute, OpenedSig, PositionSig, DeletedSig
  <2>2. Script(t, 3) = <<x, y, z>>
    BY DEF Script
  <2>3. x \in Signal /\ y \in Signal /\ z \in Signal
    BY Scripts
  <2> HIDE DEF x, y, z
  <2>4. <<>> \o <<x, y, z>> = <<x, y, z>>
    BY <2>3, Threes
  <2> QED BY ZenonT(30), <2>1, <2>2, <2>4
<1>6. /\ sending' \in [Threads -> Seq(Signal)] /\ sending'[th] = Script(t, 3)
      /\ \A o \in Threads \ {th} : sending'[o] = sending[o]
  BY <1>1, <1>4, <1>5
<1>7. Left(sending, t) = 0
  BY DEF PositionInv, FineAll, Fine, Signals
<1>8. /\ Sends(sending') /\ Left(sending', t) = 3
      /\ \A v \in Trades \ {t} : Left(sending', v) = Left(sending, v)
  <2>1. PICK S \in [Threads -> Seq(Signal)] : S = sending
    BY <1>1
  <2>2. PICK R \in [Threads -> Seq(Signal)] : R = sending'
    BY <1>6
  <2>3. /\ Sends(S) /\ S[th] = <<>> /\ Left(S, t) = 0 /\ R[th] = Script(t, 3)
        /\ \A o \in Threads \ {th} : R[o] = S[o]
    BY <1>1, <1>6, <1>7, <2>1, <2>2
  <2>4. /\ Sends(R) /\ Left(R, t) = 3
        /\ \A v \in Trades \ {t} : Left(R, v) = Left(S, v)
    BY ONLY t \in Trades, th \in {t, Paper}, S \in [Threads -> Seq(Signal)],
            R \in [Threads -> Seq(Signal)], <2>3, SendsExecute
  <2> QED BY ONLY <2>1, <2>2, <2>4
<1> QED BY <1>3, <1>6, <1>7, <1>8

\* The update executes an order, refuses it or leaves it
LEMMA UpdateOrderKept ==
  ASSUME PositionInv, NEW t \in Trades, UpdateOrder(t)
  PROVE  PositionInv'
<1>1. /\ phase = "orders" /\ sending[Paper] = <<>> /\ t \in todo /\ todo' = todo \ {t}
      /\ trade' = trade /\ listed' = listed /\ opening' = opening /\ book' = book
      /\ bracket' = bracket /\ phase' = phase /\ channel' = channel
  BY DEF UpdateOrder
<1>2. /\ position[t].state = "none" /\ opening[t] # "no" /\ opening[t] # "refused"
      /\ trade[t].entry # "rejected"
  BY <1>1 DEF PositionInv, Booked
<1>3. CASE Execute(Paper, t) /\ rm_list' = rm_list \cup {t}
  <2>1. /\ position' \in [Trades -> Position] /\ sending' \in [Threads -> Seq(Signal)]
        /\ position'[t] = [state |-> "opened", quantity |-> Quantity[t]]
        /\ \A v \in Trades \ {t} : position'[v] = position[v]
        /\ \A o \in Threads \ {Paper} : sending'[o] = sending[o]
        /\ Sends(sending') /\ Left(sending', t) = 3 /\ Left(sending, t) = 0
        /\ \A v \in Trades \ {t} : Left(sending', v) = Left(sending, v)
    BY <1>1, <1>2, <1>3, Executed
  <2>2. Typed'
    BY <1>1, <1>3, <2>1 DEF PositionInv, Typed
  <2>3. Plain(channel)'
    BY <1>1 DEF PositionInv
  <2>4. \A v \in Trades : sending'[v] = sending[v]
    BY <2>1 DEF Threads
  <2>5. Booked'
    <3> SUFFICES ASSUME NEW w \in Trades
        PROVE  /\ w \in todo' \/ (w \in book' /\ w \notin rm_list') => position'[w].state = "none"
               /\ w \in book' \/ w \in todo' \/ w \in rm_list' \/ w \in bracket'
                    => opening'[w] # "no"
               /\ w \in book' \/ w \in todo' =>
                    opening'[w] # "refused" /\ trade'[w].entry # "rejected"
               /\ opening'[w] # "called" => sending'[w] = <<>>
               /\ w \in bracket' => sending'[w] # Script(w, 2) /\ sending'[w] # Script(w, 3)
      BY <1>1 DEF PositionInv, Booked
    <3>1. CASE w = t
      BY <1>1, <1>2, <1>3, <2>4, <3>1 DEF PositionInv, Booked
    <3>2. CASE w # t
      BY <1>1, <1>3, <2>1, <2>4, <3>2 DEF PositionInv, Booked
    <3> QED BY <3>1, <3>2
  <2>6. Fine(t, trade[t], t \in listed, opening[t], position'[t], 3, channel)
    <3> DEFINE u == trade[t]
               l == t \in listed
               p == position[t]
               r == position'[t]
               c == channel
    <3>1. /\ u \in Trade /\ l \in BOOLEAN /\ p \in Position /\ r \in Position
          /\ c \in Seq(Signal) /\ 0 \in 0..3
      BY <2>1 DEF PositionInv, Typed
    <3>2. Signals(t, p, 0, c) /\ Known(t, u, l, p, 0, c) /\ Started(u, l, opening[t], p)
      BY <2>1 DEF PositionInv, FineAll, Fine
    <3>3. r.state = "opened" /\ r.quantity = Quantity[t] /\ p.state = "none"
      BY <1>2, <2>1
    <3>4. u.entry # "rejected"
      BY <1>2
    <3> HIDE DEF u, l, p, r, c
    <3>5. Signals(t, r, 3, c)
      BY <3>1, <3>2, <3>3, SignalsExecute
    <3>6. Known(t, u, l, r, 3, c)
      BY <3>1, <3>2, <3>3, <3>4, KnownExecute
    <3>7. Started(u, l, opening[t], r)
      BY <1>2, <3>2 DEF Started
    <3> QED BY <3>5, <3>6, <3>7 DEF Fine, u, l, r, c
  <2>7. FineAll'
    <3>1. Fine(t, trade'[t], t \in listed', opening'[t], position'[t],
                Left(sending', t), channel')
      BY <1>1, <2>1, <2>6
    <3>2. \A w \in Trades \ {t} :
              /\ trade'[w] = trade[w] /\ (w \in listed' <=> w \in listed)
              /\ opening'[w] = opening[w] /\ position'[w] = position[w]
              /\ Left(sending', w) = Left(sending, w)
      BY <1>1, <2>1
    <3>3. Typed /\ FineAll /\ Sends(sending)
      BY DEF PositionInv
    <3> QED BY ONLY <1>1, <2>2, <3>1, <3>2, <3>3, OneFine
  <2> QED BY <2>1, <2>2, <2>3, <2>5, <2>7 DEF PositionInv
<1>4. CASE /\ rm_list' = rm_list \cup {t} \/ rm_list' = rm_list
           /\ position' = position /\ sending' = sending
  <2>1. Typed' /\ Plain(channel)' /\ Sends(sending)'
    BY <1>1, <1>4 DEF PositionInv, Typed
  <2>2. Booked'
    BY <1>1, <1>2, <1>4 DEF PositionInv, Booked
  <2>3. FineAll'
    BY <1>1, <1>4, SameFine DEF PositionInv
  <2> QED BY <2>1, <2>2, <2>3 DEF PositionInv
<1> QED BY <1>3, <1>4 DEF UpdateOrder

\* A signal of the execution or of the order of t is of t, and an order's signal
\* carries no quantity
LEMMA HeadIs ==
  ASSUME NEW t \in Trades
  PROVE  /\ OpenedSig(t).trade = t /\ OpenedSig(t).quantity = 0
         /\ \A n \in 1..3 : LET s == Head(Script(t, n))
                            IN  /\ s \in Signal /\ s.trade = t
                                /\ s.kind \in OrderKinds => s.quantity = 0
<1>1. /\ OpenedSig(t).trade = t /\ OpenedSig(t).quantity = 0
      /\ DeletedSig(t).trade = t /\ DeletedSig(t).quantity = 0
      /\ PositionSig(t).trade = t /\ PositionSig(t).kind \notin OrderKinds
  BY DEF OpenedSig, DeletedSig, PositionSig, Sig, OrderKinds
<1>2. ASSUME NEW n \in 1..3
      PROVE  Head(Script(t, n)) \in {OpenedSig(t), PositionSig(t), DeletedSig(t)}
  <2>1. n = 1 \/ n = 2 \/ n = 3
    OBVIOUS
  <2> QED BY <2>1, Scripts
<1>3. OpenedSig(t) \in Signal /\ PositionSig(t) \in Signal /\ DeletedSig(t) \in Signal
  BY Scripts
<1> QED BY <1>1, <1>2, <1>3

\* A thread sends its next signal
LEMMA SendKept ==
  ASSUME PositionInv, NEW th \in Threads, Send(th)
  PROVE  PositionInv'
<1>1. /\ sending[th] # <<>> /\ channel' = Append(channel, Head(sending[th]))
      /\ sending' = [sending EXCEPT ![th] = Tail(@)]
      /\ trade' = trade /\ listed' = listed /\ opening' = opening /\ book' = book
      /\ bracket' = bracket /\ position' = position /\ phase' = phase /\ todo' = todo
      /\ rm_list' = rm_list
  BY DEF Send, paperVars
<1>2. /\ sending \in [Threads -> Seq(Signal)] /\ Sends(sending) /\ channel \in Seq(Signal)
      /\ Trades \subseteq Threads
  BY DEF PositionInv, Typed, Threads
<1>3. /\ Tail(sending[th]) \in Seq(Signal) /\ Head(sending[th]) \in Signal
  BY <1>1, <1>2, Taken
<1>4. /\ sending' \in [Threads -> Seq(Signal)] /\ sending'[th] = Tail(sending[th])
      /\ \A o \in Threads \ {th} : sending'[o] = sending[o]
  BY <1>1, <1>2, <1>3
<1>5. PICK S \in [Threads -> Seq(Signal)] : S = sending
  BY <1>2
<1>6. PICK R \in [Threads -> Seq(Signal)] : R = sending'
  BY <1>4
<1>7. Sends(S) /\ SentFrom(S, R, th)
  BY <1>1, <1>2, <1>4, <1>5, <1>6 DEF SentFrom
<1>8. Sends(R) /\ \E t \in Trades : SentFor(S, R, Head(S[th]), t)
  BY ONLY th \in Threads, <1>7, SendsNext
<1>9. PICK t \in Trades : SentFor(S, R, Head(S[th]), t)
  BY <1>8
<1>10. PICK s \in Signal : s = Head(S[th])
  BY <1>3, <1>5
<1>11. s.trade = t /\ (s.kind \in OrderKinds => s.quantity = 0)
  BY <1>9, <1>10, HeadIs DEF SentFor
<1>12. channel' = Append(channel, s) /\ Append(channel, s) \in Seq(Signal)
  BY <1>1, <1>2, <1>5, <1>10, Appended
<1>13. Typed'
  BY <1>1, <1>4, <1>12 DEF PositionInv, Typed
<1>14. Plain(channel)'
  BY <1>2, <1>11, <1>12, PlainKept DEF PositionInv
<1>15. Sends(sending)'
  BY <1>6, <1>8
<1>16. Booked'
  <2> SUFFICES ASSUME NEW w \in Trades
      PROVE  /\ opening[w] # "called" => sending'[w] = <<>>
             /\ w \in bracket => sending'[w] # Script(w, 2) /\ sending'[w] # Script(w, 3)
    BY <1>1 DEF PositionInv, Booked
  <2>1. /\ opening[w] # "called" => sending[w] = <<>>
        /\ w \in bracket => sending[w] # Script(w, 2) /\ sending[w] # Script(w, 3)
    BY DEF PositionInv, Booked
  <2>2. CASE w # th
    BY <1>2, <1>4, <2>1, <2>2
  <2>3. CASE w = th
    <3>1. opening[w] = "called"
      BY <1>1, <2>1, <2>3
    <3>2. ASSUME w \in bracket
          PROVE  sending'[w] = <<>>
      <4>1. S[w] = <<OpenedSig(w)>> \/ \E n \in 1..3 : S[w] = Script(w, n)
        <5>1. (Idle(S, w) \/ Busy(S, w, w)) /\ S[w] # <<>>
          BY <1>7, <2>3 DEF Sends, SentFrom
        <5> QED BY <5>1 DEF Idle, Busy
      <4>2. S[w] # Script(w, 2) /\ S[w] # Script(w, 3)
        BY <1>5, <2>1, <3>2
      <4>3. \A n \in 1..3 : n = 1 \/ n = 2 \/ n = 3
        OBVIOUS
      <4>4. S[w] = <<OpenedSig(w)>> \/ S[w] = Script(w, 1)
        BY <4>1, <4>2, <4>3
      <4>5. Tail(<<OpenedSig(w)>>) = <<>> /\ Tail(Script(w, 1)) = <<>>
        BY Scripts, Ones
      <4>6. Tail(S[w]) = <<>>
        BY <4>4, <4>5
      <4> QED BY <1>6, <1>7, <2>3, <4>6 DEF SentFrom
    <3>3. Script(w, 2) # <<>> /\ Script(w, 3) # <<>>
      BY ScriptOfOne
    <3> QED BY <3>1, <3>2, <3>3
  <2> QED BY <2>2, <2>3
<1>17. Fine(t, trade[t], t \in listed, opening[t], position[t], Left(R, t), channel')
  <2> DEFINE u == trade[t]
             l == t \in listed
             p == position[t]
             c == channel
  <2>1. /\ u \in Trade /\ l \in BOOLEAN /\ p \in Position /\ c \in Seq(Signal)
        /\ Left(S, t) \in 0..3
    BY <1>7, LeftIs DEF PositionInv, Typed
  <2>2. /\ Signals(t, p, Left(S, t), c) /\ Known(t, u, l, p, Left(S, t), c)
        /\ Started(u, l, opening[t], p)
    BY <1>5 DEF PositionInv, FineAll, Fine
  <2> HIDE DEF u, l, p, c
  <2>3. CASE Head(S[th]) = OpenedSig(t) /\ Left(R, t) = Left(S, t)
    <3>1. ~OfPosition(s, t) /\ s # DeletedSig(t)
      BY <1>10, <2>3, ScriptKinds
    <3>2. Signals(t, p, Left(S, t), Append(c, s))
      BY <2>1, <2>2, <3>1, SignalsQuiet
    <3>3. Known(t, u, l, p, Left(S, t), Append(c, s))
      BY <2>1, <2>2, <3>1, KnownQuiet
    <3> QED BY <1>12, <2>2, <2>3, <3>2, <3>3 DEF Fine, u, l, p, c
  <2>4. CASE \E n \in 1..3 : /\ Head(S[th]) = Head(Script(t, n))
                             /\ Left(S, t) = n /\ Left(R, t) = n - 1
    <3>1. PICK n \in 1..3 : /\ s = Head(Script(t, n))
                            /\ Left(S, t) = n /\ Left(R, t) = n - 1
      BY <1>10, <2>4
    <3>2. Signals(t, p, n, c) /\ Known(t, u, l, p, n, c)
      BY <2>2, <3>1
    <3>3. Signals(t, p, n - 1, Append(c, s))
      BY <2>1, <3>1, <3>2, SignalsScript
    <3>4. Known(t, u, l, p, n - 1, Append(c, s))
      BY <2>1, <3>1, <3>2, KnownScript
    <3> QED BY <1>12, <2>2, <3>1, <3>3, <3>4 DEF Fine, u, l, p, c
  <2> QED BY <1>9, <2>3, <2>4 DEF SentFor
<1>18. FineAll'
  <2>1. Fine(t, trade'[t], t \in listed', opening'[t], position'[t],
              Left(sending', t), channel')
    BY <1>1, <1>6, <1>17
  <2>2. \A w \in Trades \ {t} :
            /\ trade'[w] = trade[w] /\ (w \in listed' <=> w \in listed)
            /\ opening'[w] = opening[w] /\ position'[w] = position[w]
            /\ Left(sending', w) = Left(sending, w)
    BY <1>1, <1>5, <1>6, <1>9 DEF SentFor
  <2>3. \/ channel' = channel
        \/ \E z \in Signal : z.trade = t /\ channel' = Append(channel, z)
    BY <1>11, <1>12
  <2>4. Typed /\ FineAll /\ Sends(sending)
    BY DEF PositionInv
  <2> QED BY ONLY <1>13, <2>1, <2>2, <2>3, <2>4, OneFine
<1> QED BY <1>13, <1>14, <1>15, <1>16, <1>18 DEF PositionInv

\* A signal served that does not concern v changes nothing for it
LEMMA FineTaken ==
  ASSUME NEW v \in Trades, NEW c \in Seq(Signal), c # <<>>,
         NEW u \in Trade, NEW l \in BOOLEAN, NEW o, NEW p \in Position, NEW k \in 0..3,
         Fine(v, u, l, o, p, k, c),
         Head(c).trade # v \/ ~l \/ ~Target(u, Head(c))
  PROVE  Fine(v, u, l, o, p, k, Tail(c))
<1>1. Signals(v, p, k, c) /\ Known(v, u, l, p, k, c) /\ Started(u, l, o, p)
  BY DEF Fine
<1>2. ~l /\ u.e = 0 /\ p.state # "none" => u.entry = "canceled"
  BY <1>1 DEF Started, Known, Sound
<1>3. Signals(v, p, k, Tail(c))
  BY <1>1, SignalsTaken
<1>4. Known(v, u, l, p, k, Tail(c))
  BY <1>1, <1>2, KnownTaken
<1> QED BY <1>1, <1>3, <1>4 DEF Fine

\* What a signal makes of its trade, and whether the trade stays in the list
Served(u, s) == IF s.kind \in OrderKinds THEN OrderSignal(u, s) ELSE PositionSignal(u, s)

Stays(v, s) == IF s.kind \in OrderKinds THEN ~CanDelete(v) ELSE ~IsClosed(v)

\* A signal served leaves right what its trade knows
LEMMA FineServed ==
  ASSUME NEW t \in Trades, NEW c \in Seq(Signal), c # <<>>, Plain(c),
         NEW u \in Trade, NEW o, NEW p \in Position, NEW k \in 0..3,
         Fine(t, u, TRUE, o, p, k, c), Head(c).trade = t, Target(u, Head(c))
  PROVE  LET v == Served(u, Head(c))
         IN  /\ v \in Trade /\ v.entry # "rejected" /\ Stays(v, Head(c)) \in BOOLEAN
             /\ Fine(t, v, Stays(v, Head(c)), o, p, k, Tail(c))
<1> DEFINE s == Head(c)
           v == Served(u, s)
           l == Stays(v, s)
<1>1. Signals(t, p, k, c) /\ Known(t, u, TRUE, p, k, c) /\ Started(u, TRUE, o, p)
  BY DEF Fine
<1>2. o # "no" /\ l \in BOOLEAN
  BY <1>1 DEF Started, Stays, CanDelete, IsClosed
<1>3. Signals(t, p, k, Tail(c))
  BY <1>1, SignalsTaken
<1>4. /\ v \in Trade /\ v.entry # "rejected" /\ Known(t, v, l, p, k, Tail(c))
      /\ ~l /\ v.e = 0 => v.entry \in {"rejected", "canceled"}
  <2>1. CASE s.kind \in OrderKinds
    <3>1. s = c[1] /\ 1 \in 1..Len(c) /\ s \in Signal
      BY Taken
    <3>2. s.quantity = 0
      BY <2>1, <3>1 DEF Plain
    <3>3. v = OrderSignal(u, s) /\ l = ~CanDelete(v) /\ v \in Trade
      BY <2>1, <3>1, OrderSignalIs DEF Served, Stays
    <3> HIDE DEF v, l
    <3> QED BY <1>1, <1>2, <2>1, <3>2, <3>3, KnownOrder
  <2>2. CASE s.kind \notin OrderKinds
    <3> DEFINE w == PositionSignal(u, s)
    <3>1. v = w /\ l = ~IsClosed(w)
      BY <2>2 DEF Served, Stays
    <3>2. /\ w \in Trade /\ Known(t, w, ~IsClosed(w), p, k, Tail(c))
          /\ ~(~IsClosed(w)) /\ w.e = 0 => w.entry \in {"rejected", "canceled"}
          /\ w.entry # "rejected"
      BY <1>1, <2>2, KnownPosition
    <3> HIDE DEF v, l, w
    <3>3. Known(t, v, l, p, k, Tail(c))
      BY Zenon, <3>1, <3>2
    <3> QED BY <3>1, <3>2, <3>3
  <2> QED BY <2>1, <2>2
<1> HIDE DEF v, l
<1>5. Started(v, l, o, p)
  BY <1>1, <1>2, <1>4 DEF Started
<1> QED BY <1>2, <1>3, <1>4, <1>5 DEF Fine, v, l

\* The next signal is served
LEMMA DeliverKept ==
  ASSUME PositionInv, Deliver
  PROVE  PositionInv'
<1> DEFINE s == Head(channel)
           t == s.trade
           v == Served(trade[t], s)
<1>1. /\ channel # <<>> /\ channel' = Tail(channel)
      /\ opening' = opening /\ book' = book
      /\ bracket' = bracket /\ position' = position /\ phase' = phase /\ todo' = todo
      /\ rm_list' = rm_list /\ sending' = sending
  BY DEF Deliver, paperVars
<1>2. /\ channel \in Seq(Signal) /\ Tail(channel) \in Seq(Signal) /\ s \in Signal
      /\ Plain(channel) /\ Plain(Tail(channel))
  BY <1>1, Taken, PlainKept DEF PositionInv, Typed
<1>3. t \in Trades
  BY <1>2 DEF Signal
<1>4. Plain(channel)' /\ Sends(sending)'
  BY <1>1, <1>2 DEF PositionInv
<1>5. \/ /\ ~(t \in listed /\ Target(trade[t], s))
         /\ trade' = trade /\ listed' = listed
      \/ /\ t \in listed /\ Target(trade[t], s)
         /\ trade' = [trade EXCEPT ![t] = v]
         /\ listed' = IF Stays(v, s) THEN listed ELSE listed \ {t}
  BY DEF Deliver, Served, Stays
<1>6. \A w \in Trades : /\ trade[w] \in Trade /\ position[w] \in Position
                        /\ (w \in listed) \in BOOLEAN /\ Left(sending, w) \in 0..3
                        /\ Fine(w, trade[w], w \in listed, opening[w], position[w],
                                Left(sending, w), channel)
  BY LeftIs DEF PositionInv, Typed, FineAll
<1> HIDE DEF s, t, v
<1>7. ASSUME NEW w \in Trades, t # w \/ ~(w \in listed) \/ ~Target(trade[w], s)
      PROVE  Fine(w, trade[w], w \in listed, opening[w], position[w],
                  Left(sending, w), Tail(channel))
  <2> DEFINE u == trade[w]
             l == w \in listed
             p == position[w]
             o == opening[w]
             k == Left(sending, w)
             c == channel
  <2>1. /\ u \in Trade /\ p \in Position /\ l \in BOOLEAN /\ k \in 0..3 /\ c \in Seq(Signal)
        /\ c # <<>> /\ Fine(w, u, l, o, p, k, c)
    BY <1>1, <1>2, <1>6
  <2>2. Head(c).trade # w \/ ~l \/ ~Target(u, Head(c))
    BY <1>7 DEF s, t
  <2> HIDE DEF u, l, p, o, k, c
  <2>3. Fine(w, u, l, o, p, k, Tail(c))
    BY <2>1, <2>2, FineTaken
  <2> QED BY <2>3 DEF u, l, p, o, k, c
<1>8. CASE /\ ~(t \in listed /\ Target(trade[t], s))
           /\ trade' = trade /\ listed' = listed
  <2>1. Typed'
    BY <1>1, <1>2, <1>8 DEF PositionInv, Typed
  <2>2. Booked'
    BY <1>1, <1>8 DEF PositionInv, Booked
  <2>3. FineAll'
    <3> SUFFICES ASSUME NEW w \in Trades
                 PROVE  Fine(w, trade[w], w \in listed, opening[w], position[w],
                             Left(sending, w), Tail(channel))
      BY <1>1, <1>8 DEF FineAll
    <3> QED BY <1>7, <1>8
  <2> QED BY <1>4, <2>1, <2>2, <2>3 DEF PositionInv
<1>9. CASE /\ t \in listed /\ Target(trade[t], s)
           /\ trade' = [trade EXCEPT ![t] = v]
           /\ listed' = IF Stays(v, s) THEN listed ELSE listed \ {t}
  <2>1. /\ v \in Trade /\ v.entry # "rejected" /\ Stays(v, s) \in BOOLEAN
        /\ Fine(t, v, Stays(v, s), opening[t], position[t], Left(sending, t), Tail(channel))
    <3>1. (t \in listed) = TRUE
      BY <1>9
    <3>2. Fine(t, trade[t], TRUE, opening[t], position[t], Left(sending, t), channel)
      BY <1>3, <1>6, <3>1
    <3> QED BY <1>1, <1>2, <1>3, <1>6, <1>9, <3>2, FineServed DEF s, t, v
  <2>2. trade \in [Trades -> Trade] /\ listed \subseteq Trades
    BY DEF PositionInv, Typed
  <2>3. /\ trade'[t] = v /\ (t \in listed') = Stays(v, s)
        /\ \A w \in Trades \ {t} : trade'[w] = trade[w] /\ (w \in listed') = (w \in listed)
    BY <1>3, <1>9, <2>1, <2>2
  <2>4. Typed'
    <3>1. trade' \in [Trades -> Trade] /\ listed' \subseteq Trades
      BY <1>9, <2>1, <2>2
    <3> QED BY <1>1, <1>2, <3>1 DEF PositionInv, Typed
  <2>5. Booked'
    <3> SUFFICES ASSUME NEW w \in Trades, w \in book \/ w \in todo
                 PROVE  trade'[w].entry # "rejected"
      BY <1>1 DEF PositionInv, Booked
    <3>1. CASE w = t
      BY <2>1, <2>3, <3>1
    <3>2. CASE w # t
      BY <2>3, <3>2 DEF PositionInv, Booked
    <3> QED BY <3>1, <3>2
  <2>6. FineAll'
    <3> SUFFICES ASSUME NEW w \in Trades
                 PROVE  Fine(w, trade'[w], w \in listed', opening[w], position[w],
                             Left(sending, w), Tail(channel))
      BY <1>1 DEF FineAll
    <3>1. CASE w = t
      BY <2>1, <2>3, <3>1
    <3>2. CASE w # t
      BY <1>7, <2>3, <3>2
    <3> QED BY <3>1, <3>2
  <2> QED BY <1>4, <2>4, <2>5, <2>6 DEF PositionInv
<1> QED BY <1>5, <1>8, <1>9

\* The end of update_trades removes what can be deleted
LEMMA CleanupKept ==
  ASSUME PositionInv, CleanupTrades
  PROVE  PositionInv'
<1>1. /\ listed' = {t \in listed : ~CanDelete(trade[t])}
      /\ trade' = trade /\ channel' = channel /\ opening' = opening /\ book' = book
      /\ bracket' = bracket /\ position' = position /\ phase' = phase /\ todo' = todo
      /\ rm_list' = rm_list /\ sending' = sending
  BY DEF CleanupTrades, paperVars
<1>2. Typed' /\ Plain(channel)' /\ Sends(sending)'
  BY <1>1 DEF PositionInv, Typed
<1>3. Booked'
  BY <1>1 DEF PositionInv, Booked
<1>4. FineAll'
  <2> SUFFICES ASSUME NEW w \in Trades
               PROVE  Fine(w, trade[w], w \in listed', opening[w], position[w],
                           Left(sending, w), channel)
    BY <1>1 DEF FineAll
  <2> DEFINE u == trade[w]
             l == w \in listed
             m == w \in listed'
             p == position[w]
             o == opening[w]
             k == Left(sending, w)
             c == channel
  <2>1. /\ u \in Trade /\ p \in Position /\ l \in BOOLEAN /\ k \in 0..3 /\ c \in Seq(Signal)
        /\ Fine(w, u, l, o, p, k, c)
    BY LeftIs DEF PositionInv, Typed, FineAll
  <2>2. m = l \/ (l = TRUE /\ m = FALSE /\ CanDelete(u))
    BY <1>1
  <2> HIDE DEF u, l, m, p, o, k, c
  <2>3. CASE m = l
    BY <2>1, <2>3 DEF u, l, m, p, o, k, c
  <2>4. CASE l = TRUE /\ m = FALSE /\ CanDelete(u)
    <3>1. Fine(w, u, TRUE, o, p, k, c)
      BY <2>1, <2>4
    <3>2. Known(w, u, TRUE, p, k, c) /\ Started(u, TRUE, o, p) /\ Signals(w, p, k, c)
      BY <3>1 DEF Fine
    <3>3. Known(w, u, FALSE, p, k, c) /\ u.e = 0 /\ u.entry = "canceled"
      BY <2>1, <2>4, <3>2, KnownCleaned
    <3>4. Started(u, FALSE, o, p)
      BY <3>2, <3>3 DEF Started
    <3>5. Fine(w, u, FALSE, o, p, k, c)
      BY <3>2, <3>3, <3>4 DEF Fine
    <3> QED BY <2>4, <3>5 DEF u, m, p, o, k, c
  <2> QED BY <2>2, <2>3, <2>4
<1> QED BY <1>2, <1>3, <1>4 DEF PositionInv

\* open: the market order, executed or refused, or the limit order.  A market order
\* has no take-profit and no stop-loss here
LEMMA OpenKept ==
  ASSUME PositionInv, Brackets \subseteq {"limit"}, NEW t \in Trades, Open(t)
  PROVE  PositionInv'
<1> DEFINE v == [NewTrade EXCEPT !.ref = TRUE]
           c == channel
           p == position[t]
<1>1. /\ opening[t] = "no" /\ trade' = [trade EXCEPT ![t].ref = TRUE]
      /\ listed' = listed \cup {t} /\ phase' = phase /\ todo' = todo
      /\ rm_list' = rm_list /\ channel' = channel
      /\ bracket' \subseteq bracket \cup {t}
  BY DEF Open
<1>2. \/ /\ Execute(t, t) /\ opening' = [opening EXCEPT ![t] = "called"]
         /\ book' = book /\ bracket' = bracket
      \/ /\ opening' = [opening EXCEPT ![t] = "refused"]
         /\ book' = book /\ position' = position /\ sending' = sending
      \/ /\ book' = book \cup {t}
         /\ sending' = [sending EXCEPT ![t] = <<OpenedSig(t)>>]
         /\ opening' = [opening EXCEPT ![t] = "called"]
         /\ position' = position
  BY DEF Open, OpenedSig
<1>3. Fine(t, trade[t], t \in listed, opening[t], p, Left(sending, t), c)
  BY DEF PositionInv, FineAll
<1>4. /\ trade[t] = NewTrade /\ p.state = "none" /\ Left(sending, t) = 0
      /\ Signals(t, p, 0, c)
  BY <1>1, <1>3 DEF Fine, Started, Signals
<1>5. /\ t \notin book /\ t \notin todo /\ t \notin rm_list /\ t \notin bracket
      /\ sending[t] = <<>> /\ Sends(sending)
  BY <1>1 DEF PositionInv, Booked
<1>6. /\ trade \in [Trades -> Trade] /\ p \in Position /\ c \in Seq(Signal)
      /\ sending \in [Threads -> Seq(Signal)] /\ listed \subseteq Trades
      /\ opening \in [Trades -> {"no", "called", "refused", "done"}]
      /\ t \in Threads /\ Trades \subseteq Threads
  BY DEF PositionInv, Typed, Threads
<1>7. v \in Trade /\ v.entry = "new" /\ v # NewTrade
  BY DEF Trade, NewTrade
<1>8. trade'[t] = v /\ \A w \in Trades \ {t} : trade'[w] = trade[w]
  BY <1>1, <1>4, <1>6
<1>9. trade' \in [Trades -> Trade]
  BY <1>1, <1>4, <1>6, <1>7
<1>10. t \in listed' /\ \A w \in Trades \ {t} : w \in listed' <=> w \in listed
  BY <1>1
<1>11. Known(t, v, TRUE, p, 0, c)
  BY <1>4, <1>6, <1>7, KnownNew
<1>12. Plain(channel)'
  BY <1>1 DEF PositionInv
<1> HIDE DEF v, p, c
\* What is left to show of each of the three
<1>13. ASSUME NEW o \in {"called", "refused"}, opening' = [opening EXCEPT ![t] = o],
              position' \in [Trades -> Position], sending' \in [Threads -> Seq(Signal)],
              Sends(sending'), book' \subseteq book \cup {t},
              \A w \in Trades \ {t} : /\ position'[w] = position[w]
                                      /\ sending'[w] = sending[w]
                                      /\ Left(sending', w) = Left(sending, w),
              t \in book' => position'[t].state = "none" /\ o = "called",
              o = "refused" => position'[t].state = "none" /\ sending'[t] = <<>>,
              t \in bracket' => \/ sending'[t] = <<>>
                                \/ sending'[t] = <<OpenedSig(t)>>,
              \A w \in Trades \ {t} : w \in book' <=> w \in book,
              Signals(t, position'[t], Left(sending', t), c),
              Known(t, v, TRUE, position'[t], Left(sending', t), c)
       PROVE  PositionInv'
  <2>1. opening'[t] = o /\ \A w \in Trades \ {t} : opening'[w] = opening[w]
    BY <1>6, <1>13
  <2>2. opening' \in [Trades -> {"no", "called", "refused", "done"}]
    BY <1>6, <1>13
  <2>3. Typed'
    BY <1>1, <1>9, <1>13, <2>2 DEF PositionInv, Typed
  <2>4. Booked'
    <3> SUFFICES ASSUME NEW w \in Trades
        PROVE  /\ w \in todo' \/ (w \in book' /\ w \notin rm_list') => position'[w].state = "none"
               /\ w \in book' \/ w \in todo' \/ w \in rm_list' \/ w \in bracket'
                    => opening'[w] # "no"
               /\ w \in book' \/ w \in todo' =>
                    opening'[w] # "refused" /\ trade'[w].entry # "rejected"
               /\ opening'[w] # "called" => sending'[w] = <<>>
               /\ w \in bracket' => sending'[w] # Script(w, 2) /\ sending'[w] # Script(w, 3)
      BY <1>1 DEF PositionInv, Booked
    <3>1. CASE w = t
      <4>1. \A n \in 1..3 : Script(t, n) # <<>> /\ Script(t, n) # <<OpenedSig(t)>>
        BY ScriptOfOne
      <4>2. o # "no" /\ (o # "called" => o = "refused") /\ 2 \in 1..3 /\ 3 \in 1..3
        OBVIOUS
      <4> QED BY <1>1, <1>5, <1>7, <1>8, <1>13, <2>1, <3>1, <4>1, <4>2
    <3>2. CASE w # t
      <4>1. (w \in bracket' => w \in bracket) /\ (w \in book' <=> w \in book)
        BY <1>1, <1>13, <3>2
      <4>2. /\ position'[w] = position[w] /\ sending'[w] = sending[w]
            /\ opening'[w] = opening[w] /\ trade'[w] = trade[w]
        BY <1>8, <1>13, <2>1, <3>2
      <4> QED BY <1>1, <4>1, <4>2 DEF PositionInv, Booked
    <3> QED BY <3>1, <3>2
  <2>5. Started(v, TRUE, o, position'[t])
    BY <1>13 DEF Started
  <2>6. Fine(t, trade'[t], t \in listed', opening'[t], position'[t],
              Left(sending', t), channel')
    <3>1. Fine(t, v, TRUE, o, position'[t], Left(sending', t), c)
      BY <1>13, <2>5 DEF Fine
    <3>2. (t \in listed') = TRUE
      BY <1>10
    <3> QED BY <1>1, <1>8, <2>1, <3>1, <3>2 DEF c
  <2>7. FineAll'
    <3>1. \A w \in Trades \ {t} :
              /\ trade'[w] = trade[w] /\ (w \in listed' <=> w \in listed)
              /\ opening'[w] = opening[w] /\ position'[w] = position[w]
              /\ Left(sending', w) = Left(sending, w)
      BY <1>8, <1>10, <1>13, <2>1
    <3>2. Typed /\ FineAll /\ Sends(sending)
      BY DEF PositionInv
    <3> QED BY ONLY <1>1, <2>3, <2>6, <3>1, <3>2, OneFine
  <2> QED BY <1>12, <1>13, <2>3, <2>4, <2>7 DEF PositionInv
<1>14. CASE /\ Execute(t, t) /\ opening' = [opening EXCEPT ![t] = "called"]
            /\ book' = book /\ bracket' = bracket
  <2>1. /\ position' \in [Trades -> Position] /\ sending' \in [Threads -> Seq(Signal)]
        /\ position'[t] = [state |-> "opened", quantity |-> Quantity[t]]
        /\ \A w \in Trades \ {t} : position'[w] = position[w]
        /\ \A o \in Threads \ {t} : sending'[o] = sending[o]
        /\ Sends(sending') /\ Left(sending', t) = 3
        /\ \A w \in Trades \ {t} : Left(sending', w) = Left(sending, w)
    BY <1>4, <1>5, <1>14, Executed DEF p
  <2> DEFINE r == position'[t]
  <2>2. r \in Position /\ r.state = "opened" /\ r.quantity = Quantity[t] /\ 0 \in 0..3
    BY <2>1
  <2>3. v.entry # "rejected" /\ TRUE \in BOOLEAN
    BY <1>7
  <2> HIDE DEF r
  <2>4. Signals(t, r, 3, c)
    BY <1>4, <1>6, <2>2, SignalsExecute
  <2>5. Known(t, v, TRUE, r, 3, c)
    BY <1>4, <1>6, <1>7, <1>11, <2>2, <2>3, KnownExecute
  <2>6. \A w \in Trades \ {t} : sending'[w] = sending[w]
    BY <1>6, <2>1
  <2> QED BY <1>5, <1>13, <1>14, <2>1, <2>4, <2>5, <2>6 DEF r
<1>15. CASE /\ opening' = [opening EXCEPT ![t] = "refused"]
            /\ book' = book /\ position' = position /\ sending' = sending
  <2>1. /\ Left(sending', t) = 0 /\ position'[t] = p
        /\ position' \in [Trades -> Position]
    BY <1>4, <1>15 DEF p, PositionInv, Typed
  <2> QED BY <1>4, <1>5, <1>6, <1>11, <1>13, <1>15, <2>1
<1>16. CASE /\ book' = book \cup {t}
            /\ sending' = [sending EXCEPT ![t] = <<OpenedSig(t)>>]
            /\ opening' = [opening EXCEPT ![t] = "called"]
            /\ position' = position
  <2>1. <<OpenedSig(t)>> \in Seq(Signal)
    BY Scripts, Ones
  <2>2. /\ sending' \in [Threads -> Seq(Signal)] /\ sending'[t] = <<OpenedSig(t)>>
        /\ \A o \in Threads \ {t} : sending'[o] = sending[o]
    BY <1>6, <1>16, <2>1
  <2>3. Sends(sending') /\ \A w \in Trades : Left(sending', w) = Left(sending, w)
    <3>1. PICK S \in [Threads -> Seq(Signal)] : S = sending
      BY <1>6
    <3>2. PICK R \in [Threads -> Seq(Signal)] : R = sending'
      BY <2>2
    <3>3. Sends(S) /\ PlacedBy(S, R, t)
      BY <1>5, <2>2, <3>1, <3>2 DEF PlacedBy
    <3>4. Sends(R) /\ \A w \in Trades : Left(R, w) = Left(S, w)
      BY ONLY t \in Trades, <3>3, SendsOrder
    <3> QED BY ONLY <3>1, <3>2, <3>4
  <2>4. Left(sending', t) = 0 /\ position'[t] = p /\ position' \in [Trades -> Position]
    BY <1>4, <1>16, <2>3 DEF p, PositionInv, Typed
  <2>5. \A w \in Trades \ {t} : sending'[w] = sending[w]
    BY <1>6, <2>2
  <2> QED BY <1>4, <1>11, <1>13, <1>16, <2>2, <2>3, <2>4, <2>5
<1> QED BY <1>2, <1>14, <1>15, <1>16

-----------------------------------------------------------------------------
(***************************************************************************)
(* The theorems.                                                           *)
(***************************************************************************)
\* It holds at first
LEMMA InitInv ==
  Init => PositionInv
<1> SUFFICES ASSUME Init PROVE PositionInv
  OBVIOUS
<1>1. \A th \in Threads : sending[th] = <<>>
  BY DEF Init
<1>2. Trades \subseteq Threads /\ Paper \in Threads
  BY DEF Threads
<1>3. /\ NewTrade \in Trade /\ [state |-> "none", quantity |-> 0] \in Position
      /\ <<>> \in Seq(Signal)
  BY DEF NewTrade, Trade, Position
<1>4. Typed
  BY <1>3 DEF Init, Typed
<1>5. \A t \in Trades : ~Busy(sending, t, t) /\ ~Busy(sending, Paper, t)
  BY <1>1, <1>2, ScriptOfOne DEF Busy
<1>6. Sends(sending)
  BY <1>1, <1>2, <1>5 DEF Sends, Idle
<1>7. Plain(channel)
  BY DEF Init, Plain
<1>8. Booked
  <2> SUFFICES ASSUME NEW t \in Trades PROVE sending[t] = <<>>
    BY DEF Init, Booked
  <2> QED BY <1>1, <1>2
<1>9. FineAll
  <2> SUFFICES ASSUME NEW t \in Trades
               PROVE  Fine(t, trade[t], t \in listed, opening[t], position[t],
                           Left(sending, t), channel)
    BY DEF FineAll
  <2> DEFINE p == position[t]
             l == t \in listed
  <2>1. Left(sending, t) = 0
    BY <1>5, <1>6, LeftIs
  <2>2. p.state = "none" /\ p.quantity = 0 /\ trade[t] = NewTrade /\ opening[t] = "no" /\ l = FALSE
    BY DEF Init
  <2>3. channel = <<>> /\ Len(<<>>) = 0
    BY DEF Init
  <2>4. Signals(t, p, 0, <<>>)
    BY <2>2, <2>3 DEF Signals, Shape, Falls, Last, Above, Tells, Silent, Has
  <2>5. /\ NewTrade.e = 0 /\ NewTrade.x = 0 /\ NewTrade.quantity = 0
        /\ NewTrade.entry = "new" /\ NewTrade.exit = "new" /\ ~NewTrade.pos
    BY DEF NewTrade
  <2> HIDE DEF p, l
  <2>6. Known(t, NewTrade, FALSE, p, 0, <<>>)
    BY <2>2, <2>3, <2>5 DEF Known, Sound, Waiting, Entered, NoUpdate
  <2>7. Started(NewTrade, FALSE, "no", p)
    BY <2>2 DEF Started
  <2> QED BY <2>1, <2>2, <2>3, <2>4, <2>6, <2>7 DEF Fine, p, l
<1> QED BY <1>4, <1>6, <1>7, <1>8, <1>9 DEF PositionInv

\* and is preserved by each step.
LEMMA NextKept ==
  ASSUME Brackets \subseteq {"limit"}
  PROVE  PositionInv /\ [Next]_vars => PositionInv'
<1> SUFFICES ASSUME PositionInv, [Next]_vars
             PROVE  PositionInv'
  OBVIOUS
<1>1. ASSUME NEW t \in Trades, Operate(t)
      PROVE  PositionInv'
  BY <1>1, OpenKept, OpenReturnKept, CancelOpenKept, ModifyKept, CloseKept, ReduceKept
     DEF Operate
<1>2. CASE Update
  BY <1>2, SnapshotKept, RemoveOrdersKept, CloseBracketKept, UpdateOrderKept DEF Update
<1>3. CASE \E th \in Threads : Send(th)
  BY <1>3, SendKept
<1>4. CASE Deliver
  BY <1>4, DeliverKept
<1>5. CASE CleanupTrades
  BY <1>5, CleanupKept
<1>6. CASE UNCHANGED vars
  <2>1. /\ trade' = trade /\ listed' = listed /\ opening' = opening /\ book' = book
        /\ bracket' = bracket /\ position' = position /\ phase' = phase /\ todo' = todo
        /\ rm_list' = rm_list /\ sending' = sending /\ channel' = channel
    BY <1>6 DEF vars, paperVars
  <2>2. Typed' /\ Plain(channel)' /\ Sends(sending)'
    BY <2>1 DEF PositionInv, Typed
  <2>3. Booked' /\ FineAll'
    BY <2>1 DEF PositionInv, Booked, FineAll
  <2> QED BY <2>2, <2>3 DEF PositionInv
<1> QED BY <1>1, <1>2, <1>3, <1>4, <1>5, <1>6 DEF Next

\* What a trade exited is never more than what it entered
LEMMA InvTyped ==
  PositionInv => TypeOK
<1> SUFFICES ASSUME PositionInv PROVE TypeOK
  OBVIOUS
<1>1. \A t \in Trades : trade[t].x <= trade[t].e
  <2> SUFFICES ASSUME NEW t \in Trades PROVE trade[t].x <= trade[t].e
    OBVIOUS
  <2>1. trade[t].e \in Nat /\ trade[t].x \in Nat /\ trade[t].quantity \in Nat
    BY DEF PositionInv, Typed, Trade
  <2>2. Known(t, trade[t], t \in listed, position[t], Left(sending, t), channel)
    BY DEF PositionInv, FineAll, Fine
  <2>3. trade[t].e = 0 => trade[t].x = 0
    BY <2>2 DEF Known, Waiting
  <2>4. trade[t].e > 0 => trade[t].x + trade[t].quantity = trade[t].e
    BY <2>2 DEF Known, Entered
  <2> QED BY <2>1, <2>3, <2>4
<1> QED BY <1>1 DEF PositionInv, Typed, TypeOK, Position

\* Once the signals are served what a trade knows is what its position is
LEMMA InvAgreed ==
  PositionInv => Agreed
<1> SUFFICES ASSUME PositionInv, AtRest, NEW t \in Trades, trade[t].entry # "canceled"
             PROVE  LET u == trade[t]
                        p == position[t]
                    IN  /\ p.state = "opened" => t \in listed /\ u.pos
                        /\ t \in listed /\ u.pos =>
                             /\ p.state = "opened" /\ p.quantity = u.e - u.x
                             /\ u.quantity = p.quantity
  BY DEF Agreed
<1> DEFINE u == trade[t]
           p == position[t]
           l == t \in listed
           k == Left(sending, t)
           c == channel
<1>1. /\ u.e \in Nat /\ u.x \in Nat /\ u.quantity \in Nat /\ p.quantity \in Nat
      /\ p.state \in {"none", "opened", "closed"} /\ l \in BOOLEAN
  BY DEF PositionInv, Typed, Trade, Position
<1>2. Signals(t, p, k, c) /\ Known(t, u, l, p, k, c)
  BY DEF PositionInv, FineAll, Fine
<1>3. k = 0
  <2> SUFFICES ASSUME k # 0 PROVE FALSE
    OBVIOUS
  <2>1. Sends(sending) /\ t \in Threads /\ Paper \in Threads
    BY DEF PositionInv, Threads
  <2>2. k \in 1..3
    BY <2>1, LeftIs
  <2>3. PICK th \in {t, Paper} : sending[th] = Script(t, k)
    BY <2>1, LeftBy
  <2> QED BY <2>1, <2>2, <2>3, ScriptOfOne DEF AtRest
<1>4. Silent(c, t) /\ ~Has(c, PositionSig(t))
  <2>1. channel = <<>> /\ Len(<<>>) = 0
    BY DEF AtRest
  <2> QED BY <2>1 DEF Silent, Has
<1>5. u.entry # "canceled"
  OBVIOUS
<1> HIDE DEF u, p, l, k, c
<1>6. p.state # "none" => u.e > 0
  BY <1>1, <1>2, <1>3, <1>4, <1>5 DEF Known, Waiting
<1>7. u.e > 0 => /\ u.quantity = p.quantity /\ u.x + u.quantity = u.e
                 /\ l => u.pos /\ u.quantity > 0
                 /\ ~l => u.quantity = 0
  BY <1>2, <1>4 DEF Known, Entered
<1>8. p.state = "opened" => p.quantity > 0
  BY <1>2 DEF Signals
<1>9. p.state = "closed" => p.quantity = 0
  BY <1>2 DEF Signals
<1>10. u.pos => p.state # "none"
  BY <1>2 DEF Known, Sound
<1>11. p.state = "opened" => l /\ u.pos
  BY <1>1, <1>6, <1>7, <1>8
<1>12. l /\ u.pos => p.state = "opened" /\ p.quantity = u.e - u.x /\ u.quantity = p.quantity
  BY <1>1, <1>6, <1>7, <1>9, <1>10
<1> QED BY <1>11, <1>12 DEF u, p, l

\* A trade never exits more than its entry, whatever the orders, their executions,
\* the levels reached, the closings and the reductions, for every set of trades and
\* every quantity, when only limit orders have a take-profit or a stop-loss.
THEOREM PositionsTyped ==
  ASSUME Brackets \subseteq {"limit"}
  PROVE  Spec => []TypeOK
<1>1. Init => PositionInv
  BY InitInv
<1>2. PositionInv /\ [Next]_vars => PositionInv'
  BY NextKept
<1>3. PositionInv => TypeOK
  BY InvTyped
<1> QED BY <1>1, <1>2, <1>3, PTL DEF Spec

\* Under the same condition, once the signals are served each position is that of a
\* trade that knows it and its quantity, but for an entry that was canceled while
\* it was executed.
THEOREM TradesAgree ==
  ASSUME Brackets \subseteq {"limit"}
  PROVE  Spec => []Agreed
<1>1. Init => PositionInv
  BY InitInv
<1>2. PositionInv /\ [Next]_vars => PositionInv'
  BY NextKept
<1>3. PositionInv => Agreed
  BY InvAgreed
<1> QED BY <1>1, <1>2, <1>3, PTL DEF Spec
=============================================================================

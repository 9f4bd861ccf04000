----------------------- MODULE SharedHandlersProofs -----------------------
(***************************************************************************)
(* Theorems about SharedHandlers, for every set of strategy traders, of    *)
(* workers and of quantities.                                              *)
(*                                                                         *)
(* The mutexes are what the argument rests on: the steps of the daily      *)
(* limit are those of the owner of its mutex, so that the traders it still *)
(* has to lock are not locked; and whoever changes the table of a trader   *)
(* or gives its mutex back is the owner of that mutex.                     *)
(***************************************************************************)
EXTENDS SharedHandlers, FiniteSetTheorems, TLAPS

-----------------------------------------------------------------------------
(***************************************************************************)
(* The inductive invariant.                                                *)
(***************************************************************************)

\* A worker that processes the handlers of a trader owns its mutex.
WorkersHold ==
    \A w \in Workers :
        at[w].step # "idle" => /\ at[w].trader \in Traders
                               /\ mutex[at[w].trader] = w

\* Only one worker at a time is in the daily limit.
DailyHeld ==
    \A w \in Workers :
        at[w].step \in {"session", "unlock", "check", "lock"} => daily_mutex = w

\* What a lock has still to reach, each trader once, is not locked.
LockAhead ==
    \A w \in Workers :
        at[w].step = "lock" =>
            /\ \A i, j \in DOMAIN at[w].todo : i # j => at[w].todo[i] # at[w].todo[j]
            /\ \A i \in DOMAIN at[w].todo : markets[at[w].todo[i]] = Absent

\* The user owns the mutex of the trader whose table it has changed, or is about
\* to change.
UserHolds ==
    at[User].step \in {"count", "release"} =>
        /\ at[User].todo # <<>> /\ Head(at[User].todo) \in Traders
        /\ mutex[Head(at[User].todo)] = User

Installing(t) ==
    /\ at[User].step = "count" /\ at[User].handler = "reinvest"
    /\ t = Head(at[User].todo)

\* The table of a trader and the list of the reinvestment agree, but for the
\* trader it is being installed for.
TablesAgree ==
    /\ need_update \subseteq handled["reinvest"]
    /\ \A t \in Traders :
          IF Installing(t) THEN t \in installed["reinvest"]
          ELSE t \in installed["reinvest"] <=> t \in handled["reinvest"]

HandlersInv ==
    /\ TypeOK
    /\ WorkersHold /\ DailyHeld /\ LockAhead /\ UserHolds
    /\ QuantityKept /\ TablesAgree

-----------------------------------------------------------------------------
(***************************************************************************)
(* Lemmas about the data.                                                  *)
(***************************************************************************)

\* The strategy thread and the user are no workers, and no mutex is theirs for
\* having no owner.
LEMMA ThreadFacts ==
    /\ Workers \subseteq Threads /\ Strategy \in Threads /\ User \in Threads
    /\ Strategy \notin Workers /\ User \notin Workers /\ User # Strategy
    /\ Nobody \notin Threads
BY HandlersAssumption DEF Threads

LEMMA PositiveQuantities ==
    \A q \in Quantities : q \in Nat /\ q > 0 /\ q # Absent
BY HandlersAssumption DEF Absent

\* SetToSeq lists each trader once.
LEMMA OrderIsSequence ==
    /\ Order \in Seq(Traders)
    /\ \A i, j \in DOMAIN Order : i # j => Order[i] # Order[j]
<1> DEFINE n == Cardinality(Traders)
<1>1. n \in Nat /\ Bijection(1..n, Traders) # {}
  BY FS_CardinalityType, HandlersAssumption DEF ExistsBijection
<1>2. PICK f : f \in Bijection(1..n, Traders)
  BY <1>1
<1>3. f \in [1..n -> Traders] /\ IsInjective(f)
  BY <1>2, Zenon DEF Bijection, Injection
<1>4. Order \in [1..n -> Traders] /\ IsInjective(Order)
  BY <1>3, Zenon DEF Order, SetToSeq
<1> QED
  BY <1>1, <1>4 DEF IsInjective

\* The head and the rest of a sequence that is not empty.
LEMMA TailFacts ==
    ASSUME NEW S, NEW s \in Seq(S), s # <<>>
    PROVE  /\ Head(s) \in S /\ Head(s) = s[1] /\ 1 \in DOMAIN s
           /\ Tail(s) \in Seq(S)
           /\ \A i \in DOMAIN Tail(s) : i + 1 \in DOMAIN s /\ Tail(s)[i] = s[i + 1]
OBVIOUS

\* A thread that moves leaves the others where they are.
LEMMA MoveFacts ==
    ASSUME at \in [Threads -> Place], NEW th \in Threads, NEW p \in Place,
           at' = [at EXCEPT ![th] = p]
    PROVE  /\ at' \in [Threads -> Place]
           /\ at'[th] = p
           /\ \A x \in Threads \ {th} : at'[x] = at[x]
OBVIOUS

LEMMA AtPlace ==
    \A step \in Steps, t \in Traders \union {Nobody} :
        /\ At(step, t) \in Place
        /\ At(step, t).step = step /\ At(step, t).trader = t
        /\ At(step, t).handler = "none" /\ At(step, t).todo = <<>>
BY DEF At, Place

\* A mutex that is taken or left leaves the others to their owners.
LEMMA MutexFacts ==
    ASSUME mutex \in [Traders -> Threads \union {Nobody}], NEW t,
           NEW x \in Threads \union {Nobody},
           mutex' = [mutex EXCEPT ![t] = x]
    PROVE  /\ mutex' \in [Traders -> Threads \union {Nobody}]
           /\ t \in Traders => mutex'[t] = x
           /\ \A u \in Traders \ {t} : mutex'[u] = mutex[u]
OBVIOUS

\* An entry of a table of quantities that is changed.
LEMMA TableFacts ==
    ASSUME NEW S, NEW f \in [Traders -> S], NEW t \in Traders, NEW x \in S
    PROVE  /\ [f EXCEPT ![t] = x] \in [Traders -> S]
           /\ [f EXCEPT ![t] = x][t] = x
           /\ \A u \in Traders \ {t} : [f EXCEPT ![t] = x][u] = f[u]
OBVIOUS

LEMMA GotoFacts ==
    ASSUME at \in [Threads -> Place], NEW th \in Threads, NEW step \in Steps,
           Goto(th, step)
    PROVE  /\ at' \in [Threads -> Place]
           /\ at'[th].step = step
           /\ at'[th].trader = at[th].trader
           /\ at'[th].handler = at[th].handler
           /\ at'[th].todo = at[th].todo
           /\ \A x \in Threads \ {th} : at'[x] = at[x]
BY DEF Goto, Place

\* A worker begins to go through a list.
Begin(th, step, todo) ==
    at' = [at EXCEPT ![th].step = step, ![th].todo = todo]

LEMMA TodoFacts ==
    ASSUME at \in [Threads -> Place], NEW th \in Threads,
           NEW step \in Steps, NEW todo \in Seq(Traders),
           Begin(th, step, todo)
    PROVE  /\ at' \in [Threads -> Place]
           /\ at'[th].step = step
           /\ at'[th].trader = at[th].trader
           /\ at'[th].handler = at[th].handler
           /\ at'[th].todo = todo
           /\ \A x \in Threads \ {th} : at'[x] = at[x]
BY DEF Begin, Place

LEMMA RestFacts ==
    ASSUME at \in [Threads -> Place], NEW th \in Threads,
           at[th].todo # <<>>,
           at' = [at EXCEPT ![th].todo = Tail(@)]
    PROVE  /\ at' \in [Threads -> Place]
           /\ at'[th].step = at[th].step
           /\ at'[th].trader = at[th].trader
           /\ at'[th].handler = at[th].handler
           /\ at'[th].todo = Tail(at[th].todo)
           /\ \A x \in Threads \ {th} : at'[x] = at[x]
<1>1. at[th].todo \in Seq(Traders)
  BY DEF Place
<1>2. Tail(at[th].todo) \in Seq(Traders)
  BY <1>1, TailFacts
<1> QED
  BY <1>2 DEF Place

\* A worker begins to process the handlers of a trader.
LEMMA ProcessStep ==
    ASSUME HandlersInv, NEW w \in Workers, NEW t \in Traders, Process(w, t)
    PROVE  HandlersInv'
<1>1. /\ at[w].step = "idle"
      /\ mutex[t] = Nobody
      /\ mutex' \in [Traders -> Threads \union {Nobody}]
      /\ mutex'[t] = w
      /\ \A u \in Traders \ {t} : mutex'[u] = mutex[u]
      /\ UNCHANGED <<trade_mutex, daily_mutex, installed, handled, need_update,
                   markets, quantity, day, begin, exceeded, wanted>>
  BY ThreadFacts, MutexFacts DEF Process, locks, daily, HandlersInv, TypeOK,
    TakeMutex
<1>2. /\ at' \in [Threads -> Place]
      /\ at'[w].step = "reinvest"
      /\ at'[w].trader = t
      /\ at'[w].handler = "none"
      /\ at'[w].todo = <<>>
      /\ \A x \in Threads \ {w} : at'[x] = at[x]
  BY <1>1, ThreadFacts, MoveFacts, AtPlace DEF Process, HandlersInv, TypeOK,
    Steps
<1>3. TypeOK'
  BY <1>1, <1>2, ThreadFacts DEF HandlersInv, TypeOK
<1>4. /\ WorkersHold' /\ DailyHeld' /\ LockAhead'
      /\ UserHolds' /\ QuantityKept' /\ TablesAgree'
  BY <1>1, <1>2, ThreadFacts DEF HandlersInv, WorkersHold, DailyHeld, LockAhead,
    UserHolds, QuantityKept, TablesAgree, Installing
<1> QED
  BY <1>3, <1>4 DEF HandlersInv

\* A worker tests the reinvestment.
LEMMA ReinvestStep ==
    ASSUME HandlersInv, NEW w \in Workers, Reinvest(w)
    PROVE  HandlersInv'
<1>1. /\ at[w].step = "reinvest"
      /\ need_update' \subseteq need_update
      /\ UNCHANGED <<mutex, trade_mutex, daily_mutex, installed, handled,
                   markets, quantity, day, begin, exceeded, wanted>>
  BY DEF Reinvest, locks, daily
<1>2. /\ at' \in [Threads -> Place]
      /\ at'[w].step \in {"resize", "daily"}
      /\ at'[w].trader = at[w].trader
      /\ at'[w].handler = at[w].handler
      /\ at'[w].todo = at[w].todo
      /\ \A x \in Threads \ {w} : at'[x] = at[x]
  BY <1>1, ThreadFacts, GotoFacts DEF Reinvest, HandlersInv, TypeOK, Steps
<1>3. TypeOK'
  BY <1>1, <1>2, ThreadFacts DEF HandlersInv, TypeOK
<1>4. /\ WorkersHold' /\ DailyHeld' /\ LockAhead'
      /\ UserHolds' /\ QuantityKept' /\ TablesAgree'
  BY <1>1, <1>2, ThreadFacts DEF HandlersInv, WorkersHold, DailyHeld, LockAhead,
    UserHolds, QuantityKept, TablesAgree, Installing
<1> QED
  BY <1>3, <1>4 DEF HandlersInv

\* A worker has resized the trades.
LEMMA ResizeStep ==
    ASSUME HandlersInv, NEW w \in Workers, Resize(w)
    PROVE  HandlersInv'
<1>1. /\ at[w].step = "resize"
      /\ UNCHANGED <<mutex, trade_mutex, daily_mutex, installed, handled,
                   need_update, markets, quantity, day, begin, exceeded,
                   wanted>>
  BY DEF Resize, locks, daily
<1>2. /\ at' \in [Threads -> Place]
      /\ at'[w].step = "daily"
      /\ at'[w].trader = at[w].trader
      /\ at'[w].handler = at[w].handler
      /\ at'[w].todo = at[w].todo
      /\ \A x \in Threads \ {w} : at'[x] = at[x]
  BY <1>1, ThreadFacts, GotoFacts DEF Resize, HandlersInv, TypeOK, Steps
<1>3. TypeOK'
  BY <1>1, <1>2, ThreadFacts DEF HandlersInv, TypeOK
<1>4. /\ WorkersHold' /\ DailyHeld' /\ LockAhead'
      /\ UserHolds' /\ QuantityKept' /\ TablesAgree'
  BY <1>1, <1>2, ThreadFacts DEF HandlersInv, WorkersHold, DailyHeld, LockAhead,
    UserHolds, QuantityKept, TablesAgree, Installing
<1> QED
  BY <1>3, <1>4 DEF HandlersInv

\* A worker enters the daily limit: no other is in it.
LEMMA DailyStep ==
    ASSUME HandlersInv, NEW w \in Workers, Daily(w)
    PROVE  HandlersInv'
<1>1. /\ at[w].step = "daily"
      /\ \/ daily_mutex \in {Nobody, w} /\ daily_mutex' = w
         \/ daily_mutex' = daily_mutex /\ Goto(w, "leave")
      /\ UNCHANGED <<mutex, trade_mutex, installed, handled, need_update,
                   markets, quantity, day, begin, exceeded, wanted>>
  BY DEF Daily, locks, daily, Free
<1>2. /\ at' \in [Threads -> Place]
      /\ at'[w].step \in {"session", "leave"}
      /\ at'[w].step = "session" => daily_mutex' = w
      /\ at'[w].trader = at[w].trader
      /\ at'[w].handler = at[w].handler
      /\ at'[w].todo = at[w].todo
      /\ \A x \in Threads \ {w} : at'[x] = at[x]
  BY <1>1, ThreadFacts, GotoFacts DEF Daily, HandlersInv, TypeOK, Steps
<1>3. TypeOK'
  BY <1>1, <1>2, ThreadFacts DEF HandlersInv, TypeOK
<1>4. /\ WorkersHold' /\ DailyHeld' /\ LockAhead'
      /\ UserHolds' /\ QuantityKept' /\ TablesAgree'
  BY <1>1, <1>2, ThreadFacts DEF HandlersInv, WorkersHold, DailyHeld, LockAhead,
    UserHolds, QuantityKept, TablesAgree, Installing
<1> QED
  BY <1>3, <1>4 DEF HandlersInv

\* A new session leaves the quantities as they are.
LEMMA SessionStep ==
    ASSUME HandlersInv, NEW w \in Workers, Session(w)
    PROVE  HandlersInv'
<1>1. /\ at[w].step = "session"
      /\ begin' \in {begin, day}
      /\ exceeded' \in {exceeded, "no"}
      /\ UNCHANGED <<mutex, trade_mutex, daily_mutex, installed, handled,
                   need_update, markets, quantity, day, wanted>>
  BY DEF Session, locks, daily
<1>2. /\ at' \in [Threads -> Place]
      /\ at'[w].step \in {"unlock", "check"}
      /\ at'[w].trader = at[w].trader
      /\ at'[w].handler = at[w].handler
      /\ at'[w].todo \in Seq(Traders)
      /\ \A x \in Threads \ {w} : at'[x] = at[x]
  <2> DEFINE still == IF exceeded = "realized" THEN "no" ELSE exceeded
             todo == IF Locked /\ still = "no" THEN Order ELSE <<>>
  <2>1. todo \in Seq(Traders)
    BY OrderIsSequence
  <2>2. Begin(w, "unlock", todo) \/ Goto(w, "check")
    BY DEF Session, Begin
  <2>4. at \in [Threads -> Place] /\ "unlock" \in Steps /\ "check" \in Steps
    BY DEF HandlersInv, TypeOK, Steps
  <2>3. at[w].todo \in Seq(Traders)
    BY ThreadFacts DEF HandlersInv, TypeOK, Place
  <2> HIDE DEF todo
  <2> QED
    <3>1. CASE Begin(w, "unlock", todo)
      BY <2>1, <2>4, <3>1, ThreadFacts, TodoFacts
    <3>2. CASE Goto(w, "check")
      BY <2>3, <2>4, <3>2, ThreadFacts, GotoFacts
    <3> QED
      BY <2>2, <3>1, <3>2
<1>3. TypeOK'
  BY <1>1, <1>2, ThreadFacts DEF HandlersInv, TypeOK
<1>4. /\ WorkersHold' /\ DailyHeld' /\ LockAhead'
      /\ UserHolds' /\ QuantityKept' /\ TablesAgree'
  BY <1>1, <1>2, ThreadFacts DEF HandlersInv, WorkersHold, DailyHeld, LockAhead,
    UserHolds, QuantityKept, TablesAgree, Installing
<1> QED
  BY <1>3, <1>4 DEF HandlersInv

\* A trader that is unlocked has its quantity back.
LEMMA UnlockStep ==
    ASSUME HandlersInv, NEW w \in Workers, Unlock(w)
    PROVE  HandlersInv'
<1>1. /\ at[w].step = "unlock" /\ at[w].todo # <<>>
      /\ at[w].todo \in Seq(Traders)
      /\ Head(at[w].todo) \in Traders
      /\ UNCHANGED <<mutex, trade_mutex, daily_mutex, installed, handled,
                   need_update, day, begin, exceeded, wanted>>
  BY ThreadFacts, TailFacts DEF Unlock, locks, daily, HandlersInv, TypeOK, Place
<1>2. /\ at' \in [Threads -> Place]
      /\ at'[w].step = "unlock"
      /\ at'[w].trader = at[w].trader
      /\ at'[w].handler = at[w].handler
      /\ at'[w].todo = Tail(at[w].todo)
      /\ \A x \in Threads \ {w} : at'[x] = at[x]
  BY <1>1, ThreadFacts, RestFacts DEF Unlock, HandlersInv, TypeOK, Steps
<1>3. /\ markets' \in [Traders -> Quantities \union {0, Absent}]
      /\ quantity' \in [Traders -> Quantities \union {0}]
      /\ \A u \in Traders : \/ markets'[u] = markets[u] /\ quantity'[u] = quantity[u]
                            \/ markets'[u] = Absent /\ quantity'[u] = wanted[u]
  <2> DEFINE u == Head(at[w].todo)
  <2>1. CASE u \notin handled["daily"] \/ markets[u] = Absent
    BY <2>1 DEF Unlock, HandlersInv, TypeOK
  <2>2. CASE ~(u \notin handled["daily"] \/ markets[u] = Absent)
    <3>1. /\ markets[u] = wanted[u] /\ wanted[u] \in Quantities /\ wanted[u] > 0
      <4>1. markets[u] = wanted[u]
        BY <1>1, <2>2 DEF HandlersInv, QuantityKept
      <4>2. wanted[u] \in Quantities
        BY <1>1 DEF HandlersInv, TypeOK
      <4> QED
        BY <4>1, <4>2, PositiveQuantities
    <3>2. /\ markets' = [markets EXCEPT ![u] = Absent]
          /\ quantity' = [quantity EXCEPT ![u] = wanted[u]]
      BY <2>2, <3>1 DEF Unlock
    <3> QED
      BY <1>1, <3>1, <3>2, TableFacts DEF HandlersInv, TypeOK
  <2> QED
    BY <2>1, <2>2
<1>4. TypeOK'
  BY <1>1, <1>2, ThreadFacts, <1>3 DEF HandlersInv, TypeOK
<1>5. LockAhead'
  BY <1>1, <1>2, ThreadFacts, <1>3 DEF HandlersInv, LockAhead, DailyHeld
<1>6. /\ WorkersHold' /\ DailyHeld' /\ UserHolds'
      /\ QuantityKept' /\ TablesAgree'
  BY <1>1, <1>2, ThreadFacts, <1>3 DEF HandlersInv, WorkersHold, DailyHeld,
    UserHolds, QuantityKept, TablesAgree, Installing
<1> QED
  BY <1>4, <1>5, <1>6 DEF HandlersInv

\* All the traders are unlocked.
LEMMA UnlockedStep ==
    ASSUME HandlersInv, NEW w \in Workers, Unlocked(w)
    PROVE  HandlersInv'
<1>1. /\ at[w].step = "unlock"
      /\ UNCHANGED <<mutex, trade_mutex, daily_mutex, installed, handled,
                   need_update, markets, quantity, day, begin, exceeded,
                   wanted>>
  BY DEF Unlocked, locks, daily
<1>2. /\ at' \in [Threads -> Place]
      /\ at'[w].step = "check"
      /\ at'[w].trader = at[w].trader
      /\ at'[w].handler = at[w].handler
      /\ at'[w].todo = at[w].todo
      /\ \A x \in Threads \ {w} : at'[x] = at[x]
  BY <1>1, ThreadFacts, GotoFacts DEF Unlocked, HandlersInv, TypeOK, Steps
<1>3. TypeOK'
  BY <1>1, <1>2, ThreadFacts DEF HandlersInv, TypeOK
<1>4. /\ WorkersHold' /\ DailyHeld' /\ LockAhead'
      /\ UserHolds' /\ QuantityKept' /\ TablesAgree'
  BY <1>1, <1>2, ThreadFacts DEF HandlersInv, WorkersHold, DailyHeld, LockAhead,
    UserHolds, QuantityKept, TablesAgree, Installing
<1> QED
  BY <1>3, <1>4 DEF HandlersInv

\* A lock begins when no trader is locked.
LEMMA CheckStep ==
    ASSUME HandlersInv, NEW w \in Workers, Check(w)
    PROVE  HandlersInv'
<1>1. /\ at[w].step = "check"
      /\ UNCHANGED <<mutex, trade_mutex, daily_mutex, installed, handled,
                   need_update, markets, quantity, day, begin, exceeded,
                   wanted>>
  BY DEF Check, locks, daily
<1>2. /\ at' \in [Threads -> Place]
      /\ at'[w].step = "lock"
      /\ at'[w].trader = at[w].trader
      /\ at'[w].handler = at[w].handler
      /\ at'[w].todo \in {Order, <<>>}
      /\ at'[w].todo # <<>> => ~Locked
      /\ \A x \in Threads \ {w} : at'[x] = at[x]
  <2> DEFINE todo == IF ~Locked /\ exceeded # "no" THEN Order ELSE <<>>
  <2>1. /\ todo \in Seq(Traders) /\ todo \in {Order, <<>>}
        /\ todo # <<>> => ~Locked
    BY OrderIsSequence
  <2>2. Begin(w, "lock", todo)
    BY DEF Check, Begin
  <2>3. at \in [Threads -> Place] /\ "lock" \in Steps
    BY DEF HandlersInv, TypeOK, Steps
  <2> HIDE DEF todo
  <2> QED
    BY <2>1, <2>2, <2>3, ThreadFacts, TodoFacts
<1>3. TypeOK'
  BY <1>1, <1>2, ThreadFacts DEF HandlersInv, TypeOK
<1>4. LockAhead'
  BY <1>1, <1>2, ThreadFacts, OrderIsSequence DEF HandlersInv, LockAhead, Locked
<1>5. /\ WorkersHold' /\ DailyHeld' /\ UserHolds'
      /\ QuantityKept' /\ TablesAgree'
  BY <1>1, <1>2, ThreadFacts DEF HandlersInv, WorkersHold, DailyHeld, UserHolds,
    QuantityKept, TablesAgree, Installing
<1> QED
  BY <1>3, <1>4, <1>5 DEF HandlersInv

\* The quantity of a trader is saved once.
LEMMA LockStep ==
    ASSUME HandlersInv, NEW w \in Workers, Lock(w)
    PROVE  HandlersInv'
<1>1. /\ at[w].step = "lock" /\ at[w].todo # <<>>
      /\ at[w].todo \in Seq(Traders)
      /\ Head(at[w].todo) \in Traders
      /\ UNCHANGED <<mutex, trade_mutex, daily_mutex, installed, handled,
                   need_update, day, begin, exceeded, wanted>>
  BY ThreadFacts, TailFacts DEF Lock, locks, daily, HandlersInv, TypeOK, Place
<1>2. /\ at' \in [Threads -> Place]
      /\ at'[w].step = "lock"
      /\ at'[w].trader = at[w].trader
      /\ at'[w].handler = at[w].handler
      /\ at'[w].todo = Tail(at[w].todo)
      /\ \A x \in Threads \ {w} : at'[x] = at[x]
  BY <1>1, ThreadFacts, RestFacts DEF Lock, HandlersInv, TypeOK, Steps
<1>3. /\ markets' \in [Traders -> Quantities \union {0, Absent}]
      /\ quantity' \in [Traders -> Quantities \union {0}]
      /\ \A u \in Traders \ {Head(at[w].todo)} :
             markets'[u] = markets[u] /\ quantity'[u] = quantity[u]
      /\ LET u == Head(at[w].todo)
         IN  \/ markets'[u] = markets[u] /\ quantity'[u] = quantity[u]
             \/ markets'[u] = wanted[u] /\ quantity'[u] = 0
  <2> DEFINE u == Head(at[w].todo)
  <2>1. CASE u \notin handled["daily"]
    BY <2>1 DEF Lock, HandlersInv, TypeOK
  <2>2. CASE u \in handled["daily"]
    <3>1. /\ quantity[u] = wanted[u] /\ wanted[u] \in Quantities
      BY <1>1, TailFacts DEF HandlersInv, TypeOK, QuantityKept, LockAhead
    <3>2. /\ markets' = [markets EXCEPT ![u] = wanted[u]]
          /\ quantity' = [quantity EXCEPT ![u] = 0]
      BY <2>2, <3>1 DEF Lock
    <3> QED
      BY <1>1, <3>1, <3>2, TableFacts DEF HandlersInv, TypeOK
  <2> QED
    BY <2>1, <2>2
<1>4. TypeOK'
  BY <1>1, <1>2, ThreadFacts, <1>3 DEF HandlersInv, TypeOK
<1>5. LockAhead'
  <2> SUFFICES ASSUME NEW v \in Workers, at'[v].step = "lock"
               PROVE  /\ \A i, j \in DOMAIN at'[v].todo :
                            i # j => at'[v].todo[i] # at'[v].todo[j]
                      /\ \A i \in DOMAIN at'[v].todo :
                            markets'[at'[v].todo[i]] = Absent
    BY DEF LockAhead
  <2>1. v = w
    BY <1>1, <1>2, ThreadFacts DEF HandlersInv, DailyHeld
  <2> DEFINE s == at[w].todo
  <2>2. /\ s \in Seq(Traders) /\ s # <<>>
        /\ \A i, j \in DOMAIN s : i # j => s[i] # s[j]
        /\ \A i \in DOMAIN s : markets[s[i]] = Absent
    BY <1>1 DEF HandlersInv, LockAhead
  <2> HIDE DEF s
  <2>3. /\ Head(s) = s[1] /\ 1 \in DOMAIN s
        /\ \A i \in DOMAIN Tail(s) : i + 1 \in DOMAIN s /\ Tail(s)[i] = s[i + 1]
        /\ DOMAIN Tail(s) \subseteq Nat \ {0} /\ DOMAIN s \subseteq Nat
    BY <2>2
  <2>4. \A i \in DOMAIN Tail(s) : /\ Tail(s)[i] \in Traders \ {Head(s)}
                                 /\ markets[Tail(s)[i]] = Absent
    BY <2>2, <2>3
  <2>5. \A i, j \in DOMAIN Tail(s) : i # j => Tail(s)[i] # Tail(s)[j]
    BY <2>2, <2>3
  <2>6. at'[v].todo = Tail(s)
    BY <1>2, <2>1 DEF s
  <2>7. \A u \in Traders \ {Head(s)} : markets'[u] = markets[u]
    BY <1>3 DEF s
  <2> QED
    BY <2>4, <2>5, <2>6, <2>7
<1>6. QuantityKept'
  BY <1>1, <1>2, ThreadFacts, <1>3, HandlersAssumption DEF HandlersInv,
    QuantityKept, TypeOK, Absent
<1>7. /\ WorkersHold' /\ DailyHeld' /\ UserHolds'
      /\ TablesAgree'
  BY <1>1, <1>2, ThreadFacts, <1>3 DEF HandlersInv, WorkersHold, DailyHeld,
    UserHolds, TablesAgree, Installing
<1> QED
  BY <1>4, <1>5, <1>6, <1>7 DEF HandlersInv

\* A worker leaves the daily limit.
LEMMA EndDailyStep ==
    ASSUME HandlersInv, NEW w \in Workers, EndDaily(w)
    PROVE  HandlersInv'
<1>1. /\ at[w].step = "lock"
      /\ daily_mutex' = Nobody
      /\ UNCHANGED <<mutex, trade_mutex, installed, handled, need_update,
                   markets, quantity, day, begin, exceeded, wanted>>
  BY DEF EndDaily, locks, daily
<1>2. /\ at' \in [Threads -> Place]
      /\ at'[w].step = "leave"
      /\ at'[w].trader = at[w].trader
      /\ at'[w].handler = at[w].handler
      /\ at'[w].todo = at[w].todo
      /\ \A x \in Threads \ {w} : at'[x] = at[x]
  BY <1>1, ThreadFacts, GotoFacts DEF EndDaily, HandlersInv, TypeOK, Steps
<1>3. TypeOK'
  BY <1>1, <1>2, ThreadFacts DEF HandlersInv, TypeOK
<1>4. /\ WorkersHold' /\ DailyHeld' /\ LockAhead'
      /\ UserHolds' /\ QuantityKept' /\ TablesAgree'
  BY <1>1, <1>2, ThreadFacts DEF HandlersInv, WorkersHold, DailyHeld, LockAhead,
    UserHolds, QuantityKept, TablesAgree, Installing
<1> QED
  BY <1>3, <1>4 DEF HandlersInv

\* A worker leaves the mutex of its trader.
LEMMA LeaveStep ==
    ASSUME HandlersInv, NEW w \in Workers, Leave(w)
    PROVE  HandlersInv'
<1>1. /\ at[w].step = "leave"
      /\ at[w].trader \in Traders
      /\ mutex[at[w].trader] = w
      /\ mutex' \in [Traders -> Threads \union {Nobody}]
      /\ mutex'[at[w].trader] = Nobody
      /\ \A u \in Traders \ {at[w].trader} : mutex'[u] = mutex[u]
      /\ UNCHANGED <<trade_mutex, daily_mutex, installed, handled, need_update,
                   markets, quantity, day, begin, exceeded, wanted>>
  BY ThreadFacts, MutexFacts DEF Leave, locks, daily, HandlersInv, TypeOK,
    WorkersHold, LeaveMutex
<1>2. /\ at' \in [Threads -> Place]
      /\ at'[w].step = "idle"
      /\ at'[w].trader = Nobody
      /\ at'[w].handler = "none"
      /\ at'[w].todo = <<>>
      /\ \A x \in Threads \ {w} : at'[x] = at[x]
  BY <1>1, ThreadFacts, MoveFacts, AtPlace DEF Leave, Idle, HandlersInv, TypeOK,
    Steps
<1>3. TypeOK'
  BY <1>1, <1>2, ThreadFacts DEF HandlersInv, TypeOK
<1>4. /\ WorkersHold' /\ DailyHeld' /\ LockAhead'
      /\ UserHolds' /\ QuantityKept' /\ TablesAgree'
  BY <1>1, <1>2, ThreadFacts DEF HandlersInv, WorkersHold, DailyHeld, LockAhead,
    UserHolds, QuantityKept, TablesAgree, Installing
<1> QED
  BY <1>3, <1>4 DEF HandlersInv

\* The strategy thread begins to serve a signal.
LEMMA OrderSignalStep ==
    ASSUME HandlersInv, NEW t \in Traders, OrderSignal(t)
    PROVE  HandlersInv'
<1>1. /\ trade_mutex' \in [Traders -> Threads \union {Nobody}]
      /\ UNCHANGED <<mutex, daily_mutex, installed, handled, need_update,
                   markets, quantity, day, begin, exceeded, wanted>>
  BY ThreadFacts DEF OrderSignal, locks, daily, Trader, HandlersInv, TypeOK
<1>2. /\ at' \in [Threads -> Place]
      /\ at'[Strategy].step = "global"
      /\ at'[Strategy].trader = t
      /\ at'[Strategy].handler = "none"
      /\ at'[Strategy].todo = <<>>
      /\ \A x \in Threads \ {Strategy} : at'[x] = at[x]
  BY <1>1, ThreadFacts, MoveFacts, AtPlace DEF OrderSignal, HandlersInv, TypeOK,
    Steps
<1>3. TypeOK'
  BY <1>1, <1>2, ThreadFacts DEF HandlersInv, TypeOK
<1>4. /\ WorkersHold' /\ DailyHeld' /\ LockAhead'
      /\ UserHolds' /\ QuantityKept' /\ TablesAgree'
  BY <1>1, <1>2, ThreadFacts DEF HandlersInv, WorkersHold, DailyHeld, LockAhead,
    UserHolds, QuantityKept, TablesAgree, Installing
<1> QED
  BY <1>3, <1>4 DEF HandlersInv

\* The daily limit is informed.
LEMMA InformGlobalStep ==
    ASSUME HandlersInv, InformGlobal
    PROVE  HandlersInv'
<1>1. /\ at[Strategy].step = "global"
      /\ UNCHANGED <<mutex, trade_mutex, daily_mutex, installed, handled,
                   need_update, markets, quantity, day, begin, exceeded,
                   wanted>>
  BY DEF InformGlobal, locks, daily, Trader
<1>2. /\ at' \in [Threads -> Place]
      /\ at'[Strategy].step = "test"
      /\ at'[Strategy].trader = at[Strategy].trader
      /\ at'[Strategy].handler = at[Strategy].handler
      /\ at'[Strategy].todo = at[Strategy].todo
      /\ \A x \in Threads \ {Strategy} : at'[x] = at[x]
  BY <1>1, ThreadFacts, GotoFacts DEF InformGlobal, HandlersInv, TypeOK, Steps
<1>3. TypeOK'
  BY <1>1, <1>2, ThreadFacts DEF HandlersInv, TypeOK
<1>4. /\ WorkersHold' /\ DailyHeld' /\ LockAhead'
      /\ UserHolds' /\ QuantityKept' /\ TablesAgree'
  BY <1>1, <1>2, ThreadFacts DEF HandlersInv, WorkersHold, DailyHeld, LockAhead,
    UserHolds, QuantityKept, TablesAgree, Installing
<1> QED
  BY <1>3, <1>4 DEF HandlersInv

\* The table of the trader is read.
LEMMA TestStep ==
    ASSUME HandlersInv, Test
    PROVE  HandlersInv'
<1>1. /\ at[Strategy].step = "test"
      /\ UNCHANGED <<mutex, trade_mutex, daily_mutex, installed, handled,
                   need_update, markets, quantity, day, begin, exceeded,
                   wanted>>
  BY DEF Test, locks, daily, Trader
<1>2. /\ at' \in [Threads -> Place]
      /\ at'[Strategy].step \in {"call", "end"}
      /\ at'[Strategy].trader = at[Strategy].trader
      /\ at'[Strategy].handler = at[Strategy].handler
      /\ at'[Strategy].todo = at[Strategy].todo
      /\ \A x \in Threads \ {Strategy} : at'[x] = at[x]
  BY <1>1, ThreadFacts, GotoFacts DEF Test, HandlersInv, TypeOK, Steps
<1>3. TypeOK'
  BY <1>1, <1>2, ThreadFacts DEF HandlersInv, TypeOK
<1>4. /\ WorkersHold' /\ DailyHeld' /\ LockAhead'
      /\ UserHolds' /\ QuantityKept' /\ TablesAgree'
  BY <1>1, <1>2, ThreadFacts DEF HandlersInv, WorkersHold, DailyHeld, LockAhead,
    UserHolds, QuantityKept, TablesAgree, Installing
<1> QED
  BY <1>3, <1>4 DEF HandlersInv

\* Only traders the reinvestment counts are asked for an update.
LEMMA CallStep ==
    ASSUME HandlersInv, Call
    PROVE  HandlersInv'
<1>1. /\ at[Strategy].step = "call"
      /\ need_update' \in {need_update, handled["reinvest"]}
      /\ UNCHANGED <<mutex, trade_mutex, daily_mutex, installed, handled,
                   markets, quantity, day, begin, exceeded, wanted>>
  BY DEF Call, locks, daily, Trader
<1>2. /\ at' \in [Threads -> Place]
      /\ at'[Strategy].step = "end"
      /\ at'[Strategy].trader = at[Strategy].trader
      /\ at'[Strategy].handler = at[Strategy].handler
      /\ at'[Strategy].todo = at[Strategy].todo
      /\ \A x \in Threads \ {Strategy} : at'[x] = at[x]
  BY <1>1, ThreadFacts, GotoFacts DEF Call, HandlersInv, TypeOK, Steps
<1>3. TypeOK'
  BY <1>1, <1>2, ThreadFacts DEF HandlersInv, TypeOK
<1>4. /\ WorkersHold' /\ DailyHeld' /\ LockAhead'
      /\ UserHolds' /\ QuantityKept' /\ TablesAgree'
  BY <1>1, <1>2, ThreadFacts DEF HandlersInv, WorkersHold, DailyHeld, LockAhead,
    UserHolds, QuantityKept, TablesAgree, Installing
<1> QED
  BY <1>3, <1>4 DEF HandlersInv

\* The signal is served.
LEMMA EndSignalStep ==
    ASSUME HandlersInv, EndSignal
    PROVE  HandlersInv'
<1>1. /\ trade_mutex' \in [Traders -> Threads \union {Nobody}]
      /\ UNCHANGED <<mutex, daily_mutex, installed, handled, need_update,
                   markets, quantity, day, begin, exceeded, wanted>>
  BY ThreadFacts DEF EndSignal, locks, daily, Trader, HandlersInv, TypeOK
<1>2. /\ at' \in [Threads -> Place]
      /\ at'[Strategy].step = "idle"
      /\ at'[Strategy].trader = Nobody
      /\ at'[Strategy].handler = "none"
      /\ at'[Strategy].todo = <<>>
      /\ \A x \in Threads \ {Strategy} : at'[x] = at[x]
  BY <1>1, ThreadFacts, MoveFacts, AtPlace DEF EndSignal, Idle, HandlersInv,
    TypeOK, Steps
<1>3. TypeOK'
  BY <1>1, <1>2, ThreadFacts DEF HandlersInv, TypeOK
<1>4. /\ WorkersHold' /\ DailyHeld' /\ LockAhead'
      /\ UserHolds' /\ QuantityKept' /\ TablesAgree'
  BY <1>1, <1>2, ThreadFacts DEF HandlersInv, WorkersHold, DailyHeld, LockAhead,
    UserHolds, QuantityKept, TablesAgree, Installing
<1> QED
  BY <1>3, <1>4 DEF HandlersInv

\* The user begins a command.
LEMMA CommandStep ==
    ASSUME HandlersInv, NEW h \in Handlers, NEW step \in {"install", "uninstall"}, Command(h, step)
    PROVE  HandlersInv'
<1>1. /\ at[User].step = "idle"
      /\ UNCHANGED <<mutex, trade_mutex, daily_mutex, installed, handled,
                   need_update, markets, quantity, day, begin, exceeded,
                   wanted>>
  BY DEF Command, locks, daily
<1>2. /\ at' \in [Threads -> Place]
      /\ at'[User].step = step
      /\ at'[User].trader = Nobody
      /\ at'[User].handler = h
      /\ at'[User].todo = Order
      /\ \A x \in Threads \ {User} : at'[x] = at[x]
  BY <1>1, ThreadFacts, MoveFacts, OrderIsSequence, HandlersAssumption DEF
    Command, Place, HandlersInv, TypeOK, Steps
<1>3. TypeOK'
  BY <1>1, <1>2, ThreadFacts DEF HandlersInv, TypeOK
<1>4. /\ WorkersHold' /\ DailyHeld' /\ LockAhead'
      /\ UserHolds' /\ QuantityKept' /\ TablesAgree'
  BY <1>1, <1>2, ThreadFacts DEF HandlersInv, WorkersHold, DailyHeld, LockAhead,
    UserHolds, QuantityKept, TablesAgree, Installing
<1> QED
  BY <1>3, <1>4 DEF HandlersInv

\* The handler is put in the table of a trader, under its mutex.
LEMMA InstallStep ==
    ASSUME HandlersInv, Install
    PROVE  HandlersInv'
<1>1. /\ at[User].step = "install" /\ at[User].todo # <<>>
      /\ Head(at[User].todo) \in Traders
      /\ mutex[Head(at[User].todo)] = Nobody
      /\ at[User].handler \in {"none", "daily", "reinvest"}
      /\ installed' =
           [installed EXCEPT ![at[User].handler] = @ \union {Head(at[User].todo)}]
      /\ mutex' \in [Traders -> Threads \union {Nobody}]
      /\ mutex'[Head(at[User].todo)] = User
      /\ \A u \in Traders \ {Head(at[User].todo)} : mutex'[u] = mutex[u]
      /\ UNCHANGED <<trade_mutex, daily_mutex, handled, need_update, markets,
                   quantity, day, begin, exceeded, wanted>>
  BY ThreadFacts, MutexFacts, TailFacts DEF Install, locks, daily, HandlersInv,
    TypeOK, Place, TakeMutex
<1>2. /\ at' \in [Threads -> Place]
      /\ at'[User].step = "count"
      /\ at'[User].trader = at[User].trader
      /\ at'[User].handler = at[User].handler
      /\ at'[User].todo = at[User].todo
      /\ \A x \in Threads \ {User} : at'[x] = at[x]
  BY <1>1, ThreadFacts, GotoFacts DEF Install, HandlersInv, TypeOK, Steps
<1>3. TypeOK'
  BY <1>1, <1>2, ThreadFacts DEF HandlersInv, TypeOK
<1>4. TablesAgree'
  <2> DEFINE u == Head(at[User].todo)
             h == at[User].handler
  <2>1. /\ installed'["reinvest"] =
              IF h = "reinvest" THEN installed["reinvest"] \union {u}
              ELSE installed["reinvest"]
        /\ handled' = handled /\ need_update' = need_update
    BY <1>1 DEF HandlersInv, TypeOK
  <2> QED
    BY <1>1, <1>2, <2>1 DEF HandlersInv, TablesAgree, Installing
<1>5. /\ WorkersHold' /\ DailyHeld' /\ LockAhead'
      /\ UserHolds' /\ QuantityKept'
  BY <1>1, <1>2, ThreadFacts DEF HandlersInv, WorkersHold, DailyHeld, LockAhead,
    UserHolds, QuantityKept
<1> QED
  BY <1>3, <1>4, <1>5 DEF HandlersInv

\* The trader is counted, and its mutex left.
LEMMA CountStep ==
    ASSUME HandlersInv, Count
    PROVE  HandlersInv'
<1>1. /\ at[User].step = "count" /\ at[User].todo # <<>>
      /\ Head(at[User].todo) \in Traders
      /\ mutex[Head(at[User].todo)] = User
      /\ at[User].handler \in {"none", "daily", "reinvest"}
      /\ handled' =
           [handled EXCEPT ![at[User].handler] = @ \union {Head(at[User].todo)}]
      /\ mutex' \in [Traders -> Threads \union {Nobody}]
      /\ mutex'[Head(at[User].todo)] = Nobody
      /\ \A u \in Traders \ {Head(at[User].todo)} : mutex'[u] = mutex[u]
      /\ UNCHANGED <<trade_mutex, daily_mutex, installed, need_update, markets,
                   quantity, day, begin, exceeded, wanted>>
  BY ThreadFacts, MutexFacts, TailFacts DEF Count, locks, daily, HandlersInv,
    TypeOK, Place, LeaveMutex, UserHolds
<1>2. /\ at' \in [Threads -> Place]
      /\ at'[User].step = "install"
      /\ at'[User].trader = at[User].trader
      /\ at'[User].handler = at[User].handler
      /\ at'[User].todo = Tail(at[User].todo)
      /\ \A x \in Threads \ {User} : at'[x] = at[x]
  <2>1. Tail(at[User].todo) \in Seq(Traders)
    BY <1>1, ThreadFacts, TailFacts DEF HandlersInv, TypeOK, Place
  <2>2. at \in [Threads -> Place] /\ "install" \in Steps
    BY DEF HandlersInv, TypeOK, Steps
  <2>3. Begin(User, "install", Tail(at[User].todo))
    BY DEF Begin, Count
  <2> QED
    BY <2>1, <2>2, <2>3, ThreadFacts, TodoFacts
<1>3. TypeOK'
  BY <1>1, <1>2, ThreadFacts DEF HandlersInv, TypeOK
<1>4. TablesAgree'
  <2> DEFINE u == Head(at[User].todo)
             h == at[User].handler
  <2>1. /\ handled'["reinvest"] =
              IF h = "reinvest" THEN handled["reinvest"] \union {u}
              ELSE handled["reinvest"]
        /\ installed' = installed /\ need_update' = need_update
    BY <1>1 DEF HandlersInv, TypeOK
  <2> QED
    BY <1>1, <1>2, <2>1 DEF HandlersInv, TablesAgree, Installing
<1>5. /\ WorkersHold' /\ DailyHeld' /\ LockAhead'
      /\ UserHolds' /\ QuantityKept'
  BY <1>1, <1>2, ThreadFacts DEF HandlersInv, WorkersHold, DailyHeld, LockAhead,
    UserHolds, QuantityKept
<1> QED
  BY <1>3, <1>4, <1>5 DEF HandlersInv

\* A handler is about to be removed from a trader, under its mutex.
LEMMA UninstallStep ==
    ASSUME HandlersInv, Uninstall
    PROVE  HandlersInv'
<1>1. /\ at[User].step = "uninstall" /\ at[User].todo # <<>>
      /\ Head(at[User].todo) \in Traders
      /\ mutex[Head(at[User].todo)] = Nobody
      /\ mutex' \in [Traders -> Threads \union {Nobody}]
      /\ mutex'[Head(at[User].todo)] = User
      /\ \A u \in Traders \ {Head(at[User].todo)} : mutex'[u] = mutex[u]
      /\ UNCHANGED <<trade_mutex, daily_mutex, installed, handled, need_update,
                   markets, quantity, day, begin, exceeded, wanted>>
  BY ThreadFacts, MutexFacts, TailFacts DEF Uninstall, locks, daily,
    HandlersInv, TypeOK, Place, TakeMutex
<1>2. /\ at' \in [Threads -> Place]
      /\ at'[User].step = "release"
      /\ at'[User].trader = at[User].trader
      /\ at'[User].handler = at[User].handler
      /\ at'[User].todo = at[User].todo
      /\ \A x \in Threads \ {User} : at'[x] = at[x]
  BY <1>1, ThreadFacts, GotoFacts DEF Uninstall, HandlersInv, TypeOK, Steps
<1>3. TypeOK'
  BY <1>1, <1>2, ThreadFacts DEF HandlersInv, TypeOK
<1>4. /\ WorkersHold' /\ DailyHeld' /\ LockAhead'
      /\ UserHolds' /\ QuantityKept' /\ TablesAgree'
  BY <1>1, <1>2, ThreadFacts DEF HandlersInv, WorkersHold, DailyHeld, LockAhead,
    UserHolds, QuantityKept, TablesAgree, Installing
<1> QED
  BY <1>3, <1>4 DEF HandlersInv

\* The trader is no longer counted, nor asked for an update.
LEMMA ReleaseStep ==
    ASSUME HandlersInv, Release
    PROVE  HandlersInv'
<1>1. /\ at[User].step = "release" /\ at[User].todo # <<>>
      /\ Head(at[User].todo) \in Traders
      /\ mutex[Head(at[User].todo)] = User
      /\ handled' = [handled EXCEPT !["reinvest"] = @ \ {Head(at[User].todo)}]
      /\ installed' = [installed EXCEPT !["reinvest"] = @ \ {Head(at[User].todo)}]
      /\ need_update' = need_update \ {Head(at[User].todo)}
      /\ mutex' \in [Traders -> Threads \union {Nobody}]
      /\ mutex'[Head(at[User].todo)] = Nobody
      /\ \A u \in Traders \ {Head(at[User].todo)} : mutex'[u] = mutex[u]
      /\ UNCHANGED <<trade_mutex, daily_mutex, markets, quantity, day, begin,
                   exceeded, wanted>>
  BY ThreadFacts, MutexFacts, TailFacts DEF Release, locks, daily, HandlersInv,
    TypeOK, Place, LeaveMutex, UserHolds
<1>2. /\ at' \in [Threads -> Place]
      /\ at'[User].step = "uninstall"
      /\ at'[User].trader = at[User].trader
      /\ at'[User].handler = at[User].handler
      /\ at'[User].todo = Tail(at[User].todo)
      /\ \A x \in Threads \ {User} : at'[x] = at[x]
  <2>1. Tail(at[User].todo) \in Seq(Traders)
    BY <1>1, ThreadFacts, TailFacts DEF HandlersInv, TypeOK, Place
  <2>2. at \in [Threads -> Place] /\ "uninstall" \in Steps
    BY DEF HandlersInv, TypeOK, Steps
  <2>3. Begin(User, "uninstall", Tail(at[User].todo))
    BY DEF Begin, Release
  <2> QED
    BY <2>1, <2>2, <2>3, ThreadFacts, TodoFacts
<1>3. TypeOK'
  BY <1>1, <1>2, ThreadFacts DEF HandlersInv, TypeOK
<1>4. TablesAgree'
  <2> DEFINE u == Head(at[User].todo)
  <2>1. /\ handled'["reinvest"] = handled["reinvest"] \ {u}
        /\ installed'["reinvest"] = installed["reinvest"] \ {u}
        /\ need_update' = need_update \ {u}
    BY <1>1 DEF HandlersInv, TypeOK
  <2> QED
    BY <1>1, <1>2, <2>1 DEF HandlersInv, TablesAgree, Installing
<1>5. /\ WorkersHold' /\ DailyHeld' /\ LockAhead'
      /\ UserHolds' /\ QuantityKept'
  BY <1>1, <1>2, ThreadFacts DEF HandlersInv, WorkersHold, DailyHeld, LockAhead,
    UserHolds, QuantityKept
<1> QED
  BY <1>3, <1>4, <1>5 DEF HandlersInv

\* The command is over.
LEMMA EndCommandStep ==
    ASSUME HandlersInv, EndCommand
    PROVE  HandlersInv'
<1>1. /\ at[User].step \in {"install", "uninstall"}
      /\ UNCHANGED <<mutex, trade_mutex, daily_mutex, installed, handled,
                   need_update, markets, quantity, day, begin, exceeded,
                   wanted>>
  BY DEF EndCommand, locks, daily
<1>2. /\ at' \in [Threads -> Place]
      /\ at'[User].step = "idle"
      /\ at'[User].trader = Nobody
      /\ at'[User].handler = "none"
      /\ at'[User].todo = <<>>
      /\ \A x \in Threads \ {User} : at'[x] = at[x]
  BY <1>1, ThreadFacts, MoveFacts, AtPlace DEF EndCommand, Idle, HandlersInv,
    TypeOK, Steps
<1>3. TypeOK'
  BY <1>1, <1>2, ThreadFacts DEF HandlersInv, TypeOK
<1>4. /\ WorkersHold' /\ DailyHeld' /\ LockAhead'
      /\ UserHolds' /\ QuantityKept' /\ TablesAgree'
  BY <1>1, <1>2, ThreadFacts DEF HandlersInv, WorkersHold, DailyHeld, LockAhead,
    UserHolds, QuantityKept, TablesAgree, Installing
<1> QED
  BY <1>3, <1>4 DEF HandlersInv

\* The user gives a quantity, that of a locked trader is not kept.
LEMMA ModifyStep ==
    ASSUME HandlersInv, NEW t \in Traders, NEW q \in Quantities, Modify(t, q)
    PROVE  HandlersInv'
<1>1. /\ quantity' = [quantity EXCEPT ![t] = q]
      /\ wanted' = IF markets[t] = Absent THEN [wanted EXCEPT ![t] = q] ELSE wanted
      /\ UNCHANGED <<at, mutex, trade_mutex, daily_mutex, installed, handled,
                   need_update, markets, day, begin, exceeded>>
  BY DEF Modify, locks, daily
<1>2. TypeOK'
  BY <1>1, ThreadFacts DEF HandlersInv, TypeOK
<1>3. QuantityKept'
  BY <1>1, ThreadFacts DEF HandlersInv, QuantityKept, TypeOK
<1>4. /\ WorkersHold' /\ DailyHeld' /\ LockAhead'
      /\ UserHolds' /\ TablesAgree'
  BY <1>1, ThreadFacts DEF HandlersInv, WorkersHold, DailyHeld, LockAhead,
    UserHolds, TablesAgree, Installing
<1> QED
  BY <1>2, <1>3, <1>4 DEF HandlersInv

\* The balance changes.
LEMMA BalanceStep ==
    ASSUME HandlersInv, Balance
    PROVE  HandlersInv'
<1>1. /\ exceeded' \in {"no", "realized", "unrealized"}
      /\ UNCHANGED <<at, mutex, trade_mutex, daily_mutex, installed, handled,
                   need_update, markets, quantity, day, begin, wanted>>
  BY DEF Balance, locks, daily
<1>2. TypeOK'
  BY <1>1, ThreadFacts DEF HandlersInv, TypeOK
<1>3. /\ WorkersHold' /\ DailyHeld' /\ LockAhead'
      /\ UserHolds' /\ QuantityKept' /\ TablesAgree'
  BY <1>1, ThreadFacts DEF HandlersInv, WorkersHold, DailyHeld, LockAhead,
    UserHolds, QuantityKept, TablesAgree, Installing
<1> QED
  BY <1>2, <1>3 DEF HandlersInv

\* A day begins.
LEMMA NextDayStep ==
    ASSUME HandlersInv, NextDay
    PROVE  HandlersInv'
<1>1. /\ day < MaxDays /\ day' = day + 1
      /\ UNCHANGED <<at, mutex, trade_mutex, daily_mutex, installed, handled,
                   need_update, markets, quantity, begin, exceeded, wanted>>
  BY DEF NextDay, locks, daily
<1>2. TypeOK'
  BY <1>1, ThreadFacts, HandlersAssumption DEF HandlersInv, TypeOK
<1>3. /\ WorkersHold' /\ DailyHeld' /\ LockAhead'
      /\ UserHolds' /\ QuantityKept' /\ TablesAgree'
  BY <1>1, ThreadFacts DEF HandlersInv, WorkersHold, DailyHeld, LockAhead,
    UserHolds, QuantityKept, TablesAgree, Installing
<1> QED
  BY <1>2, <1>3 DEF HandlersInv
-----------------------------------------------------------------------------
(***************************************************************************)
(* The theorems.                                                           *)
(***************************************************************************)

LEMMA HandlersInit == Init => HandlersInv
<1> SUFFICES ASSUME Init PROVE HandlersInv
  OBVIOUS
<1>1. TypeOK
  BY AtPlace, HandlersAssumption DEF Init, TypeOK, Idle, Steps
<1>2. /\ \A th \in Threads : at[th].step = "idle"
      /\ at[User].step = "idle"
  BY AtPlace, ThreadFacts DEF Init, Idle, Steps
<1>3. WorkersHold /\ DailyHeld /\ LockAhead /\ UserHolds
  BY <1>2, ThreadFacts DEF WorkersHold, DailyHeld, LockAhead, UserHolds
<1>4. QuantityKept
  BY DEF Init, QuantityKept
<1>5. TablesAgree
  BY <1>2 DEF Init, TablesAgree, Installing
<1> QED
  BY <1>1, <1>3, <1>4, <1>5 DEF HandlersInv

LEMMA HandlersStutter == HandlersInv /\ UNCHANGED vars => HandlersInv'
BY DEF HandlersInv, vars, locks, daily, TypeOK, WorkersHold, DailyHeld, LockAhead,
   UserHolds, QuantityKept, TablesAgree, Installing

LEMMA HandlersNext == HandlersInv /\ [Next]_vars => HandlersInv'
<1> SUFFICES ASSUME HandlersInv, [Next]_vars PROVE HandlersInv'
  OBVIOUS
<1>1. ASSUME NEW w \in Workers, Worker(w) PROVE HandlersInv'
  BY <1>1, ReinvestStep, ResizeStep, DailyStep, SessionStep, UnlockStep,
     UnlockedStep, CheckStep, LockStep, EndDailyStep, LeaveStep DEF Worker
<1>2. CASE Signal
  BY <1>2, InformGlobalStep, TestStep, CallStep, EndSignalStep DEF Signal
<1>3. CASE Commands
  BY <1>3, InstallStep, CountStep, UninstallStep, ReleaseStep, EndCommandStep
     DEF Commands
<1>4. CASE UNCHANGED vars
  BY <1>4, HandlersStutter
<1> QED
  BY <1>1, <1>2, <1>3, <1>4, ProcessStep, OrderSignalStep, CommandStep,
     ModifyStep, BalanceStep, NextDayStep DEF Next

LEMMA HandlersInvariant == Spec => []HandlersInv
BY HandlersInit, HandlersNext, PTL DEF Spec

\* Every reachable state has its type, for any traders, workers and quantities.
THEOREM HandlersTyped == Spec => []TypeOK
<1>1. HandlersInv => TypeOK
  BY DEF HandlersInv
<1> QED
  BY <1>1, HandlersInvariant, PTL

\* The daily limit never loses the quantity the user gave a trader, however many
\* workers reach the limit, at the begin of a day, while the user changes it.
THEOREM QuantityIsKept == Spec => []QuantityKept
<1>1. HandlersInv => QuantityKept
  BY DEF HandlersInv
<1> QED
  BY <1>1, HandlersInvariant, PTL

\* The table of a trader whose mutex is free and the list of the reinvestment
\* agree, and only traders of the list are asked for an update.
THEOREM HandlersAccounted == Spec => []Accounted
<1>1. ASSUME HandlersInv PROVE Accounted
  <2>1. ASSUME NEW t \in Traders, mutex[t] = Nobody PROVE ~Installing(t)
    BY <1>1, <2>1, ThreadFacts DEF HandlersInv, UserHolds, Installing
  <2> QED
    BY <1>1, <2>1 DEF HandlersInv, TablesAgree, Accounted
<1> QED
  BY <1>1, HandlersInvariant, PTL
=============================================================================

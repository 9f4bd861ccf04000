--------------------------- MODULE SharedHandlers ---------------------------
(***************************************************************************)
(* The handlers that strategy traders share: the daily limit, installed    *)
(* for every context (strategy/handler/dailylimithandler.py), and the      *)
(* reinvestment of gains, installed for one context                        *)
(* (strategy/handler/reinvestgainhandler.py).                              *)
(*                                                                         *)
(* Workers process them at the end of an update, the strategy thread calls *)
(* them from an order signal, and the user installs and removes them.  A   *)
(* step is what a thread does between two acquisitions of a mutex; the     *)
(* mutexes are reentrant, and those held while another is acquired have an *)
(* owner here: of a strategy trader, of its trades, of the daily limit.    *)
(* The mutex of the reinvestment protects single steps.                    *)
(*                                                                         *)
(* The balance is reduced to whether a limit is exceeded, by what was      *)
(* realized or by what is not; whether a gain is worth a step is left      *)
(* open; the resize itself is AssetTrade's.  A second daily limit, which    *)
(* would take the place of the first in the tables while the first keeps   *)
(* its quantities, is left out.                                            *)
(***************************************************************************)
EXTENDS Integers, Sequences, FiniteSets, SequencesExt

CONSTANTS Traders,    \* the strategy traders
          Workers,    \* threads of the pool
          Strategy,   \* the strategy thread
          User,       \* the thread of the commands
          Handlers,   \* what the user may install: subset of {"daily", "reinvest"}
          Quantities, \* trade quantities of an instrument
          MaxDays     \* bound: days that begin

Threads == Workers \union {Strategy, User}

Nobody == "nobody"

ASSUME HandlersAssumption ==
    /\ IsFiniteSet(Traders)
    /\ Strategy \notin Workers \union {User} /\ User \notin Workers
    /\ Nobody \notin Threads
    /\ Handlers \subseteq {"daily", "reinvest"}
    /\ Quantities \subseteq Nat \ {0}
    /\ MaxDays \in Nat

VARIABLES
    at,           \* [Threads -> where each thread is, for which trader]
    mutex,        \* [Traders -> the owner of its _mutex]
    trade_mutex,  \* [Traders -> the owner of its _trade_mutex]
    daily_mutex,  \* the owner of the mutex of the daily limit
    installed,    \* the traders whose tables have the handler
    handled,      \* _installed_strategy_traders of each handler
    need_update,  \* _need_update of the reinvestment
    markets,      \* _markets of the daily limit: the quantities it replaced
    quantity,     \* [Traders -> the trade quantity of its instrument]
    day,          \* the current day
    begin,        \* begin_timestamp of the daily limit, in days
    exceeded,     \* what exceeds a limit: "no", "realized" or "unrealized"
    wanted        \* the quantity the user gave each trader while it was not locked

locks == <<mutex, trade_mutex, daily_mutex>>
daily == <<markets, quantity, begin, exceeded>>
vars == <<at, locks, installed, handled, need_update, daily, day, wanted>>

Absent == -1

Steps == {"idle",
          "reinvest", "resize", "daily", "session", "unlock", "check", "lock",
          "leave",
          "global", "test", "call", "end",
          "install", "count", "uninstall", "release"}

Place == [step : Steps, trader : Traders \union {Nobody},
          handler : {"none", "daily", "reinvest"}, todo : Seq(Traders)]

TypeOK ==
    /\ at \in [Threads -> Place]
    /\ mutex \in [Traders -> Threads \union {Nobody}]
    /\ trade_mutex \in [Traders -> Threads \union {Nobody}]
    /\ daily_mutex \in Threads \union {Nobody}
    /\ installed \in [{"daily", "reinvest"} -> SUBSET Traders]
    /\ handled \in [{"daily", "reinvest"} -> SUBSET Traders]
    /\ need_update \in SUBSET Traders
    /\ markets \in [Traders -> Quantities \union {0, Absent}]
    /\ quantity \in [Traders -> Quantities \union {0}]
    /\ day \in 0..MaxDays /\ begin \in 0..MaxDays
    /\ exceeded \in {"no", "realized", "unrealized"}
    /\ wanted \in [Traders -> Quantities]

At(step, t) == [step |-> step, trader |-> t, handler |-> "none", todo |-> <<>>]

Idle == At("idle", Nobody)

\* The order of _strategy_traders, in which handlers are installed.
Order == SetToSeq(Traders)

Init ==
    /\ at = [th \in Threads |-> Idle]
    /\ mutex = [t \in Traders |-> Nobody]
    /\ trade_mutex = [t \in Traders |-> Nobody]
    /\ daily_mutex = Nobody
    /\ installed = [h \in {"daily", "reinvest"} |-> {}]
    /\ handled = [h \in {"daily", "reinvest"} |-> {}]
    /\ need_update = {}
    /\ markets = [t \in Traders |-> Absent]
    /\ wanted \in [Traders -> Quantities] /\ quantity = wanted
    /\ day = 0 /\ begin = 0
    /\ exceeded = "no"

-----------------------------------------------------------------------------
(***************************************************************************)
(* Mutexes.                                                                *)
(***************************************************************************)

Free(th, owner) == owner \in {Nobody, th}

Goto(th, step) == at' = [at EXCEPT ![th].step = step]

TakeMutex(th, t) == mutex[t] = Nobody /\ mutex' = [mutex EXCEPT ![t] = th]

LeaveMutex(t) == mutex' = [mutex EXCEPT ![t] = Nobody]

-----------------------------------------------------------------------------
(***************************************************************************)
(* process_handlers, at the end of the update of a strategy trader: under  *)
(* its mutex, the handlers of the contexts, then the global one.           *)
(***************************************************************************)

\* The processing flag keeps two workers from updating the same trader.
Process(w, t) ==
    /\ at[w].step = "idle"
    /\ \A v \in Workers : at[v].trader # t
    /\ TakeMutex(w, t)
    /\ at' = [at EXCEPT ![w] = At("reinvest", t)]
    /\ UNCHANGED <<trade_mutex, daily_mutex, installed, handled, need_update,
                   daily, day, wanted>>

Reinvest(w) ==
    LET t == at[w].trader
        asked == t \in installed["reinvest"] /\ t \in need_update
    IN  /\ at[w].step = "reinvest"
        /\ need_update' = IF asked THEN need_update \ {t} ELSE need_update
        /\ Goto(w, IF asked THEN "resize" ELSE "daily")
        /\ UNCHANGED <<locks, installed, handled, daily, day, wanted>>

\* _resize_open_trades holds the mutex of the trades while it places the entry
\* orders again.
Resize(w) ==
    /\ at[w].step = "resize"
    /\ Free(w, trade_mutex[at[w].trader])
    /\ Goto(w, "daily")
    /\ UNCHANGED <<locks, installed, handled, need_update, daily, day, wanted>>

Daily(w) ==
    /\ at[w].step = "daily"
    /\ IF at[w].trader \in installed["daily"]
       THEN /\ Free(w, daily_mutex) /\ daily_mutex' = w
            /\ Goto(w, "session")
       ELSE Goto(w, "leave") /\ UNCHANGED daily_mutex
    /\ UNCHANGED <<mutex, trade_mutex, installed, handled, need_update, daily,
                   day, wanted>>

Locked == \E t \in Traders : markets[t] # Absent

\* new_session: on a new day the balance is the reference again, and trading is
\* unlocked unless a limit is still exceeded.
Session(w) ==
    LET still == IF exceeded = "realized" THEN "no" ELSE exceeded
    IN  /\ at[w].step = "session"
        /\ IF day > begin
           THEN /\ begin' = day
                /\ exceeded' = still
                /\ at' = [at EXCEPT ![w].step = "unlock", ![w].todo =
                            IF Locked /\ still = "no" THEN Order ELSE <<>>]
           ELSE Goto(w, "check") /\ UNCHANGED <<begin, exceeded>>
        /\ UNCHANGED <<locks, installed, handled, need_update, markets, quantity,
                       day, wanted>>

\* The traders the handler counts, among all in their order: who holds the mutex
\* of the daily limit finds the same ones from the first to the last.  The setter
\* of the trade quantity ignores a zero.
Unlock(w) ==
    LET u == Head(at[w].todo)
    IN  /\ at[w].step = "unlock" /\ at[w].todo # <<>>
        /\ at' = [at EXCEPT ![w].todo = Tail(@)]
        /\ IF u \notin handled["daily"] \/ markets[u] = Absent
           THEN UNCHANGED <<quantity, markets>>
           ELSE /\ Free(w, mutex[u])
                /\ quantity' = [quantity EXCEPT ![u] =
                                  IF markets[u] > 0 THEN markets[u] ELSE @]
                /\ markets' = [markets EXCEPT ![u] = Absent]
        /\ UNCHANGED <<locks, installed, handled, need_update, begin, exceeded,
                       day, wanted>>

Unlocked(w) ==
    /\ at[w].step = "unlock" /\ at[w].todo = <<>>
    /\ Goto(w, "check")
    /\ UNCHANGED <<locks, installed, handled, need_update, daily, day, wanted>>

\* Mutant: a trading that is already locked is locked again.
AgainCheck(w) ==
    /\ at[w].step = "check"
    /\ at' = [at EXCEPT ![w].step = "lock", ![w].todo =
                IF exceeded # "no" THEN Order ELSE <<>>]
    /\ UNCHANGED <<locks, installed, handled, need_update, daily, day, wanted>>

\* An empty _markets means not locked.
Check(w) ==
    /\ at[w].step = "check"
    /\ at' = [at EXCEPT ![w].step = "lock", ![w].todo =
                IF ~Locked /\ exceeded # "no" THEN Order ELSE <<>>]
    /\ UNCHANGED <<locks, installed, handled, need_update, daily, day, wanted>>

\* lock_trading, one trader after the other.
Lock(w) ==
    LET u == Head(at[w].todo)
    IN  /\ at[w].step = "lock" /\ at[w].todo # <<>>
        /\ at' = [at EXCEPT ![w].todo = Tail(@)]
        /\ IF u \notin handled["daily"] THEN UNCHANGED <<quantity, markets>>
           ELSE /\ Free(w, mutex[u])
                /\ markets' = [markets EXCEPT ![u] = quantity[u]]
                /\ quantity' = [quantity EXCEPT ![u] = 0]
        /\ UNCHANGED <<locks, installed, handled, need_update, begin, exceeded,
                       day, wanted>>

EndDaily(w) ==
    /\ at[w].step = "lock" /\ at[w].todo = <<>>
    /\ daily_mutex' = Nobody
    /\ Goto(w, "leave")
    /\ UNCHANGED <<mutex, trade_mutex, installed, handled, need_update, daily,
                   day, wanted>>

Leave(w) ==
    /\ at[w].step = "leave"
    /\ LeaveMutex(at[w].trader)
    /\ at' = [at EXCEPT ![w] = Idle]
    /\ UNCHANGED <<trade_mutex, daily_mutex, installed, handled, need_update,
                   daily, day, wanted>>

-----------------------------------------------------------------------------
(***************************************************************************)
(* The strategy thread: order_signal, which updates or ends a trade under  *)
(* the mutex of the trades, informs the handlers (notify_trade_update,     *)
(* notify_trade_exit).  The tables are read before the mutex is taken.     *)
(***************************************************************************)

Trader == at[Strategy].trader

OrderSignal(t) ==
    /\ at[Strategy].step = "idle"
    /\ trade_mutex[t] = Nobody
    /\ trade_mutex' = [trade_mutex EXCEPT ![t] = Strategy]
    /\ at' = [at EXCEPT ![Strategy] = At("global", t)]
    /\ UNCHANGED <<mutex, daily_mutex, installed, handled, need_update, daily,
                   day, wanted>>

\* The daily limit does nothing of it, under the mutex of the trader.
InformGlobal ==
    /\ at[Strategy].step = "global"
    /\ Trader \in installed["daily"] => Free(Strategy, mutex[Trader])
    /\ Goto(Strategy, "test")
    /\ UNCHANGED <<locks, installed, handled, need_update, daily, day, wanted>>

Test ==
    /\ at[Strategy].step = "test"
    /\ Goto(Strategy, IF Trader \in installed["reinvest"] THEN "call" ELSE "end")
    /\ UNCHANGED <<locks, installed, handled, need_update, daily, day, wanted>>

\* on_trade_exited: a gain worth a step asks every trader for an update.  When
\* the handler was removed since the test the lookup fails, and nothing else is
\* done of the signal.
Call ==
    /\ at[Strategy].step = "call"
    /\ Free(Strategy, mutex[Trader])
    /\ \/ UNCHANGED need_update
       \/ /\ Trader \in installed["reinvest"]
          /\ need_update' = handled["reinvest"]
    /\ Goto(Strategy, "end")
    /\ UNCHANGED <<locks, installed, handled, daily, day, wanted>>

EndSignal ==
    /\ at[Strategy].step = "end"
    /\ trade_mutex' = [trade_mutex EXCEPT ![Trader] = Nobody]
    /\ at' = [at EXCEPT ![Strategy] = Idle]
    /\ UNCHANGED <<mutex, daily_mutex, installed, handled, need_update, daily,
                   day, wanted>>

-----------------------------------------------------------------------------
(***************************************************************************)
(* The commands of the user, on every trader of the strategy in turn.      *)
(***************************************************************************)

\* daily-limit and reinvest-gain; the daily limit cannot be removed:
\* uninstall_handler compares its name with a method.
Command(h, step) ==
    /\ at[User].step = "idle" /\ h \in Handlers
    /\ \/ step = "install" /\ installed[h] = {}
       \/ step = "uninstall" /\ h = "reinvest" /\ installed[h] # {}
    /\ at' = [at EXCEPT ![User] =
                [step |-> step, trader |-> Nobody, handler |-> h, todo |-> Order]]
    /\ UNCHANGED <<locks, installed, handled, need_update, daily, day, wanted>>

\* install_handler puts the handler in the table under the trader's mutex,
Install ==
    LET t == Head(at[User].todo)
        h == at[User].handler
    IN  /\ at[User].step = "install" /\ at[User].todo # <<>>
        /\ TakeMutex(User, t)
        /\ installed' = [installed EXCEPT ![h] = @ \union {t}]
        /\ Goto(User, "count")
        /\ UNCHANGED <<trade_mutex, daily_mutex, handled, need_update, daily, day,
                       wanted>>

\* and installs it: the reinvestment first counts the trades.
Count ==
    LET t == Head(at[User].todo)
        h == at[User].handler
    IN  /\ at[User].step = "count"
        /\ IF h = "daily" THEN Free(User, daily_mutex) ELSE Free(User, trade_mutex[t])
        /\ handled' = [handled EXCEPT ![h] = @ \union {t}]
        /\ LeaveMutex(t)
        /\ at' = [at EXCEPT ![User].step = "install", ![User].todo = Tail(@)]
        /\ UNCHANGED <<trade_mutex, daily_mutex, installed, need_update, daily,
                       day, wanted>>

\* uninstall_handler.
Uninstall ==
    LET t == Head(at[User].todo)
    IN  /\ at[User].step = "uninstall" /\ at[User].todo # <<>>
        /\ TakeMutex(User, t)
        /\ Goto(User, "release")
        /\ UNCHANGED <<trade_mutex, daily_mutex, installed, handled, need_update,
                       daily, day, wanted>>

\* Mutant: the trader still asks for an update.
KeepRelease ==
    LET t == Head(at[User].todo)
    IN  /\ at[User].step = "release"
        /\ Free(User, trade_mutex[t])
        /\ handled' = [handled EXCEPT !["reinvest"] = @ \ {t}]
        /\ installed' = [installed EXCEPT !["reinvest"] = @ \ {t}]
        /\ LeaveMutex(t)
        /\ at' = [at EXCEPT ![User].step = "uninstall", ![User].todo = Tail(@)]
        /\ UNCHANGED <<trade_mutex, daily_mutex, need_update, daily, day, wanted>>

Release ==
    LET t == Head(at[User].todo)
    IN  /\ at[User].step = "release"
        /\ Free(User, trade_mutex[t])
        /\ handled' = [handled EXCEPT !["reinvest"] = @ \ {t}]
        /\ need_update' = need_update \ {t}
        /\ installed' = [installed EXCEPT !["reinvest"] = @ \ {t}]
        /\ LeaveMutex(t)
        /\ at' = [at EXCEPT ![User].step = "uninstall", ![User].todo = Tail(@)]
        /\ UNCHANGED <<trade_mutex, daily_mutex, daily, day, wanted>>

EndCommand ==
    /\ at[User].step \in {"install", "uninstall"} /\ at[User].todo = <<>>
    /\ at' = [at EXCEPT ![User] = Idle]
    /\ UNCHANGED <<locks, installed, handled, need_update, daily, day, wanted>>

\* Mutant: the quantity written is one step below the one asked, down to zero.
LowModify(t, q) ==
    /\ at[User].step = "idle"
    /\ Free(User, mutex[t])
    /\ quantity' = [quantity EXCEPT ![t] = q - 1]
    /\ wanted' = IF markets[t] = Absent THEN [wanted EXCEPT ![t] = q - 1] ELSE wanted
    /\ UNCHANGED <<at, locks, installed, handled, need_update, markets, begin,
                   exceeded, day>>

\* The modify command writes the quantity, also of a trader that is locked.
Modify(t, q) ==
    /\ at[User].step = "idle"
    /\ Free(User, mutex[t])
    /\ quantity' = [quantity EXCEPT ![t] = q]
    /\ wanted' = IF markets[t] = Absent THEN [wanted EXCEPT ![t] = q] ELSE wanted
    /\ UNCHANGED <<at, locks, installed, handled, need_update, markets, begin,
                   exceeded, day>>

-----------------------------------------------------------------------------
\* The account and the clock.
Balance ==
    /\ \E e \in {"no", "realized", "unrealized"} : exceeded' = e /\ e # exceeded
    /\ UNCHANGED <<at, locks, installed, handled, need_update, markets, quantity,
                   begin, day, wanted>>

NextDay ==
    /\ day < MaxDays /\ day' = day + 1
    /\ UNCHANGED <<at, locks, installed, handled, need_update, daily, wanted>>

-----------------------------------------------------------------------------
Worker(w) ==
    \/ Reinvest(w) \/ Resize(w) \/ Daily(w) \/ Session(w) \/ Unlock(w)
    \/ Unlocked(w) \/ Check(w) \/ Lock(w) \/ EndDaily(w) \/ Leave(w)

Signal == InformGlobal \/ Test \/ Call \/ EndSignal

Commands == Install \/ Count \/ Uninstall \/ Release \/ EndCommand

Next ==
    \/ \E w \in Workers : Worker(w) \/ \E t \in Traders : Process(w, t)
    \/ Signal \/ \E t \in Traders : OrderSignal(t)
    \/ Commands
    \/ \E h \in Handlers, step \in {"install", "uninstall"} : Command(h, step)
    \/ \E t \in Traders, q \in Quantities : Modify(t, q)
    \/ Balance \/ NextDay

Spec == Init /\ [][Next]_vars

\* A thread goes on with what it began, and obtains a mutex that is free again
\* and again.
FairSpec ==
    /\ Spec
    /\ \A w \in Workers : SF_vars(Worker(w))
    /\ SF_vars(Signal) /\ SF_vars(Commands)

-----------------------------------------------------------------------------
\* The quantity the user gave is never lost: a lock saves it once, also when
\* several traders reach the limit or a new day begins during the lock, and the
\* trader has it back when it is unlocked.
QuantityKept ==
    \A t \in Traders :
        IF markets[t] = Absent THEN quantity[t] = wanted[t]
        ELSE markets[t] = wanted[t]

\* Whoever holds the mutex of a trader finds the reinvestment in its table if and
\* only if the handler counts that trader, so that a gain is shared between the
\* traders that are left, at least one; and it asks no other for an update.
Accounted ==
    /\ need_update \subseteq handled["reinvest"]
    /\ \A t \in Traders :
          mutex[t] = Nobody =>
             (t \in installed["reinvest"] <=> t \in handled["reinvest"])

\* A handler shared between strategy traders is executed at each update: the
\* update that began to process it ends.
UpdateEnds ==
    \A w \in Workers : at[w].step # "idle" ~> at[w].step = "idle"
=============================================================================

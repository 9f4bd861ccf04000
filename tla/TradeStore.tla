----------------------------- MODULE TradeStore -----------------------------
(***************************************************************************)
(* The persistence of the trades of a strategy over successive sessions of *)
(* the program: load at startup, save on exit (strategy/strategy.py,       *)
(* strategy/strategytraderbase.py), and the thread of the database, which  *)
(* serves queues of pending requests (database/database.py,                *)
(* database/pgsql.py).                                                     *)
(*                                                                         *)
(* A query of the database is one step with its commit, or fails and is    *)
(* left for the next round.  A trade is its identity on the exchange; its  *)
(* identifier in the program is given anew each time it is loaded.         *)
(***************************************************************************)
EXTENDS Integers, Sequences, FiniteSets

CONSTANTS Markets,     \* the markets of the strategy
          Trades,      \* the trades it may open
          MarketOf,    \* [Trades -> Markets]
          MaxSessions, \* bound: sessions of the program
          FailAt,      \* which queries may fail
          MaxFailures, \* bound: queries that fail
          CrashAt      \* where the main thread may be when the program crashes

ASSUME StoreAssumption ==
    /\ IsFiniteSet(Markets) /\ IsFiniteSet(Trades)
    /\ MarketOf \in [Trades -> Markets]
    /\ MaxSessions \in Nat /\ MaxFailures \in Nat
    /\ FailAt \subseteq {"insert", "select", "delete"}
    /\ CrashAt \subseteq {"running", "save", "close", "wake", "join"}

VARIABLES
    table,    \* the rows of the table user_trade
    inserts,  \* _pending_user_trade_insert
    selects,  \* _pending_user_trade_select: a load is pending
    deletes,  \* _pending_user_trade_delete: a clear of the strategy is pending
    db,       \* where the thread of the database is
    running,  \* its flag
    main,     \* where the main thread is
    unsaved,  \* the markets that save has still to reach
    storing,  \* the trades of a market that save has still to store
    loaded,   \* load was asked once in this session (_loaded)
    signal,   \* the list of trades on its way to the strategy thread
    mem,      \* the trades of the strategy traders
    nextId,   \* [Markets -> _next_trade_id]
    over,     \* the trades that ended
    sessions, \* sessions started
    failures, \* queries that failed
    saved     \* the session ended normally, after a save

saving == <<unsaved, storing>>

vars == <<table, inserts, selects, deletes, db, running, main, saving, loaded,
          signal, mem, nextId, over, sessions, failures, saved>>

Row == [trade : Trades, id : Nat]

\* The key of a row: its market and its identifier.
SameKey(r, s) == MarketOf[r.trade] = MarketOf[s.trade] /\ r.id = s.id

NoSignal == [step |-> "none", rows |-> {}]

TypeOK ==
    /\ table \subseteq Row /\ mem \subseteq Row /\ inserts \in Seq(Row)
    /\ \A r, s \in table : SameKey(r, s) => r = s
    /\ \A r, s \in mem : SameKey(r, s) => r = s
    /\ selects \in BOOLEAN /\ deletes \in BOOLEAN
    /\ db \in {"test", "waiting", "insert", "select", "delete", "ended"}
    /\ running \in BOOLEAN
    /\ main \in {"out", "running", "save", "close", "wake", "join"}
    /\ unsaved \subseteq Markets /\ storing \subseteq Row
    /\ loaded \in BOOLEAN
    /\ signal \in [step : {"none", "queued", "loading"}, rows : SUBSET Row]
    /\ nextId \in [Markets -> Nat]
    /\ over \subseteq Trades
    /\ sessions \in 0..MaxSessions /\ failures \in 0..MaxFailures
    /\ saved \in BOOLEAN

Init ==
    /\ table = {} /\ inserts = <<>> /\ selects = FALSE /\ deletes = FALSE
    /\ db = "ended" /\ running = FALSE /\ main = "out"
    /\ unsaved = {} /\ storing = {}
    /\ loaded = FALSE /\ signal = NoSignal
    /\ mem = {} /\ nextId = [m \in Markets |-> 1]
    /\ over = {} /\ sessions = 0 /\ failures = 0 /\ saved = FALSE

-----------------------------------------------------------------------------
(***************************************************************************)
(* The thread of the database.                                             *)
(***************************************************************************)

\* Mutant: a request wakes nobody.
SilentNotify == UNCHANGED db

\* The condition is notified: only a thread that already waits notices.
Notify == db' = IF db = "waiting" THEN "insert" ELSE db

\* while self._running, then the wait.
Test ==
    /\ db = "test"
    /\ db' = IF running THEN "waiting" ELSE "ended"
    /\ UNCHANGED <<table, inserts, selects, deletes, running, main, saving,
                   loaded, signal, mem, nextId, over, sessions, saved, failures>>

\* process_userdata first inserts, replacing the rows of the same key,
Insert ==
    LET Replaced(s, from) == \E j \in DOMAIN inserts :
                                j > from /\ SameKey(inserts[j], s)
        Last == {i \in DOMAIN inserts : ~Replaced(inserts[i], i)}
    IN  /\ db = "insert"
        /\ table' = {s \in table : ~Replaced(s, 0)}
                       \union {inserts[i] : i \in Last}
        /\ inserts' = <<>>
        /\ db' = "select"
        /\ UNCHANGED <<selects, deletes, running, main, saving, loaded, signal,
                       mem, nextId, over, sessions, saved, failures>>

\* then selects and sends what it found to the strategy,
Select ==
    /\ db = "select"
    /\ signal' = IF selects THEN [step |-> "queued", rows |-> table] ELSE signal
    /\ selects' = FALSE
    /\ db' = "delete"
    /\ UNCHANGED <<table, inserts, deletes, running, main, saving, loaded, mem,
                   nextId, over, sessions, saved, failures>>

\* and deletes every row of the strategy.
Delete ==
    /\ db = "delete"
    /\ table' = IF deletes THEN {} ELSE table
    /\ deletes' = FALSE
    /\ db' = "test"
    /\ UNCHANGED <<inserts, selects, running, main, saving, loaded, signal, mem,
                   nextId, over, sessions, saved, failures>>

\* A query that fails, when something is pending, is tried again the next time.
Fail ==
    /\ db \in FailAt
    /\ failures < MaxFailures /\ failures' = failures + 1
    /\ \/ db = "insert" /\ inserts # <<>> /\ db' = "select"
       \/ db = "select" /\ selects /\ db' = "delete"
       \/ db = "delete" /\ deletes /\ db' = "test"
    /\ UNCHANGED <<table, inserts, selects, deletes, running, main, saving, loaded,
                   signal, mem, nextId, over, sessions, saved>>

\* Any other request to the database (candles, market info).
OtherRequest ==
    /\ main \in {"running", "save", "close"}
    /\ db = "waiting" /\ Notify
    /\ UNCHANGED <<table, inserts, selects, deletes, running, main, saving, loaded,
                   signal, mem, nextId, over, sessions, saved, failures>>

-----------------------------------------------------------------------------
(***************************************************************************)
(* A session.                                                              *)
(***************************************************************************)

Forget ==
    /\ inserts' = <<>> /\ selects' = FALSE /\ deletes' = FALSE
    /\ unsaved' = {} /\ storing' = {}
    /\ signal' = NoSignal /\ db' = "ended" /\ running' = FALSE
    /\ main' = "out"

\* The thread of the database waits long before the strategy runs.
Start ==
    /\ main = "out" /\ sessions < MaxSessions
    /\ main' = "running" /\ db' = "waiting" /\ running' = TRUE
    /\ mem' = {} /\ nextId' = [m \in Markets |-> 1] /\ loaded' = FALSE
    /\ sessions' = sessions + 1 /\ saved' = FALSE
    /\ UNCHANGED <<table, inserts, selects, deletes, saving, signal, over, failures>>

\* Mutant: the trades may be loaded again.
AgainLoad ==
    /\ main = "running"
    /\ loaded' = TRUE /\ selects' = TRUE
    /\ Notify
    /\ UNCHANGED <<table, inserts, deletes, running, main, saving, signal, mem,
                   nextId, over, sessions, saved, failures>>

\* Mutant: the rows are cleared as soon as they are asked for.
EarlyLoad ==
    /\ main = "running" /\ ~loaded
    /\ loaded' = TRUE /\ selects' = TRUE /\ deletes' = TRUE
    /\ Notify
    /\ UNCHANGED <<table, inserts, running, main, saving, signal, mem, nextId,
                   over, sessions, saved, failures>>

\* load: at startup, or by the load command, once.
Load ==
    /\ main = "running" /\ ~loaded
    /\ loaded' = TRUE /\ selects' = TRUE
    /\ Notify
    /\ UNCHANGED <<table, inserts, deletes, running, main, saving, signal, mem,
                   nextId, over, sessions, saved, failures>>

\* Mutant: the identifier of a loaded trade may be given again.
SameIdLoadTrade(r) ==
    LET m == MarketOf[r.trade]
    IN  /\ main = "running" /\ signal.step # "none" /\ r \in signal.rows
        /\ mem' = mem \union {[trade |-> r.trade, id |-> nextId[m]]}
        /\ signal' = [step |-> "loading", rows |-> signal.rows \ {r}]
        /\ UNCHANGED <<table, inserts, selects, deletes, db, running, main, saving,
                       loaded, nextId, over, sessions, saved, failures>>

\* loads_trade and add_trade, for one row of the list.
LoadTrade(r) ==
    LET m == MarketOf[r.trade]
    IN  /\ main = "running" /\ signal.step # "none" /\ r \in signal.rows
        /\ mem' = mem \union {[trade |-> r.trade, id |-> nextId[m]]}
        /\ nextId' = [nextId EXCEPT ![m] = @ + 1]
        /\ signal' = [step |-> "loading", rows |-> signal.rows \ {r}]
        /\ UNCHANGED <<table, inserts, selects, deletes, db, running, main, saving,
                       loaded, over, sessions, saved, failures>>

\* The list is done: the strategy asks to clear it from the table.
EndLoad ==
    /\ main = "running" /\ signal.step # "none" /\ signal.rows = {}
    /\ signal' = NoSignal
    /\ deletes' = TRUE
    /\ Notify
    /\ UNCHANGED <<table, inserts, selects, running, main, saving, loaded, mem,
                   nextId, over, sessions, saved, failures>>

\* The strategy opens a trade; a trade ends and leaves the list.  A trade that a
\* crash made the program forget is not told from a new one.
OpenTrade(t) ==
    LET m == MarketOf[t]
    IN  /\ main = "running" /\ signal.step # "loading"
        /\ t \notin over /\ \A r \in mem \union table \union signal.rows : r.trade # t
        /\ mem' = mem \union {[trade |-> t, id |-> nextId[m]]}
        /\ nextId' = [nextId EXCEPT ![m] = @ + 1]
        /\ UNCHANGED <<table, inserts, selects, deletes, db, running, main, saving,
                       loaded, signal, over, sessions, saved, failures>>

EndTrade(r) ==
    /\ main = "running" /\ r \in mem
    /\ mem' = mem \ {r} /\ over' = over \union {r.trade}
    /\ UNCHANGED <<table, inserts, selects, deletes, db, running, main, saving,
                   loaded, signal, nextId, sessions, saved, failures>>

\* The strategy thread is stopped and joined once it has served the signal it
\* is at; a list still in its queue is dropped.
Quit ==
    /\ main = "running" /\ signal.step # "loading"
    /\ signal' = NoSignal
    /\ \/ main' = "save" /\ unsaved' = Markets /\ saved' = TRUE
       \/ main' = "close" /\ UNCHANGED <<unsaved, saved>>
    /\ UNCHANGED <<table, inserts, selects, deletes, db, running, storing, loaded,
                   mem, nextId, over, sessions, failures>>

\* save of a market clears every trade of the strategy first,
ClearTrades(m) ==
    /\ main = "save" /\ storing = {} /\ m \in unsaved
    /\ unsaved' = unsaved \ {m}
    /\ storing' = {r \in mem : MarketOf[r.trade] = m}
    /\ deletes' = TRUE
    /\ Notify
    /\ UNCHANGED <<table, inserts, selects, running, main, loaded, signal, mem,
                   nextId, over, sessions, saved, failures>>

\* and stores the trades of that market one by one.
StoreTrade(r) ==
    /\ main = "save" /\ r \in storing
    /\ storing' = storing \ {r}
    /\ inserts' = Append(inserts, r)
    /\ Notify
    /\ UNCHANGED <<table, selects, deletes, running, main, unsaved, loaded, signal,
                   mem, nextId, over, sessions, saved, failures>>

EndSave ==
    /\ main = "save" /\ storing = {} /\ unsaved = {}
    /\ main' = "close"
    /\ UNCHANGED <<table, inserts, selects, deletes, db, running, saving,
                   loaded, signal, mem, nextId, over, sessions, saved, failures>>

\* close waits for other queues than those of the trades, resets the flag,
Close ==
    /\ main = "close"
    /\ running' = FALSE /\ main' = "wake"
    /\ UNCHANGED <<table, inserts, selects, deletes, db, saving, loaded, signal,
                   mem, nextId, over, sessions, saved, failures>>

\* wakes the thread up
Wake ==
    /\ main = "wake"
    /\ Notify /\ main' = "join"
    /\ UNCHANGED <<table, inserts, selects, deletes, running, saving, loaded,
                   signal, mem, nextId, over, sessions, saved, failures>>

\* and joins it.
Join ==
    /\ main = "join" /\ db = "ended"
    /\ Forget
    /\ UNCHANGED <<table, loaded, mem, nextId, over, sessions, saved, failures>>

Crash ==
    /\ main \in CrashAt
    /\ Forget /\ saved' = FALSE
    /\ UNCHANGED <<table, loaded, mem, nextId, over, sessions, failures>>

-----------------------------------------------------------------------------
Process == Insert \/ Select \/ Delete \/ Fail

Save ==
    \/ \E m \in unsaved : ClearTrades(m)
    \/ \E r \in storing : StoreTrade(r)
    \/ EndSave

Exit == Save \/ Close \/ Wake \/ Join

Next ==
    \/ Test \/ Process \/ OtherRequest
    \/ Start \/ Load \/ EndLoad \/ Quit \/ Exit \/ Crash
    \/ \E r \in signal.rows : LoadTrade(r)
    \/ \E t \in Trades : OpenTrade(t)
    \/ \E r \in mem : EndTrade(r)

Spec == Init /\ [][Next]_vars

\* The thread of the database runs, and the market data keep asking it to.
FairSpec == Spec /\ WF_vars(Test \/ Process) /\ WF_vars(OtherRequest)

-----------------------------------------------------------------------------
\* A trade is never managed twice: no list brings a trade that is already in
\* memory, and the rows a save leaves never hold it under two identifiers,
\* whatever was still to be cleared from the load before.
ManagedOnce == \A r, s \in mem : r.trade = s.trade => r = s

\* During a session the rows are deleted only once each of their trades is in
\* memory (or over): a crash while the list is being loaded loses none.
ClearedWhenLoaded ==
    [][main = "running" =>
         \A r \in table \ table' :
            \/ r.trade \in over
            \/ \E s \in mem : s.trade = r.trade]_vars

\* A load is answered while the session lasts.
LoadAnswered ==
    (selects /\ main = "running") ~> (~selects \/ main # "running")

\* After a session that saved its trades and ended normally, the table holds
\* them.
SavedKept ==
    main = "out" /\ saved =>
        {r.trade : r \in table} = {r.trade : r \in mem}
=============================================================================

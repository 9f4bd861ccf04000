------------------------- MODULE TradeStoreProofs -------------------------
(***************************************************************************)
(* Theorems about TradeStore, for all markets, trades and numbers of       *)
(* sessions and of failures.                                               *)
(*                                                                         *)
(* Two things are followed: what the table may lose while the strategy     *)
(* runs, which the list on its way to the strategy bounds; and when it may *)
(* hold a trade under two identifiers, which is only while the clear that  *)
(* save asked is about to be executed.                                     *)
(***************************************************************************)
EXTENDS TradeStore, TLAPS

-----------------------------------------------------------------------------
(***************************************************************************)
(* The inductive invariant.                                                *)
(***************************************************************************)

Held(t) == t \in over \/ \E s \in mem : s.trade = t

Once(rows) == \A r, s \in rows : r.trade = s.trade => r = s

\* Identifiers are given in increasing order.
NewIds == \A r \in mem : r.id < nextId[MarketOf[r.trade]]

\* Between two sessions nothing is pending.
OutQuiet ==
    main = "out" => ~selects /\ ~deletes /\ inserts = <<>> /\ signal = NoSignal

\* Only save stores trades.
SaveOnly ==
    /\ main # "save" => storing = {}
    /\ main = "running" => inserts = <<>>

\* While the strategy runs the trades of the rows are held, or still in the list
\* that loads them; when a clear is pending they are held.
RowsHeld ==
    main = "running" =>
        /\ deletes => \A r \in table : Held(r.trade)
        /\ signal.step # "none" =>
             \A r \in table : Held(r.trade) \/ \E s \in signal.rows : s.trade = r.trade

StoreInv == TypeOK /\ NewIds /\ OutQuiet /\ SaveOnly /\ RowsHeld

\* A crash during the save, or a clear that fails, may leave a trade under two
\* identifiers in the table.
Orderly == CrashAt \subseteq {"running"} /\ "delete" \notin FailAt

Saving == main \in {"save", "close", "wake", "join"}

\* The table holds a trade twice only until the clear of the same round.
RowsOnce ==
    \/ Once(table)
    \/ Saving /\ deletes /\ db \in {"select", "delete"}

\* What a save has stored, or is storing, is what the strategy holds; the older
\* rows are cleared before, or in the round that inserts it.
StoredHeld ==
    Saving =>
        /\ storing \subseteq mem
        /\ \A i \in DOMAIN inserts : inserts[i] \in mem
        /\ storing # {} \/ inserts # <<>> => deletes \/ table \subseteq mem

\* The list that loads the rows comes once in a session, and only brings trades
\* the strategy does not hold.
LoadedOnce ==
    main = "running" =>
        /\ selects => loaded
        /\ Once(signal.rows)
        /\ \A r \in signal.rows, s \in mem : r.trade # s.trade
        /\ selects \/ ~loaded =>
             /\ signal.step = "none"
             /\ \A r \in table, s \in mem : r.trade # s.trade

OnceInv == ManagedOnce /\ RowsOnce /\ StoredHeld /\ LoadedOnce

-----------------------------------------------------------------------------
(***************************************************************************)
(* Lemmas about the data.                                                  *)
(***************************************************************************)

RowsOf(s) == {s[i] : i \in DOMAIN s}

\* The insert replaces the rows that have the key of one of its own, and keeps
\* the last of its own rows that have the same key.
LEMMA InsertFacts ==
    ASSUME TypeOK, Insert
    PROVE  /\ table' \subseteq table \union RowsOf(inserts)
           /\ \A r, s \in table' : SameKey(r, s) => r = s
           /\ inserts = <<>> => table' = table
<1> DEFINE Replaced(s, from) ==
               \E j \in DOMAIN inserts : j > from /\ SameKey(inserts[j], s)
           Last == {i \in DOMAIN inserts : ~Replaced(inserts[i], i)}
<1>1. table' = {s \in table : ~Replaced(s, 0)} \union {inserts[i] : i \in Last}
  BY DEF Insert
<1>2. DOMAIN inserts \subseteq Nat \ {0}
  BY DEF TypeOK
<1>3. ASSUME NEW i \in Last, NEW j \in Last, SameKey(inserts[i], inserts[j])
      PROVE  inserts[i] = inserts[j]
  BY <1>2, <1>3 DEF SameKey
<1>4. ASSUME NEW i \in Last, NEW s \in table, ~Replaced(s, 0)
      PROVE  ~SameKey(inserts[i], s) /\ ~SameKey(s, inserts[i])
  BY <1>2, <1>4 DEF SameKey
<1>5. \A r, s \in table : SameKey(r, s) => r = s
  BY DEF TypeOK
<1>6. \A r, s \in table' : SameKey(r, s) => r = s
  <2> HIDE DEF Replaced, Last
  <2> QED
    BY <1>1, <1>3, <1>4, <1>5
<1>7. table' \subseteq table \union RowsOf(inserts)
  BY <1>1 DEF RowsOf
<1>8. inserts = <<>> => table' = table
  BY <1>1
<1> QED
  BY <1>6, <1>7, <1>8

\* A row with a new identifier has the key of no other.
LEMMA NewRowFacts ==
    ASSUME TypeOK, NewIds, NEW t \in Trades
    PROVE  LET m == MarketOf[t]
               new == [trade |-> t, id |-> nextId[m]]
               ids == [nextId EXCEPT ![m] = @ + 1]
           IN  /\ new \in Row /\ new.trade = t
               /\ ids \in [Markets -> Nat]
               /\ \A r, s \in mem \union {new} : SameKey(r, s) => r = s
               /\ \A r \in mem \union {new} : r.id < ids[MarketOf[r.trade]]
<1> DEFINE m == MarketOf[t]
           new == [trade |-> t, id |-> nextId[m]]
           ids == [nextId EXCEPT ![m] = @ + 1]
<1>1. m \in Markets /\ nextId[m] \in Nat
  BY StoreAssumption DEF TypeOK
<1>2. new \in Row /\ new.trade = t /\ new.id = nextId[m]
  BY <1>1 DEF Row
<1>3. /\ ids \in [Markets -> Nat] /\ ids[m] = nextId[m] + 1
      /\ \A k \in Markets \ {m} : ids[k] = nextId[k]
  BY <1>1 DEF TypeOK
<1>4. \A r \in mem : r \in Row /\ r.id \in Nat /\ MarketOf[r.trade] \in Markets
  BY StoreAssumption DEF TypeOK, Row
<1>5. \A r \in mem : ~SameKey(r, new) /\ ~SameKey(new, r)
  BY <1>1, <1>2, <1>4 DEF NewIds, SameKey
<1>6. \A r, s \in mem : SameKey(r, s) => r = s
  BY DEF TypeOK
<1>7. \A r, s \in mem \union {new} : SameKey(r, s) => r = s
  BY <1>5, <1>6
<1>8. \A r \in mem \union {new} : r.id < ids[MarketOf[r.trade]]
  BY <1>1, <1>2, <1>3, <1>4 DEF NewIds
<1> QED
  BY <1>2, <1>3, <1>7, <1>8

LEMMA NoSignalFacts ==
    /\ NoSignal \in [step : {"none", "queued", "loading"}, rows : SUBSET Row]
    /\ NoSignal.step = "none" /\ NoSignal.rows = {}
BY DEF NoSignal

-----------------------------------------------------------------------------
(***************************************************************************)
(* The steps.                                                              *)
(***************************************************************************)

\* The loop of the database is tested.
LEMMA TestStep ==
    ASSUME StoreInv, Test
    PROVE  /\ StoreInv'
           /\ Orderly /\ OnceInv => OnceInv'
<1>1. /\ db = "test"
      /\ db' \in {"waiting", "ended"}
      /\ UNCHANGED <<table, inserts, selects, deletes, running, main, unsaved,
                   storing, loaded, signal, mem, nextId, over, sessions,
                   failures, saved>>
  BY DEF Test, saving
<1>2. TypeOK'
  BY <1>1 DEF StoreInv, TypeOK
<1>3. NewIds' /\ OutQuiet' /\ SaveOnly' /\ RowsHeld'
  BY <1>1 DEF StoreInv, NewIds, OutQuiet, SaveOnly, RowsHeld, NoSignal, Held
<1>4. ASSUME Orderly, OnceInv PROVE OnceInv'
  <2>1. ManagedOnce' /\ RowsOnce' /\ StoredHeld' /\ LoadedOnce'
    BY <1>1, <1>4 DEF StoreInv, OnceInv, ManagedOnce, RowsOnce, StoredHeld,
       LoadedOnce, Once, Saving
  <2> QED
    BY <2>1 DEF OnceInv
<1> QED
  BY <1>2, <1>3, <1>4 DEF StoreInv

\* The rows are inserted: when a save has begun to store, the older rows are cleared
\* or about to be.
LEMMA InsertStep ==
    ASSUME StoreInv, Insert
    PROVE  /\ StoreInv'
           /\ Orderly /\ OnceInv => OnceInv'
<1>1. /\ db = "insert" /\ db' = "select"
      /\ inserts' = <<>>
      /\ table' \subseteq table \union RowsOf(inserts)
      /\ \A r, s \in table' : SameKey(r, s) => r = s
      /\ inserts = <<>> => table' = table
      /\ UNCHANGED <<selects, deletes, running, main, unsaved, storing, loaded,
                   signal, mem, nextId, over, sessions, failures, saved>>
  BY InsertFacts DEF Insert, saving, StoreInv
<1>2. TypeOK'
  BY <1>1 DEF StoreInv, TypeOK, RowsOf
<1>3. NewIds' /\ OutQuiet' /\ SaveOnly' /\ RowsHeld'
  BY <1>1 DEF StoreInv, NewIds, OutQuiet, SaveOnly, RowsHeld, NoSignal, Held
<1>4. ASSUME Orderly, OnceInv PROVE OnceInv'
  <2>1. RowsOnce'
    <3>1. Once(table)
      BY <1>1, <1>4 DEF OnceInv, RowsOnce
    <3>2. CASE inserts = <<>>
      BY <1>1, <3>1, <3>2 DEF RowsOnce, Once
    <3>3. CASE inserts # <<>> /\ Saving /\ deletes
      BY <1>1, <3>3 DEF RowsOnce, Saving
    <3>4. CASE inserts # <<>> /\ Saving /\ ~deletes
      <4>1. table' \subseteq mem
        BY <1>1, <1>4, <3>4 DEF OnceInv, StoredHeld, RowsOf
      <4> QED
        BY <1>4, <4>1 DEF OnceInv, ManagedOnce, RowsOnce, Once
    <3> QED
      BY <3>2, <3>3, <3>4 DEF StoreInv, SaveOnly, OutQuiet, TypeOK, Saving
  <2>2. StoredHeld'
    BY <1>1, <1>4 DEF StoreInv, OnceInv, StoredHeld, Saving, RowsOf
  <2>3. LoadedOnce'
    BY <1>1, <1>4 DEF StoreInv, OnceInv, LoadedOnce, Once, SaveOnly
  <2>4. ManagedOnce'
    BY <1>1, <1>4 DEF StoreInv, OnceInv, ManagedOnce, Once
  <2> QED
    BY <2>1, <2>2, <2>3, <2>4 DEF OnceInv
<1> QED
  BY <1>2, <1>3, <1>4 DEF StoreInv

\* The list found is sent to the strategy.
LEMMA SelectStep ==
    ASSUME StoreInv, Select
    PROVE  /\ StoreInv'
           /\ Orderly /\ OnceInv => OnceInv'
<1>1. /\ db = "select" /\ db' = "delete"
      /\ selects' = FALSE
      /\ signal' = IF selects THEN [step |-> "queued", rows |-> table] ELSE signal
      /\ UNCHANGED <<table, inserts, deletes, running, main, unsaved, storing,
                   loaded, mem, nextId, over, sessions, failures, saved>>
  BY DEF Select, saving
<1>2. TypeOK'
  BY <1>1 DEF StoreInv, TypeOK
<1>3. NewIds' /\ OutQuiet' /\ SaveOnly' /\ RowsHeld'
  BY <1>1 DEF StoreInv, NewIds, OutQuiet, SaveOnly, RowsHeld, NoSignal, Held
<1>4. ASSUME Orderly, OnceInv PROVE OnceInv'
  <2>1. LoadedOnce'
    <3> SUFFICES ASSUME main = "running" PROVE LoadedOnce'
      BY <1>1 DEF LoadedOnce
    <3>1. Once(table)
      BY <1>4 DEF OnceInv, RowsOnce, Saving
    <3>2. CASE selects
      <4>1. signal'.rows = table /\ loaded
        BY <1>1, <1>4, <3>2 DEF OnceInv, LoadedOnce
      <4> QED
        BY <1>1, <1>4, <3>1, <3>2, <4>1 DEF OnceInv, LoadedOnce, Once
    <3>3. CASE ~selects
      BY <1>1, <1>4, <3>3 DEF OnceInv, LoadedOnce, Once
    <3> QED
      BY <3>2, <3>3
  <2>2. ManagedOnce' /\ RowsOnce' /\ StoredHeld'
    BY <1>1, <1>4 DEF StoreInv, OnceInv, ManagedOnce, RowsOnce, StoredHeld,
       Once, Saving
  <2> QED
    BY <2>1, <2>2 DEF OnceInv
<1> QED
  BY <1>2, <1>3, <1>4 DEF StoreInv

\* The rows are cleared.
LEMMA DeleteStep ==
    ASSUME StoreInv, Delete
    PROVE  /\ StoreInv'
           /\ Orderly /\ OnceInv => OnceInv'
<1>1. /\ db = "delete" /\ db' = "test"
      /\ deletes' = FALSE
      /\ table' = IF deletes THEN {} ELSE table
      /\ UNCHANGED <<inserts, selects, running, main, unsaved, storing, loaded,
                   signal, mem, nextId, over, sessions, failures, saved>>
  BY DEF Delete, saving
<1>2. TypeOK'
  BY <1>1 DEF StoreInv, TypeOK
<1>3. NewIds' /\ OutQuiet' /\ SaveOnly' /\ RowsHeld'
  BY <1>1 DEF StoreInv, NewIds, OutQuiet, SaveOnly, RowsHeld, NoSignal, Held
<1>4. ASSUME Orderly, OnceInv PROVE OnceInv'
  <2>1. ManagedOnce' /\ RowsOnce' /\ StoredHeld' /\ LoadedOnce'
    BY <1>1, <1>4 DEF StoreInv, OnceInv, ManagedOnce, RowsOnce, StoredHeld,
       LoadedOnce, Once, Saving
  <2> QED
    BY <2>1 DEF OnceInv
<1> QED
  BY <1>2, <1>3, <1>4 DEF StoreInv

\* A query fails.
LEMMA FailStep ==
    ASSUME StoreInv, Fail
    PROVE  /\ StoreInv'
           /\ Orderly /\ OnceInv => OnceInv'
<1>1. /\ db \in FailAt
      /\ failures < MaxFailures /\ failures' = failures + 1
      /\ \/ db = "insert" /\ db' = "select"
         \/ db = "select" /\ selects /\ db' = "delete"
         \/ db = "delete" /\ deletes /\ db' = "test"
      /\ UNCHANGED <<table, inserts, selects, deletes, running, main, unsaved,
                   storing, loaded, signal, mem, nextId, over, sessions,
                   saved>>
  BY DEF Fail, saving
<1>2. TypeOK'
  BY <1>1, StoreAssumption DEF StoreInv, TypeOK
<1>3. NewIds' /\ OutQuiet' /\ SaveOnly' /\ RowsHeld'
  BY <1>1 DEF StoreInv, NewIds, OutQuiet, SaveOnly, RowsHeld, NoSignal, Held
<1>4. ASSUME Orderly, OnceInv PROVE OnceInv'
  <2>1. RowsOnce'
    BY <1>1, <1>4 DEF StoreInv, OnceInv, RowsOnce, Once, Saving, Orderly
  <2>2. ManagedOnce' /\ StoredHeld' /\ LoadedOnce'
    BY <1>1, <1>4 DEF StoreInv, OnceInv, ManagedOnce, StoredHeld, LoadedOnce,
       Once, Saving
  <2> QED
    BY <2>1, <2>2 DEF OnceInv
<1> QED
  BY <1>2, <1>3, <1>4 DEF StoreInv

\* Another request wakes the thread.
LEMMA OtherRequestStep ==
    ASSUME StoreInv, OtherRequest
    PROVE  /\ StoreInv'
           /\ Orderly /\ OnceInv => OnceInv'
<1>1. /\ db = "waiting" /\ db' = "insert"
      /\ UNCHANGED <<table, inserts, selects, deletes, running, main, unsaved,
                   storing, loaded, signal, mem, nextId, over, sessions,
                   failures, saved>>
  BY DEF OtherRequest, saving, Notify
<1>2. TypeOK'
  BY <1>1 DEF StoreInv, TypeOK
<1>3. NewIds' /\ OutQuiet' /\ SaveOnly' /\ RowsHeld'
  BY <1>1 DEF StoreInv, NewIds, OutQuiet, SaveOnly, RowsHeld, NoSignal, Held
<1>4. ASSUME Orderly, OnceInv PROVE OnceInv'
  <2>1. ManagedOnce' /\ RowsOnce' /\ StoredHeld' /\ LoadedOnce'
    BY <1>1, <1>4 DEF StoreInv, OnceInv, ManagedOnce, RowsOnce, StoredHeld,
       LoadedOnce, Once, Saving
  <2> QED
    BY <2>1 DEF OnceInv
<1> QED
  BY <1>2, <1>3, <1>4 DEF StoreInv

\* A session begins with no trade held.
LEMMA StartStep ==
    ASSUME StoreInv, Start
    PROVE  /\ StoreInv'
           /\ Orderly /\ OnceInv => OnceInv'
<1>1. /\ main = "out" /\ main' = "running"
      /\ sessions < MaxSessions /\ sessions' = sessions + 1
      /\ db' = "waiting" /\ running' = TRUE /\ loaded' = FALSE /\ saved' = FALSE
      /\ mem' = {} /\ nextId' = [m \in Markets |-> 1]
      /\ UNCHANGED <<table, inserts, selects, deletes, unsaved, storing,
                   signal, over, failures>>
  BY DEF Start, saving
<1>2. TypeOK'
  <2>1. /\ nextId' \in [Markets -> Nat] /\ sessions' \in 0..MaxSessions
        /\ mem' \subseteq Row /\ \A r, s \in mem' : SameKey(r, s) => r = s
    BY <1>1, StoreAssumption DEF StoreInv, TypeOK
  <2>2. /\ db' = "waiting" /\ main' = "running"
        /\ running' \in BOOLEAN /\ loaded' \in BOOLEAN /\ saved' \in BOOLEAN
    BY <1>1
  <2> QED
    BY <1>1, <2>1, <2>2 DEF StoreInv, TypeOK
<1>3. NewIds' /\ OutQuiet' /\ SaveOnly' /\ RowsHeld'
  BY <1>1 DEF StoreInv, NewIds, OutQuiet, SaveOnly, RowsHeld, NoSignal, Held
<1>4. ASSUME Orderly, OnceInv PROVE OnceInv'
  <2>1. RowsOnce'
    BY <1>1, <1>4 DEF StoreInv, OnceInv, RowsOnce, Once, Saving, OutQuiet
  <2>2. LoadedOnce'
    BY <1>1, <1>4, NoSignalFacts DEF StoreInv, OnceInv, LoadedOnce, Once,
       OutQuiet
  <2>3. ManagedOnce' /\ StoredHeld'
    BY <1>1, <1>4 DEF StoreInv, OnceInv, ManagedOnce, StoredHeld, Once, Saving
  <2> QED
    BY <2>1, <2>2, <2>3 DEF OnceInv
<1> QED
  BY <1>2, <1>3, <1>4 DEF StoreInv

\* The trades are asked for once.
LEMMA LoadStep ==
    ASSUME StoreInv, Load
    PROVE  /\ StoreInv'
           /\ Orderly /\ OnceInv => OnceInv'
<1>1. /\ main = "running" /\ ~loaded
      /\ loaded' = TRUE /\ selects' = TRUE
      /\ db' \in {db, "insert"} /\ (db # "waiting" => db' = db)
      /\ UNCHANGED <<table, inserts, deletes, running, main, unsaved, storing,
                   signal, mem, nextId, over, sessions, failures, saved>>
  BY DEF Load, saving, Notify
<1>2. TypeOK'
  BY <1>1 DEF StoreInv, TypeOK
<1>3. NewIds' /\ OutQuiet' /\ SaveOnly' /\ RowsHeld'
  BY <1>1 DEF StoreInv, NewIds, OutQuiet, SaveOnly, RowsHeld, NoSignal, Held
<1>4. ASSUME Orderly, OnceInv PROVE OnceInv'
  <2>1. ManagedOnce' /\ RowsOnce' /\ StoredHeld' /\ LoadedOnce'
    BY <1>1, <1>4 DEF StoreInv, OnceInv, ManagedOnce, RowsOnce, StoredHeld,
       LoadedOnce, Once, Saving
  <2> QED
    BY <2>1 DEF OnceInv
<1> QED
  BY <1>2, <1>3, <1>4 DEF StoreInv

\* A trade of the list is held from then on.
LEMMA LoadTradeStep ==
    ASSUME StoreInv, NEW r \in signal.rows, LoadTrade(r)
    PROVE  /\ StoreInv'
           /\ Orderly /\ OnceInv => OnceInv'
<1>1. /\ main = "running" /\ signal.step # "none" /\ r.trade \in Trades
      /\ signal' \in [step : {"none", "queued", "loading"}, rows : SUBSET Row]
      /\ signal'.step = "loading" /\ signal'.rows = signal.rows \ {r}
      /\ UNCHANGED <<table, inserts, selects, deletes, db, running, main,
                   unsaved, storing, loaded, over, sessions, failures, saved>>
  BY DEF LoadTrade, saving, StoreInv, TypeOK, Row
<1>2. PICK new \in Row :
        /\ new.trade = r.trade /\ mem' = mem \union {new}
        /\ nextId' \in [Markets -> Nat]
        /\ \A r0, s0 \in mem' : SameKey(r0, s0) => r0 = s0
        /\ \A r0 \in mem' : r0.id < nextId'[MarketOf[r0.trade]]
  BY <1>1, NewRowFacts DEF LoadTrade, StoreInv
<1>3. TypeOK'
  BY <1>1, <1>2 DEF StoreInv, TypeOK
<1>4. NewIds'
  BY <1>1, <1>2 DEF StoreInv, NewIds
<1>5. OutQuiet'
  BY <1>1, <1>2 DEF StoreInv, OutQuiet, NoSignal
<1>6. SaveOnly'
  BY <1>1, <1>2 DEF StoreInv, SaveOnly
<1>7. RowsHeld'
  BY <1>1, <1>2 DEF StoreInv, RowsHeld, Held
<1>8. ASSUME Orderly, OnceInv PROVE OnceInv'
  <2>1. ManagedOnce'
    BY <1>1, <1>2, <1>8 DEF StoreInv, OnceInv, ManagedOnce, Once, LoadedOnce
  <2>2. RowsOnce'
    BY <1>1, <1>2, <1>8 DEF StoreInv, OnceInv, RowsOnce, Once, Saving
  <2>3. StoredHeld'
    BY <1>1, <1>2, <1>8 DEF StoreInv, OnceInv, StoredHeld, Saving
  <2>4. LoadedOnce'
    BY <1>1, <1>2, <1>8 DEF StoreInv, OnceInv, LoadedOnce, Once, TypeOK
  <2> QED
    BY <2>1, <2>2, <2>3, <2>4 DEF OnceInv
<1> QED
  BY <1>3, <1>4, <1>5, <1>6, <1>7, <1>8 DEF StoreInv

\* The rows of a list that is loaded may be cleared.
LEMMA EndLoadStep ==
    ASSUME StoreInv, EndLoad
    PROVE  /\ StoreInv'
           /\ Orderly /\ OnceInv => OnceInv'
<1>1. /\ main = "running" /\ signal.step # "none" /\ signal.rows = {}
      /\ signal' = NoSignal /\ deletes' = TRUE
      /\ db' \in {db, "insert"} /\ (db # "waiting" => db' = db)
      /\ UNCHANGED <<table, inserts, selects, running, main, unsaved, storing,
                   loaded, mem, nextId, over, sessions, failures, saved>>
  BY DEF EndLoad, saving, Notify
<1>2. TypeOK'
  BY <1>1, NoSignalFacts DEF StoreInv, TypeOK
<1>3. NewIds' /\ OutQuiet' /\ SaveOnly' /\ RowsHeld'
  BY <1>1 DEF StoreInv, NewIds, OutQuiet, SaveOnly, RowsHeld, NoSignal, Held
<1>4. ASSUME Orderly, OnceInv PROVE OnceInv'
  <2>1. LoadedOnce'
    BY <1>1, <1>4, NoSignalFacts DEF StoreInv, OnceInv, LoadedOnce, Once
  <2>2. ManagedOnce' /\ RowsOnce' /\ StoredHeld'
    BY <1>1, <1>4 DEF StoreInv, OnceInv, ManagedOnce, RowsOnce, StoredHeld,
       Once, Saving
  <2> QED
    BY <2>1, <2>2 DEF OnceInv
<1> QED
  BY <1>2, <1>3, <1>4 DEF StoreInv

\* A trade that is opened is held once.
LEMMA OpenTradeStep ==
    ASSUME StoreInv, NEW t \in Trades, OpenTrade(t)
    PROVE  /\ StoreInv'
           /\ Orderly /\ OnceInv => OnceInv'
<1>1. /\ main = "running"
      /\ \A r \in mem \union table \union signal.rows : r.trade # t
      /\ UNCHANGED <<table, inserts, selects, deletes, db, running, main,
                   unsaved, storing, loaded, signal, over, sessions,
                   failures, saved>>
  BY DEF OpenTrade, saving
<1>2. PICK new \in Row :
        /\ new.trade = t /\ mem' = mem \union {new}
        /\ nextId' \in [Markets -> Nat]
        /\ \A r0, s0 \in mem' : SameKey(r0, s0) => r0 = s0
        /\ \A r0 \in mem' : r0.id < nextId'[MarketOf[r0.trade]]
  BY <1>1, NewRowFacts DEF OpenTrade, StoreInv
<1>3. TypeOK'
  BY <1>1, <1>2 DEF StoreInv, TypeOK
<1>4. NewIds'
  BY <1>1, <1>2 DEF StoreInv, NewIds
<1>5. OutQuiet'
  BY <1>1, <1>2 DEF StoreInv, OutQuiet, NoSignal
<1>6. SaveOnly'
  BY <1>1, <1>2 DEF StoreInv, SaveOnly
<1>7. RowsHeld'
  BY <1>1, <1>2 DEF StoreInv, RowsHeld, Held
<1>8. ASSUME Orderly, OnceInv PROVE OnceInv'
  <2>1. ManagedOnce'
    BY <1>1, <1>2, <1>8 DEF StoreInv, OnceInv, ManagedOnce, Once
  <2>2. RowsOnce'
    BY <1>1, <1>2, <1>8 DEF StoreInv, OnceInv, RowsOnce, Once, Saving
  <2>3. StoredHeld'
    BY <1>1, <1>2, <1>8 DEF StoreInv, OnceInv, StoredHeld, Saving
  <2>4. LoadedOnce'
    BY <1>1, <1>2, <1>8 DEF StoreInv, OnceInv, LoadedOnce, Once
  <2> QED
    BY <2>1, <2>2, <2>3, <2>4 DEF OnceInv
<1> QED
  BY <1>3, <1>4, <1>5, <1>6, <1>7, <1>8 DEF StoreInv

\* A trade ends.
LEMMA EndTradeStep ==
    ASSUME StoreInv, NEW r \in mem, EndTrade(r)
    PROVE  /\ StoreInv'
           /\ Orderly /\ OnceInv => OnceInv'
<1>1. /\ main = "running"
      /\ mem' = mem \ {r} /\ over' = over \union {r.trade}
      /\ UNCHANGED <<table, inserts, selects, deletes, db, running, main,
                   unsaved, storing, loaded, signal, nextId, sessions,
                   failures, saved>>
  BY DEF EndTrade, saving
<1>2. TypeOK'
  BY <1>1 DEF StoreInv, TypeOK, Row
<1>3. NewIds' /\ OutQuiet' /\ SaveOnly' /\ RowsHeld'
  BY <1>1 DEF StoreInv, NewIds, OutQuiet, SaveOnly, RowsHeld, NoSignal, Held
<1>4. ASSUME Orderly, OnceInv PROVE OnceInv'
  <2>1. ManagedOnce' /\ RowsOnce' /\ StoredHeld' /\ LoadedOnce'
    BY <1>1, <1>4 DEF StoreInv, OnceInv, ManagedOnce, RowsOnce, StoredHeld,
       LoadedOnce, Once, Saving
  <2> QED
    BY <2>1 DEF OnceInv
<1> QED
  BY <1>2, <1>3, <1>4 DEF StoreInv

\* The strategy thread is stopped.
LEMMA QuitStep ==
    ASSUME StoreInv, Quit
    PROVE  /\ StoreInv'
           /\ Orderly /\ OnceInv => OnceInv'
<1>1. /\ main = "running"
      /\ signal' = NoSignal
      /\ main' \in {"save", "close"}
      /\ unsaved' \in {Markets, unsaved} /\ saved' \in BOOLEAN
      /\ UNCHANGED <<table, inserts, selects, deletes, db, running, storing,
                   loaded, mem, nextId, over, sessions, failures>>
  BY StoreAssumption DEF Quit, saving, StoreInv, TypeOK
<1>2. TypeOK'
  BY <1>1, NoSignalFacts DEF StoreInv, TypeOK
<1>3. NewIds' /\ OutQuiet' /\ SaveOnly' /\ RowsHeld'
  BY <1>1 DEF StoreInv, NewIds, OutQuiet, SaveOnly, RowsHeld, NoSignal, Held
<1>4. ASSUME Orderly, OnceInv PROVE OnceInv'
  <2>1. StoredHeld'
    BY <1>1, <1>4 DEF StoreInv, OnceInv, StoredHeld, Saving, SaveOnly
  <2>2. ManagedOnce' /\ RowsOnce' /\ LoadedOnce'
    BY <1>1, <1>4 DEF StoreInv, OnceInv, ManagedOnce, RowsOnce, LoadedOnce,
       Once, Saving
  <2> QED
    BY <2>1, <2>2 DEF OnceInv
<1> QED
  BY <1>2, <1>3, <1>4 DEF StoreInv

\* The older rows are cleared.
LEMMA ClearTradesStep ==
    ASSUME StoreInv, NEW m \in unsaved, ClearTrades(m)
    PROVE  /\ StoreInv'
           /\ Orderly /\ OnceInv => OnceInv'
<1>1. /\ main = "save" /\ storing = {}
      /\ unsaved' \subseteq unsaved /\ storing' \subseteq mem
      /\ deletes' = TRUE
      /\ db' \in {db, "insert"} /\ (db # "waiting" => db' = db)
      /\ UNCHANGED <<table, inserts, selects, running, main, loaded, signal,
                   mem, nextId, over, sessions, failures, saved>>
  BY DEF ClearTrades, saving, Notify
<1>2. TypeOK'
  BY <1>1 DEF StoreInv, TypeOK
<1>3. NewIds' /\ OutQuiet' /\ SaveOnly' /\ RowsHeld'
  BY <1>1 DEF StoreInv, NewIds, OutQuiet, SaveOnly, RowsHeld, NoSignal, Held
<1>4. ASSUME Orderly, OnceInv PROVE OnceInv'
  <2>1. ManagedOnce' /\ RowsOnce' /\ StoredHeld' /\ LoadedOnce'
    BY <1>1, <1>4 DEF StoreInv, OnceInv, ManagedOnce, RowsOnce, StoredHeld,
       LoadedOnce, Once, Saving
  <2> QED
    BY <2>1 DEF OnceInv
<1> QED
  BY <1>2, <1>3, <1>4 DEF StoreInv

\* A trade is stored.
LEMMA StoreTradeStep ==
    ASSUME StoreInv, NEW r \in storing, StoreTrade(r)
    PROVE  /\ StoreInv'
           /\ Orderly /\ OnceInv => OnceInv'
<1>1. /\ main = "save"
      /\ storing' = storing \ {r}
      /\ inserts' = Append(inserts, r)
      /\ db' \in {db, "insert"} /\ (db # "waiting" => db' = db)
      /\ UNCHANGED <<table, selects, deletes, running, main, unsaved, loaded,
                   signal, mem, nextId, over, sessions, failures, saved>>
  BY DEF StoreTrade, saving, Notify
<1>2. TypeOK'
  BY <1>1 DEF StoreInv, TypeOK
<1>3. NewIds' /\ OutQuiet' /\ SaveOnly' /\ RowsHeld'
  BY <1>1 DEF StoreInv, NewIds, OutQuiet, SaveOnly, RowsHeld, NoSignal, Held
<1>4. ASSUME Orderly, OnceInv PROVE OnceInv'
  <2>1. ManagedOnce' /\ RowsOnce' /\ StoredHeld' /\ LoadedOnce'
    BY <1>1, <1>4 DEF StoreInv, OnceInv, ManagedOnce, RowsOnce, StoredHeld,
       LoadedOnce, Once, Saving
  <2> QED
    BY <2>1 DEF OnceInv
<1> QED
  BY <1>2, <1>3, <1>4 DEF StoreInv

\* The save ends.
LEMMA EndSaveStep ==
    ASSUME StoreInv, EndSave
    PROVE  /\ StoreInv'
           /\ Orderly /\ OnceInv => OnceInv'
<1>1. /\ main = "save" /\ main' = "close" /\ storing = {}
      /\ UNCHANGED <<table, inserts, selects, deletes, db, running, unsaved,
                   storing, loaded, signal, mem, nextId, over, sessions,
                   failures, saved>>
  BY DEF EndSave, saving
<1>2. TypeOK'
  BY <1>1 DEF StoreInv, TypeOK
<1>3. NewIds' /\ OutQuiet' /\ SaveOnly' /\ RowsHeld'
  BY <1>1 DEF StoreInv, NewIds, OutQuiet, SaveOnly, RowsHeld, NoSignal, Held
<1>4. ASSUME Orderly, OnceInv PROVE OnceInv'
  <2>1. ManagedOnce' /\ RowsOnce' /\ StoredHeld' /\ LoadedOnce'
    BY <1>1, <1>4 DEF StoreInv, OnceInv, ManagedOnce, RowsOnce, StoredHeld,
       LoadedOnce, Once, Saving
  <2> QED
    BY <2>1 DEF OnceInv
<1> QED
  BY <1>2, <1>3, <1>4 DEF StoreInv

\* The database is closed,
LEMMA CloseStep ==
    ASSUME StoreInv, Close
    PROVE  /\ StoreInv'
           /\ Orderly /\ OnceInv => OnceInv'
<1>1. /\ main = "close" /\ main' = "wake" /\ running' = FALSE
      /\ UNCHANGED <<table, inserts, selects, deletes, db, unsaved, storing,
                   loaded, signal, mem, nextId, over, sessions, failures,
                   saved>>
  BY DEF Close, saving
<1>2. TypeOK'
  BY <1>1 DEF StoreInv, TypeOK
<1>3. NewIds' /\ OutQuiet' /\ SaveOnly' /\ RowsHeld'
  BY <1>1 DEF StoreInv, NewIds, OutQuiet, SaveOnly, RowsHeld, NoSignal, Held
<1>4. ASSUME Orderly, OnceInv PROVE OnceInv'
  <2>1. ManagedOnce' /\ RowsOnce' /\ StoredHeld' /\ LoadedOnce'
    BY <1>1, <1>4 DEF StoreInv, OnceInv, ManagedOnce, RowsOnce, StoredHeld,
       LoadedOnce, Once, Saving
  <2> QED
    BY <2>1 DEF OnceInv
<1> QED
  BY <1>2, <1>3, <1>4 DEF StoreInv

\* woken up,
LEMMA WakeStep ==
    ASSUME StoreInv, Wake
    PROVE  /\ StoreInv'
           /\ Orderly /\ OnceInv => OnceInv'
<1>1. /\ main = "wake" /\ main' = "join"
      /\ db' \in {db, "insert"} /\ (db # "waiting" => db' = db)
      /\ UNCHANGED <<table, inserts, selects, deletes, running, unsaved,
                   storing, loaded, signal, mem, nextId, over, sessions,
                   failures, saved>>
  BY DEF Wake, saving, Notify
<1>2. TypeOK'
  BY <1>1 DEF StoreInv, TypeOK
<1>3. NewIds' /\ OutQuiet' /\ SaveOnly' /\ RowsHeld'
  BY <1>1 DEF StoreInv, NewIds, OutQuiet, SaveOnly, RowsHeld, NoSignal, Held
<1>4. ASSUME Orderly, OnceInv PROVE OnceInv'
  <2>1. ManagedOnce' /\ RowsOnce' /\ StoredHeld' /\ LoadedOnce'
    BY <1>1, <1>4 DEF StoreInv, OnceInv, ManagedOnce, RowsOnce, StoredHeld,
       LoadedOnce, Once, Saving
  <2> QED
    BY <2>1 DEF OnceInv
<1> QED
  BY <1>2, <1>3, <1>4 DEF StoreInv

\* and joined: no clear is under way.
LEMMA JoinStep ==
    ASSUME StoreInv, Join
    PROVE  /\ StoreInv'
           /\ Orderly /\ OnceInv => OnceInv'
<1>1. /\ main = "join" /\ db = "ended"
      /\ main' = "out" /\ db' = "ended" /\ running' = FALSE
      /\ inserts' = <<>> /\ selects' = FALSE /\ deletes' = FALSE
      /\ unsaved' = {} /\ storing' = {} /\ signal' = NoSignal
      /\ UNCHANGED <<table, loaded, mem, nextId, over, sessions, failures,
                   saved>>
  BY DEF Join, saving, Forget
<1>2. TypeOK'
  <2>1. inserts' \in Seq(Row)
    BY <1>1
  <2>2. unsaved' \subseteq Markets /\ storing' \subseteq Row
    BY <1>1
  <2>3. signal' \in [step : {"none", "queued", "loading"}, rows : SUBSET Row]
    BY <1>1, NoSignalFacts
  <2>4. db' = "ended" /\ main' = "out"
    BY <1>1
  <2>5. selects' \in BOOLEAN /\ deletes' \in BOOLEAN /\ running' \in BOOLEAN
    BY <1>1
  <2>6. saved' \in BOOLEAN
    BY <1>1 DEF StoreInv, TypeOK
  <2> QED
    BY <1>1, <2>1, <2>2, <2>3, <2>4, <2>5, <2>6 DEF StoreInv, TypeOK
<1>3. NewIds' /\ OutQuiet' /\ SaveOnly' /\ RowsHeld'
  BY <1>1 DEF StoreInv, NewIds, OutQuiet, SaveOnly, RowsHeld, NoSignal, Held
<1>4. ASSUME Orderly, OnceInv PROVE OnceInv'
  <2>1. ManagedOnce' /\ RowsOnce' /\ StoredHeld' /\ LoadedOnce'
    BY <1>1, <1>4 DEF StoreInv, OnceInv, ManagedOnce, RowsOnce, StoredHeld,
       LoadedOnce, Once, Saving
  <2> QED
    BY <2>1 DEF OnceInv
<1> QED
  BY <1>2, <1>3, <1>4 DEF StoreInv

\* A crash forgets what is pending.
LEMMA CrashStep ==
    ASSUME StoreInv, Crash
    PROVE  /\ StoreInv'
           /\ Orderly /\ OnceInv => OnceInv'
<1>1. /\ main \in CrashAt /\ saved' = FALSE
      /\ main' = "out" /\ db' = "ended" /\ running' = FALSE
      /\ inserts' = <<>> /\ selects' = FALSE /\ deletes' = FALSE
      /\ unsaved' = {} /\ storing' = {} /\ signal' = NoSignal
      /\ UNCHANGED <<table, loaded, mem, nextId, over, sessions, failures>>
  BY DEF Crash, saving, Forget
<1>2. TypeOK'
  <2>1. inserts' \in Seq(Row)
    BY <1>1
  <2>2. unsaved' \subseteq Markets /\ storing' \subseteq Row
    BY <1>1
  <2>3. signal' \in [step : {"none", "queued", "loading"}, rows : SUBSET Row]
    BY <1>1, NoSignalFacts
  <2>4. db' = "ended" /\ main' = "out"
    BY <1>1
  <2>5. selects' \in BOOLEAN /\ deletes' \in BOOLEAN /\ running' \in BOOLEAN
    BY <1>1
  <2>6. saved' \in BOOLEAN
    BY <1>1 DEF StoreInv, TypeOK
  <2> QED
    BY <1>1, <2>1, <2>2, <2>3, <2>4, <2>5, <2>6 DEF StoreInv, TypeOK
<1>3. NewIds' /\ OutQuiet' /\ SaveOnly' /\ RowsHeld'
  BY <1>1 DEF StoreInv, NewIds, OutQuiet, SaveOnly, RowsHeld, NoSignal, Held
<1>4. ASSUME Orderly, OnceInv PROVE OnceInv'
  <2>1. RowsOnce'
    BY <1>1, <1>4 DEF StoreInv, OnceInv, RowsOnce, Once, Saving, Orderly
  <2>2. ManagedOnce' /\ StoredHeld' /\ LoadedOnce'
    BY <1>1, <1>4 DEF StoreInv, OnceInv, ManagedOnce, StoredHeld, LoadedOnce,
       Once, Saving
  <2> QED
    BY <2>1, <2>2 DEF OnceInv
<1> QED
  BY <1>2, <1>3, <1>4 DEF StoreInv
-----------------------------------------------------------------------------
(***************************************************************************)
(* The theorems.                                                           *)
(***************************************************************************)

LEMMA StoreInit == Init => StoreInv /\ OnceInv
<1> SUFFICES ASSUME Init PROVE StoreInv /\ OnceInv
  OBVIOUS
<1>1. TypeOK
  <2>1. nextId \in [Markets -> Nat] /\ inserts \in Seq(Row)
    BY DEF Init
  <2>2. signal \in [step : {"none", "queued", "loading"}, rows : SUBSET Row]
    BY NoSignalFacts DEF Init
  <2>3. sessions \in 0..MaxSessions /\ failures \in 0..MaxFailures
    BY StoreAssumption DEF Init
  <2>4. table = {} /\ mem = {} /\ over = {} /\ unsaved = {} /\ storing = {}
    BY DEF Init
  <2>5. /\ selects \in BOOLEAN /\ deletes \in BOOLEAN /\ running \in BOOLEAN
        /\ loaded \in BOOLEAN /\ saved \in BOOLEAN
    BY DEF Init
  <2>6. db = "ended" /\ main = "out"
    BY DEF Init
  <2> QED
    BY <2>1, <2>2, <2>3, <2>4, <2>5, <2>6 DEF TypeOK
<1>2. NewIds /\ OutQuiet /\ SaveOnly /\ RowsHeld
  BY DEF Init, NewIds, OutQuiet, SaveOnly, RowsHeld
<1>3. OnceInv
  BY DEF Init, OnceInv, ManagedOnce, RowsOnce, StoredHeld, LoadedOnce, Once, Saving
<1> QED
  BY <1>1, <1>2, <1>3 DEF StoreInv

LEMMA StoreStutter ==
    ASSUME UNCHANGED vars
    PROVE  /\ StoreInv => StoreInv'
           /\ OnceInv => OnceInv'
<1>1. StoreInv => StoreInv'
  BY DEF vars, saving, StoreInv, TypeOK, NewIds, OutQuiet, SaveOnly, RowsHeld, Held
<1>2. OnceInv => OnceInv'
  BY DEF vars, saving, OnceInv, ManagedOnce, RowsOnce, StoredHeld, LoadedOnce,
         Once, Saving
<1> QED
  BY <1>1, <1>2

LEMMA StoreNext ==
    ASSUME StoreInv, [Next]_vars
    PROVE  /\ StoreInv'
           /\ Orderly /\ OnceInv => OnceInv'
<1>1. CASE Test \/ Process \/ OtherRequest
  BY <1>1, TestStep, InsertStep, SelectStep, DeleteStep, FailStep, OtherRequestStep
     DEF Process
<1>2. CASE Start \/ Load \/ EndLoad \/ Quit \/ Crash
  BY <1>2, StartStep, LoadStep, EndLoadStep, QuitStep, CrashStep
<1>3. CASE Exit
  BY <1>3, ClearTradesStep, StoreTradeStep, EndSaveStep, CloseStep, WakeStep, JoinStep
     DEF Exit, Save
<1>4. CASE UNCHANGED vars
  BY <1>4, StoreStutter
<1> QED
  BY <1>1, <1>2, <1>3, <1>4, LoadTradeStep, OpenTradeStep, EndTradeStep DEF Next

LEMMA StoreInvariant == Spec => []StoreInv
<1>1. StoreInv /\ [Next]_vars => StoreInv'
  BY StoreNext
<1>2. Init => StoreInv
  BY StoreInit
<1> QED
  BY <1>1, <1>2, PTL DEF Spec

\* Every reachable state has its type: the keys of the table and the identifiers
\* of the trades in memory are unique, for any number of sessions, whatever
\* fails and crashes.
THEOREM StoreTyped == Spec => []TypeOK
<1>1. StoreInv => TypeOK
  BY DEF StoreInv
<1> QED
  BY <1>1, StoreInvariant, PTL

\* No row is deleted while the strategy runs before its trade is held again,
\* wherever a query fails or the program crashes.
THEOREM ClearedOnceLoaded == Spec => ClearedWhenLoaded
<1> DEFINE Cleared == main = "running" => \A r \in table \ table' : Held(r.trade)
<1>1. StoreInv /\ [Next]_vars => Cleared
  <2> SUFFICES ASSUME StoreInv, [Next]_vars, main = "running"
               PROVE  table' = table \/ \A r \in table : Held(r.trade)
    OBVIOUS
  <2>1. CASE Insert
    BY <2>1, InsertFacts DEF StoreInv, SaveOnly
  <2>2. CASE Delete
    BY <2>2 DEF Delete, StoreInv, RowsHeld
  <2>3. CASE Test \/ Select \/ Fail \/ OtherRequest
    BY <2>3 DEF Test, Select, Fail, OtherRequest
  <2>4. CASE Start \/ Load \/ EndLoad \/ Quit \/ Crash
    BY <2>4 DEF Start, Load, EndLoad, Quit, Crash
  <2>5. CASE Exit
    BY <2>5 DEF Exit, Save, ClearTrades, StoreTrade, EndSave, Close, Wake, Join
  <2>6. ASSUME NEW r \in signal.rows, LoadTrade(r) PROVE table' = table
    BY <2>6 DEF LoadTrade
  <2>7. ASSUME NEW t \in Trades, OpenTrade(t) PROVE table' = table
    BY <2>7 DEF OpenTrade
  <2>8. ASSUME NEW r \in mem, EndTrade(r) PROVE table' = table
    BY <2>8 DEF EndTrade
  <2>9. CASE UNCHANGED vars
    BY <2>9 DEF vars
  <2> QED
    BY <2>1, <2>2, <2>3, <2>4, <2>5, <2>6, <2>7, <2>8, <2>9 DEF Next, Process
<1>2. Cleared <=> (main = "running" =>
                     \A r \in table \ table' :
                        \/ r.trade \in over
                        \/ \E s \in mem : s.trade = r.trade)
  BY DEF Held
<1>3. StoreInv /\ [Next]_vars =>
        [main = "running" =>
           \A r \in table \ table' :
              \/ r.trade \in over
              \/ \E s \in mem : s.trade = r.trade]_vars
  BY <1>1, <1>2
<1> HIDE DEF Cleared
<1> QED
  BY <1>3, StoreInvariant, PTL DEF Spec, ClearedWhenLoaded

\* When the program only crashes while the strategy runs, and no clear fails, no
\* trade is ever managed twice, over any number of sessions.
THEOREM TradesManagedOnce ==
    ASSUME Orderly
    PROVE  Spec => []ManagedOnce
<1>1. StoreInv /\ OnceInv /\ [Next]_vars => StoreInv' /\ OnceInv'
  BY StoreNext
<1>2. Init => StoreInv /\ OnceInv
  BY StoreInit
<1>3. OnceInv => ManagedOnce
  BY DEF OnceInv
<1> QED
  BY <1>1, <1>2, <1>3, PTL DEF Spec
=============================================================================

----------------------- MODULE StrategyProcessProofs -----------------------
(***************************************************************************)
(* Theorems about StrategyProcess, for any number of workers and any       *)
(* bounds: the flag is always released, nothing is forgotten in a sleeping *)
(* market, nothing is processed before the history is there, and the       *)
(* initialization, the check and the bootstrap are done by one worker at a *)
(* time.                                                                   *)
(***************************************************************************)
EXTENDS StrategyProcess, FiniteSetTheorems, TLAPS

Somebody(places) == \E w \in Workers : pc[w] \in places

(* No signal made the strategy trader begin, except those still queued. *)
Unsignalled == restarts = 0 /\ rechecks = 0 /\ initialized = "waiting"

(* A signal or a job is under way. *)
Called == awake \/ jobs > 0

Flag == processing => Somebody(Claimed)

(* Who asks for the check of the trades comes before a worker that tests   *)
(* it; and who began it ends it.                                           *)
CheckComes ==
    /\ checked = "waiting" =>
         \/ Called
         \/ Somebody({"initiate", "initiating", "queried", "check"})
         \/ Unsignalled
    /\ checked = "progressing" => Somebody({"checking"})

(* The same of the initialization, which an exception leaves unfinished.   *)
InitializationComes ==
    /\ initialized = "waiting" => Called \/ Somebody({"initiate"}) \/ Unsignalled
    /\ failures = 0 /\ initialized = "progressing" => Somebody({"initiating", "queried"})
    /\ failures = 0 /\ waitingData => bulks > 0

(* Nothing is done before the initialization, and nothing processed before *)
(* the bootstrap, until a restart.                                         *)
InOrder ==
    restarts = 0 =>
        /\ initialized = "waiting" =>
             /\ checked = "waiting"
             /\ bootstrapping = "waiting"
             /\ \A w \in Workers : pc[w] \in {"idle", "initiate"}
        /\ bootstrapping = "waiting" =>
             \A w \in Workers : pc[w] \notin {"bootstrapping", "process", "release"}

(* A job that is dropped leaves the bootstrap to a signal, another job, an *)
(* answer to come or another worker.                                       *)
BootstrapComes ==
    restarts = 0 =>
        /\ failures = 0 /\ bootstrapping = "waiting" =>
             Called \/ bulks > 0 \/ Somebody(Place \ {"idle"}) \/ Unsignalled
        /\ bootstrapping = "progressing" => Somebody({"bootstrapping"})

ComesInv ==
    /\ TypeOK
    /\ Flag
    /\ CheckComes
    /\ InitializationComes
    /\ InOrder
    /\ BootstrapComes


USE BoundsAssumption DEF BoundsAssumption, states, counters, Go, Test, State, Place, Claimed

(* Every step preserves the invariant. *)
LEMMA ComesInvKept ==
  ASSUME ComesInv, [Next]_vars
  PROVE  ComesInv'
<1> USE DEF ComesInv, TypeOK, Flag, CheckComes, InitializationComes, InOrder,
            BootstrapComes, Somebody, Unsignalled, Called
<1>1. CASE Tick
  BY <1>1 DEF Tick
<1>2. CASE Restart
  BY <1>2 DEF Restart
<1>3. CASE Recheck
  BY <1>3 DEF Recheck
<1>4. CASE DataReceived
  <2>1. bulks' \in Nat
    BY <1>4 DEF DataReceived, TypeOK
  <2>2. TypeOK'
    BY <1>4, <2>1, Zenon DEF DataReceived, TypeOK
  <2>3. QED
    BY <1>4, <2>2 DEF DataReceived
<1>5. CASE Update
  <2>1. jobs' = jobs + 1 /\ jobs' \in 0..MaxJobs
    BY <1>5 DEF Update, TypeOK
  <2>2. TypeOK'
    BY <1>5, <2>1 DEF Update, TypeOK
  <2>3. QED
    BY <1>5, <2>1, <2>2 DEF Update
<1>6. CASE DataRepeated
  <2>1. TypeOK'
    BY <1>6, Zenon DEF DataRepeated, TypeOK
  <2>2. QED
    BY <1>6, <2>1 DEF DataRepeated
<1>7. ASSUME NEW w \in Workers, Worker(w)
       PROVE  ComesInv'
  <2>1. CASE NextJob(w)
    BY <2>1 DEF NextJob
  <2>2. CASE Initiate(w)
    BY <2>2 DEF Initiate
  <2>3. CASE QueryHistoricalData(w)
    BY <2>3 DEF QueryHistoricalData
  <2>4. CASE InitiateFails(w)
    <3>1. failures' \in 0..MaxFailures
      BY <2>4 DEF InitiateFails, TypeOK
    <3>2. TypeOK'
      BY <2>4, <3>1 DEF InitiateFails, TypeOK
    <3>3. QED
      BY <2>4, <3>2 DEF InitiateFails
  <2>5. CASE InitiateDone(w)
    BY <2>5 DEF InitiateDone
  <2>6. CASE Check(w)
    BY <2>6 DEF Check
  <2>7. CASE CheckDone(w)
    BY <2>7 DEF CheckDone
  (* A job dropped here leaves the work to the worker in the state it found. *)
  <2>8. CASE TestStates(w)
    BY <2>8 DEF TestStates
  (* A job dropped here leaves the bootstrap to the worker with the flag.    *)
  <2>9. CASE TestProcessing(w)
    BY <2>9 DEF TestProcessing
  <2>10. CASE Claim(w)
    BY <2>10 DEF Claim
  <2>11. CASE Branch(w)
    BY <2>11 DEF Branch
  <2>12. CASE Bootstrap(w)
    BY <2>12 DEF Bootstrap
  <2>13. CASE BootstrapDone(w)
    BY <2>13 DEF BootstrapDone
  <2>14. CASE Process(w)
    BY <2>14 DEF Process
  <2>15. CASE Release(w)
    BY <2>15 DEF Release
  <2> QED
    BY <1>7, <2>1, <2>2, <2>3, <2>4, <2>5, <2>6, <2>7, <2>8, <2>9, <2>10, <2>11,
       <2>12, <2>13, <2>14, <2>15 DEF Worker
<1>8. CASE UNCHANGED vars
  BY <1>8 DEF vars
<1> QED
  BY <1>1, <1>2, <1>3, <1>4, <1>5, <1>6, <1>7, <1>8 DEF Next

LEMMA InitComes == Init => ComesInv
<1>1. Init => TypeOK
  <2>1. 0 \in Nat /\ 0 \in 0..MaxJobs /\ 0 \in 0..MaxRestarts /\ 0 \in 0..MaxRechecks
          /\ 0 \in 0..MaxFailures
    OBVIOUS
  <2>2. QED
    BY <2>1, Zenon DEF Init, TypeOK
<1>2. Init => Flag /\ CheckComes /\ InitializationComes
  BY DEF Init, Flag, CheckComes, InitializationComes, Unsignalled
<1>3. Init => InOrder /\ BootstrapComes
  BY DEF Init, InOrder, BootstrapComes, Unsignalled
<1> QED
  BY <1>1, <1>2, <1>3 DEF ComesInv

LEMMA Comes == Spec => []ComesInv
  BY InitComes, ComesInvKept, PTL DEF Spec

(* Every reachable state has its type. *)
THEOREM ProcessTyped == Spec => []TypeOK
  BY Comes, PTL DEF ComesInv

(* The processing flag is never left set (alphaprocess.py:269).            *)
THEOREM FlagIsReleased == Spec => []FlagReleased
<1>1. ComesInv => FlagReleased
  BY DEF ComesInv, Flag, FlagReleased, Somebody, At
<1> QED
  BY <1>1, Comes, PTL

(* No call is lost: when nothing is under way the trades are checked and,  *)
(* unless an exception or a restart interfered, the bootstrap done         *)
(* (alphaprocess.py:235-272).                                              *)
THEOREM NothingIsForgotten == Spec => []NothingForgotten
<1>1. ComesInv /\ Quiet => ~Called /\ bulks = 0 /\ \A w \in Workers : pc[w] = "idle"
  BY DEF ComesInv, TypeOK, Quiet, At, Called
<1>2. ComesInv /\ Quiet /\ Unsignalled => Untouched
  BY DEF ComesInv, InOrder, Unsignalled, Untouched
<1>3. ComesInv => NothingForgotten
  BY <1>1, <1>2 DEF ComesInv, TypeOK, CheckComes, InitializationComes, BootstrapComes,
                    Somebody, NothingForgotten
<1> QED
  BY <1>3, Comes, PTL

-----------------------------------------------------------------------------
Initiators == {"initiating", "queried"}
AfterReady == {"test_processing", "claim"} \union Claimed
AfterInitialized == {"test_checked", "test_ready"} \union AfterReady

(* Until a restart one worker initializes, once; what a worker tested      *)
(* stays true.                                                             *)
Tested ==
    restarts = 0 =>
        /\ \A v, w \in Workers : pc[v] \in Initiators /\ pc[w] \in Initiators => v = w
        /\ \A w \in Workers :
             /\ pc[w] \in Initiators => initialized = "progressing"
             /\ pc[w] \in AfterInitialized => initialized = "normal"
             /\ pc[w] \in AfterReady => ~waitingData

LEMMA TestedKept ==
  ASSUME ComesInv, Tested, [Next]_vars
  PROVE  Tested'
<1> USE DEF ComesInv, TypeOK, InOrder, Tested, Initiators, AfterReady, AfterInitialized
<1>1. CASE Tick
  BY <1>1 DEF Tick
<1>2. CASE Restart
  BY <1>2 DEF Restart
<1>3. CASE Recheck
  BY <1>3 DEF Recheck
<1>4. CASE DataReceived
  BY <1>4 DEF DataReceived
<1>5. CASE Update
  BY <1>5 DEF Update
<1>6. CASE DataRepeated
  BY <1>6 DEF DataRepeated
<1>7. ASSUME NEW w \in Workers, Worker(w)
       PROVE  Tested'
  <2>1. CASE NextJob(w)
    BY <2>1 DEF NextJob
  <2>2. CASE Initiate(w)
    BY <2>2 DEF Initiate
  <2>3. CASE QueryHistoricalData(w)
    BY <2>3 DEF QueryHistoricalData
  <2>4. CASE InitiateFails(w)
    BY <2>4 DEF InitiateFails
  <2>5. CASE InitiateDone(w)
    BY <2>5 DEF InitiateDone
  <2>6. CASE Check(w)
    BY <2>6 DEF Check
  <2>7. CASE CheckDone(w)
    BY <2>7 DEF CheckDone
  <2>8. CASE TestStates(w)
    BY <2>8 DEF TestStates
  <2>9. CASE TestProcessing(w)
    BY <2>9 DEF TestProcessing
  <2>10. CASE Claim(w)
    BY <2>10 DEF Claim
  <2>11. CASE Branch(w)
    BY <2>11 DEF Branch
  <2>12. CASE Bootstrap(w)
    BY <2>12 DEF Bootstrap
  <2>13. CASE BootstrapDone(w)
    BY <2>13 DEF BootstrapDone
  <2>14. CASE Process(w)
    BY <2>14 DEF Process
  <2>15. CASE Release(w)
    BY <2>15 DEF Release
  <2> QED
    BY <1>7, <2>1, <2>2, <2>3, <2>4, <2>5, <2>6, <2>7, <2>8, <2>9, <2>10, <2>11,
       <2>12, <2>13, <2>14, <2>15 DEF Worker
<1>8. CASE UNCHANGED vars
  BY <1>8 DEF vars
<1> QED
  BY <1>1, <1>2, <1>3, <1>4, <1>5, <1>6, <1>7, <1>8 DEF Next

(* Until a restart, nothing is processed before the history is there, and  *)
(* no live data before the bootstrap began (alphaprocess.py:244, 257).     *)
THEOREM WarmUpFirst == Spec => []WarmUp
<1>1. Init => Tested
  BY DEF Init, Tested, Initiators, AfterReady, AfterInitialized
<1>2. ComesInv /\ Tested => WarmUp
  BY DEF ComesInv, TypeOK, InOrder, Tested, AfterReady, AfterInitialized, WarmUp, At
<1> QED
  BY <1>1, <1>2, Comes, TestedKept, PTL DEF Spec

-----------------------------------------------------------------------------
(* One worker may enter while the state is "waiting".                      *)
Entry(state) == IF state = "waiting" THEN 1 ELSE 0

(* Some workers, with the one that may join them, are at most n.           *)
Fit(S, entry, n) == IsFiniteSet(S) /\ Cardinality(S) + entry <= n

(* A state is set back to "waiting" by a command only, which allows one    *)
(* more worker; the worker that enters takes it out of "waiting".          *)
Allowed ==
    /\ Fit(At(Initiators), Entry(initialized), 1 + restarts)
    /\ Fit(At({"checking"}), Entry(checked), 1 + restarts + rechecks)
    /\ Fit(At({"bootstrapping"}), Entry(bootstrapping), 1 + restarts)

(* No worker enters: the bound is kept if the state is not set back.       *)
LEMMA BoundKept ==
  ASSUME NEW S, NEW T, T \subseteq S, NEW i \in {0, 1}, NEW j \in {0, 1}, j <= i,
         NEW n \in Nat, Fit(S, i, n)
  PROVE  Fit(T, j, n)
<1>1. /\ IsFiniteSet(T) /\ Cardinality(T) \in Nat /\ Cardinality(S) \in Nat
      /\ Cardinality(T) <= Cardinality(S)
  BY FS_Subset, FS_CardinalityType DEF Fit
<1> QED
  BY <1>1 DEF Fit

LEMMA BoundSame ==
  ASSUME NEW S, NEW T, T \subseteq S, NEW i \in {0, 1}, NEW n \in Nat, Fit(S, i, n)
  PROVE  Fit(T, i, n)
<1>1. i <= i
  OBVIOUS
<1> QED
  BY <1>1, BoundKept

(* A command sets the state back: one more is allowed.                     *)
LEMMA BoundRaised ==
  ASSUME NEW S, NEW i \in {0, 1}, NEW j \in {0, 1}, NEW n \in Nat, Fit(S, i, n)
  PROVE  Fit(S, j, n + 1)
<1>1. Cardinality(S) \in Nat
  BY FS_CardinalityType DEF Fit
<1> QED
  BY <1>1 DEF Fit

(* A worker enters, and the state is no longer "waiting".                  *)
LEMMA BoundTaken ==
  ASSUME NEW S, NEW T, NEW w, T \subseteq S \union {w}, NEW n \in Nat, Fit(S, 1, n)
  PROVE  Fit(T, 0, n)
<1>1. Cardinality(S) \in Nat
  BY FS_CardinalityType DEF Fit
<1>2. /\ IsFiniteSet(S \union {w})
      /\ Cardinality(S \union {w}) \in {Cardinality(S), Cardinality(S) + 1}
  BY FS_AddElement DEF Fit
<1>3. /\ IsFiniteSet(T) /\ Cardinality(T) \in Nat
      /\ Cardinality(T) <= Cardinality(S \union {w})
  BY <1>2, FS_Subset, FS_CardinalityType
<1> QED
  BY <1>1, <1>2, <1>3 DEF Fit

LEMMA AllowedKept ==
  ASSUME ComesInv, Allowed, [Next]_vars
  PROVE  Allowed'
<1>1. /\ pc \in [Workers -> Place]
      /\ restarts \in Nat /\ rechecks \in Nat
  BY DEF ComesInv, TypeOK
<1> PICK n \in Nat, m \in Nat : n = 1 + restarts /\ m = 1 + restarts + rechecks
  BY <1>1
<1>2. /\ Fit(At(Initiators), Entry(initialized), n)
      /\ Fit(At({"checking"}), Entry(checked), m)
      /\ Fit(At({"bootstrapping"}), Entry(bootstrapping), n)
  BY DEF Allowed
<1>3. /\ Entry(initialized) \in {0, 1} /\ Entry(initialized') \in {0, 1}
      /\ Entry(checked) \in {0, 1} /\ Entry(checked') \in {0, 1}
      /\ Entry(bootstrapping) \in {0, 1} /\ Entry(bootstrapping') \in {0, 1}
  BY DEF Entry
(* Nobody enters. *)
<1>4. ASSUME At(Initiators)' \subseteq At(Initiators),
             At({"checking"})' \subseteq At({"checking"}),
             At({"bootstrapping"})' \subseteq At({"bootstrapping"}),
             UNCHANGED <<restarts, rechecks>>,
             Entry(initialized') <= Entry(initialized),
             Entry(checked') <= Entry(checked),
             Entry(bootstrapping') <= Entry(bootstrapping)
      PROVE  Allowed'
  <2>1. Fit(At(Initiators)', Entry(initialized'), n)
    <3>1. /\ Entry(initialized) \in {0, 1} /\ Entry(initialized') \in {0, 1}
          /\ Entry(initialized') <= Entry(initialized)
      BY <1>3, <1>4
    <3>2. Fit(At(Initiators), Entry(initialized), n)
      BY <1>2
    <3>3. At(Initiators)' \subseteq At(Initiators)
      BY <1>4
    <3> QED
      BY <3>1, <3>2, <3>3, BoundKept
  <2>2. Fit(At({"checking"})', Entry(checked'), m)
    BY <1>2, <1>3, <1>4, BoundKept
  <2>3. Fit(At({"bootstrapping"})', Entry(bootstrapping'), n)
    BY <1>2, <1>3, <1>4, BoundKept
  <2> QED
    BY <1>4, <2>1, <2>2, <2>3 DEF Allowed
<1>5. CASE Restart
  <2>1. /\ At(Initiators)' = At(Initiators) /\ At({"checking"})' = At({"checking"})
        /\ At({"bootstrapping"})' = At({"bootstrapping"})
        /\ 1 + restarts' = n + 1 /\ 1 + restarts' + rechecks' = m + 1
    BY <1>1, <1>5 DEF Restart, At
  <2>2. Fit(At(Initiators), Entry(initialized'), n + 1)
    BY <1>2, <1>3, BoundRaised
  <2>3. Fit(At({"checking"}), Entry(checked'), m + 1)
    BY <1>2, <1>3, BoundRaised
  <2>4. Fit(At({"bootstrapping"}), Entry(bootstrapping'), n + 1)
    BY <1>2, <1>3, BoundRaised
  <2> QED
    BY <2>1, <2>2, <2>3, <2>4 DEF Allowed
<1>6. CASE Recheck
  <2>1. /\ At(Initiators)' = At(Initiators) /\ At({"checking"})' = At({"checking"})
        /\ At({"bootstrapping"})' = At({"bootstrapping"})
        /\ 1 + restarts' = n /\ 1 + restarts' + rechecks' = m + 1
        /\ UNCHANGED <<initialized, bootstrapping>>
    BY <1>1, <1>6 DEF Recheck, At
  <2>2. Fit(At({"checking"}), Entry(checked'), m + 1)
    BY <1>2, <1>3, BoundRaised
  <2> QED
    BY <1>2, <2>1, <2>2 DEF Allowed
<1>7. CASE Tick \/ DataReceived \/ DataRepeated \/ Update \/ UNCHANGED vars
  <2>1. UNCHANGED <<initialized, checked, bootstrapping, pc, restarts, rechecks>>
    BY <1>7 DEF Tick, DataReceived, DataRepeated, Update, vars
  <2> QED
    BY <2>1 DEF Allowed, At
<1>8. ASSUME NEW w \in Workers, Worker(w)
      PROVE  Allowed'
  (* The three tests and sets under the mutex. *)
  <2>1. CASE Initiate(w) /\ initialized = "waiting"
    <3>1. /\ pc' = [pc EXCEPT ![w] = "initiating"] /\ initialized' = "progressing"
          /\ UNCHANGED <<checked, bootstrapping, restarts, rechecks>>
      BY <2>1 DEF Initiate
    <3>2. At(Initiators)' \subseteq At(Initiators) \union {w}
      BY <1>1, <3>1 DEF At, Initiators
    <3>3. /\ At({"checking"})' \subseteq At({"checking"})
          /\ At({"bootstrapping"})' \subseteq At({"bootstrapping"})
      BY <1>1, <3>1 DEF At, Initiators
    <3>4. Entry(initialized) = 1 /\ Entry(initialized') = 0
      BY <2>1, <3>1 DEF Entry
    <3>5. Fit(At(Initiators)', Entry(initialized'), n)
      BY <1>2, <3>2, <3>4, BoundTaken
    <3>6. /\ Fit(At({"checking"})', Entry(checked'), m)
          /\ Fit(At({"bootstrapping"})', Entry(bootstrapping'), n)
      BY <1>2, <1>3, <3>1, <3>3, BoundSame
    <3> QED
      BY <1>1, <3>1, <3>5, <3>6 DEF Allowed
  <2>2. CASE Check(w) /\ checked = "waiting"
    <3>1. /\ pc' = [pc EXCEPT ![w] = "checking"] /\ checked' = "progressing"
          /\ UNCHANGED <<initialized, bootstrapping, restarts, rechecks>>
      BY <2>2 DEF Check
    <3>2. At({"checking"})' \subseteq At({"checking"}) \union {w}
      BY <1>1, <3>1 DEF At, Initiators
    <3>3. /\ At(Initiators)' \subseteq At(Initiators)
          /\ At({"bootstrapping"})' \subseteq At({"bootstrapping"})
      BY <1>1, <3>1 DEF At, Initiators
    <3>4. Entry(checked) = 1 /\ Entry(checked') = 0
      BY <2>2, <3>1 DEF Entry
    <3>5. Fit(At({"checking"})', Entry(checked'), m)
      BY <1>2, <3>2, <3>4, BoundTaken
    <3>6. /\ Fit(At(Initiators)', Entry(initialized'), n)
          /\ Fit(At({"bootstrapping"})', Entry(bootstrapping'), n)
      BY <1>2, <1>3, <3>1, <3>3, BoundSame
    <3> QED
      BY <1>1, <3>1, <3>5, <3>6 DEF Allowed
  <2>3. CASE Bootstrap(w) /\ bootstrapping = "waiting"
    <3>1. /\ pc' = [pc EXCEPT ![w] = "bootstrapping"] /\ bootstrapping' = "progressing"
          /\ UNCHANGED <<initialized, checked, restarts, rechecks>>
      BY <2>3 DEF Bootstrap
    <3>2. At({"bootstrapping"})' \subseteq At({"bootstrapping"}) \union {w}
      BY <1>1, <3>1 DEF At, Initiators
    <3>3. /\ At(Initiators)' \subseteq At(Initiators)
          /\ At({"checking"})' \subseteq At({"checking"})
      BY <1>1, <3>1 DEF At, Initiators
    <3>4. Entry(bootstrapping) = 1 /\ Entry(bootstrapping') = 0
      BY <2>3, <3>1 DEF Entry
    <3>5. Fit(At({"bootstrapping"})', Entry(bootstrapping'), n)
      BY <1>2, <3>2, <3>4, BoundTaken
    <3>6. /\ Fit(At(Initiators)', Entry(initialized'), n)
          /\ Fit(At({"checking"})', Entry(checked'), m)
      BY <1>2, <1>3, <3>1, <3>3, BoundSame
    <3> QED
      BY <1>1, <3>1, <3>5, <3>6 DEF Allowed
  <2>4. CASE \/ Initiate(w) /\ initialized # "waiting"
             \/ Check(w) /\ checked # "waiting"
             \/ Bootstrap(w) /\ bootstrapping # "waiting"
             \/ NextJob(w) \/ QueryHistoricalData(w) \/ InitiateFails(w)
             \/ InitiateDone(w) \/ CheckDone(w) \/ TestStates(w)
             \/ TestProcessing(w) \/ Claim(w) \/ Branch(w) \/ BootstrapDone(w)
             \/ Process(w) \/ Release(w)
    <3>1. /\ UNCHANGED <<restarts, rechecks>>
          /\ initialized' \in {initialized, "normal"}
          /\ checked' \in {checked, "normal"}
          /\ bootstrapping' \in {bootstrapping, "normal"}
      BY <2>4 DEF Initiate, Check, Bootstrap, NextJob, QueryHistoricalData,
                  InitiateFails, InitiateDone, CheckDone, TestStates,
                  TestProcessing, Claim, Branch, BootstrapDone, Process, Release
    <3>2. /\ Entry(initialized') <= Entry(initialized)
          /\ Entry(checked') <= Entry(checked)
          /\ Entry(bootstrapping') <= Entry(bootstrapping)
      BY <3>1 DEF Entry
    <3>3. /\ At(Initiators)' \subseteq At(Initiators)
          /\ At({"checking"})' \subseteq At({"checking"})
          /\ At({"bootstrapping"})' \subseteq At({"bootstrapping"})
      BY <1>1, <2>4
         DEF At, Initiators, Initiate, Check, Bootstrap, NextJob,
             QueryHistoricalData, InitiateFails, InitiateDone, CheckDone,
             TestStates, TestProcessing, Claim, Branch, BootstrapDone, Process,
             Release
    <3> QED
      BY <1>4, <3>1, <3>2, <3>3
  <2> QED
    BY <1>8, <2>1, <2>2, <2>3, <2>4 DEF Worker
<1> QED
  BY <1>5, <1>6, <1>7, <1>8 DEF Next

(* A worker initializes, checks the trades or bootstraps alone, but for    *)
(* those a command allowed while it ran: the states are tested and set     *)
(* under the mutex, and set back by commands only                          *)
(* (strategytraderbase.py:1084, alphaprocess.py:31).                       *)
THEOREM OneWorkerAtATime == Spec => []OneAtATime
<1>1. Init => Allowed
  <2>1. ASSUME Init, NEW places, "idle" \notin places
        PROVE  At(places) = {}
    BY <2>1 DEF Init, At
  <2>2. Init => /\ restarts = 0 /\ rechecks = 0
                /\ At(Initiators) = {} /\ At({"checking"}) = {}
                /\ At({"bootstrapping"}) = {}
    BY <2>1 DEF Init, Initiators
  <2> QED
    BY <2>2, FS_EmptySet DEF Allowed, Fit, Init, Entry
<1>2. ComesInv /\ Allowed => OneAtATime
  <2> SUFFICES ASSUME ComesInv, Allowed PROVE OneAtATime
    OBVIOUS
  <2>1. /\ Cardinality(At(Initiators)) \in Nat
        /\ Cardinality(At({"checking"})) \in Nat
        /\ Cardinality(At({"bootstrapping"})) \in Nat
    BY FS_CardinalityType DEF Allowed, Fit
  <2> QED
    BY <2>1 DEF ComesInv, TypeOK, Allowed, Fit, Entry, OneAtATime, Initiators
<1> QED
  BY <1>1, <1>2, Comes, AllowedKept, PTL DEF Spec

=============================================================================

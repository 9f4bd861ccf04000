-------------------------- MODULE StrategyProcess --------------------------
(***************************************************************************)
(* The life of one strategy trader in live mode: the strategy thread turns *)
(* the signals of a market into jobs, the workers of the pool run          *)
(* alpha_async_update_strategy on them, and the states initialized,        *)
(* checked, bootstrapping and processing of the strategy trader say what a *)
(* job does.  Several workers may run jobs of the same strategy trader.    *)
(* The user's commands and the reconnections set the states back.          *)
(*                                                                         *)
(* The strategy trader has one analyser.  What is processed is left out:   *)
(* only who does what, and when.                                           *)
(***************************************************************************)
EXTENDS Naturals, FiniteSets

CONSTANTS Workers,      \* the threads of the pool
          MaxJobs,      \* bound: jobs waiting in the pool
          MaxRestarts,  \* bound: restart commands
          MaxRechecks,  \* bound: recheck commands and reconnections
          MaxFailures   \* bound: initializations that raise

ASSUME BoundsAssumption ==
    /\ MaxJobs \in Nat
    /\ MaxRestarts \in Nat
    /\ MaxRechecks \in Nat
    /\ MaxFailures \in Nat

VARIABLES
    initialized,    \* StrategyTraderBase._initialized
    checked,        \* StrategyTraderBase._checked
    bootstrapping,  \* StrategyTraderBase._bootstrapping
    processing,     \* StrategyTraderBase._processing
    waitingData,    \* StrategyBaseAnalyser._waiting_initial_data
    bulks,          \* external: queries in Database._pending_ohlc_select
    awake,          \* a signal that updates the trader is in Strategy._signals
    jobs,           \* the jobs in WorkerPool._queue
    pc,             \* where each worker is
    restarts, rechecks, failures

states == <<initialized, checked, bootstrapping>>
counters == <<restarts, rechecks, failures>>
vars == <<initialized, checked, bootstrapping, processing, waitingData, bulks,
          awake, jobs, pc, restarts, rechecks, failures>>

State == {"waiting", "progressing", "normal"}

(* The statements a worker stops at: the tests and writes on shared state  *)
(* that no lock makes one, and the long operations.                        *)
Place == {"idle",
          "initiate", "initiating", "queried", "check", "checking",
          "test_initialized", "test_checked", "test_ready", "test_processing",
          "claim", "branch", "bootstrap", "bootstrapping", "process", "release"}

Go(w, from, to) == pc[w] = from /\ pc' = [pc EXCEPT ![w] = to]

Init ==
    /\ initialized = "waiting"
    /\ checked = "waiting"
    /\ bootstrapping = "waiting"
    /\ processing = FALSE
    /\ waitingData = FALSE
    /\ bulks = 0
    /\ awake = FALSE
    /\ jobs = 0
    /\ pc = [w \in Workers |-> "idle"]
    /\ restarts = 0
    /\ rechecks = 0
    /\ failures = 0

-----------------------------------------------------------------------------
(* The market, the user and the strategy thread. *)

(* A quote, a trade or a bar of the market is signalled. *)
Tick ==
    /\ ~awake
    /\ awake' = TRUE
    /\ UNCHANGED <<states, processing, waitingData, bulks, jobs, pc, counters>>

(* The restart command; the signal follows it at once. *)
Restart ==
    /\ restarts < MaxRestarts
    /\ restarts' = restarts + 1
    /\ initialized' = "waiting"
    /\ checked' = "waiting"
    /\ bootstrapping' = "waiting"
    /\ awake' = TRUE
    /\ UNCHANGED <<processing, waitingData, bulks, jobs, pc, rechecks, failures>>

\* Mutant: the strategy trader is not woken up
SilentRecheck ==
    /\ rechecks < MaxRechecks
    /\ rechecks' = rechecks + 1
    /\ checked' = "waiting"
    /\ UNCHANGED <<initialized, bootstrapping, processing, waitingData, bulks,
                   awake, jobs, pc, restarts, failures>>

(* The recheck command, or the connection of a watcher. *)
Recheck ==
    /\ rechecks < MaxRechecks
    /\ rechecks' = rechecks + 1
    /\ checked' = "waiting"
    /\ awake' = TRUE
    /\ UNCHANGED <<initialized, bootstrapping, processing, waitingData, bulks,
                   jobs, pc, restarts, failures>>

\* Mutant: the answer does not update the trader
SilentDataReceived ==
    /\ bulks > 0
    /\ bulks' = bulks - 1
    /\ waitingData' = FALSE
    /\ UNCHANGED <<states, processing, awake, jobs, pc, counters>>

(* The history asked for is signalled: the analyser stops waiting for it.  *)
DataReceived ==
    /\ bulks > 0
    /\ bulks' = bulks - 1
    /\ waitingData' = FALSE
    /\ awake' = TRUE
    /\ UNCHANGED <<states, processing, jobs, pc, counters>>

(* A later query of the same round of the database failed: the round is    *)
(* tried again, and the history signalled again.                           *)
DataRepeated ==
    /\ bulks > 0
    /\ waitingData' = FALSE
    /\ awake' = TRUE
    /\ UNCHANGED <<states, processing, bulks, jobs, pc, counters>>

(* The strategy thread drains its signals and posts one job for the        *)
(* strategy trader, whatever the number of signals.                        *)
Update ==
    /\ awake
    /\ jobs < MaxJobs
    /\ awake' = FALSE
    /\ jobs' = jobs + 1
    /\ UNCHANGED <<states, processing, waitingData, bulks, pc, counters>>

-----------------------------------------------------------------------------
(* The workers. *)

\* Mutant: the queue is not tested again once the worker is woken up
HastyNextJob(w) ==
    /\ jobs' = jobs - 1
    /\ Go(w, "idle", "initiate")
    /\ UNCHANGED <<states, processing, waitingData, bulks, awake, counters>>

NextJob(w) ==
    /\ jobs > 0
    /\ jobs' = jobs - 1
    /\ Go(w, "idle", "initiate")
    /\ UNCHANGED <<states, processing, waitingData, bulks, awake, counters>>

\* Mutant: an initialization under way does not prevent another
EagerInitiate(w) ==
    /\ IF initialized # "normal"
       THEN initialized' = "progressing" /\ Go(w, "initiate", "initiating")
       ELSE UNCHANGED initialized /\ Go(w, "initiate", "check")
    /\ UNCHANGED <<checked, bootstrapping, processing, waitingData, bulks, awake,
                   jobs, counters>>

(* initiate_strategy_trader: the state is tested and set under the mutex.  *)
Initiate(w) ==
    /\ IF initialized = "waiting"
       THEN initialized' = "progressing" /\ Go(w, "initiate", "initiating")
       ELSE UNCHANGED initialized /\ Go(w, "initiate", "check")
    /\ UNCHANGED <<checked, bootstrapping, processing, waitingData, bulks, awake,
                   jobs, counters>>

QueryHistoricalData(w) ==
    /\ Go(w, "initiating", "queried")
    /\ waitingData' = TRUE
    /\ bulks' = bulks + 1
    /\ UNCHANGED <<states, processing, awake, jobs, counters>>

(* The subscription or the query raises; the exception is logged.  The     *)
(* analyser may already wait for the data.                                 *)
InitiateFails(w) ==
    /\ failures < MaxFailures
    /\ failures' = failures + 1
    /\ Go(w, "initiating", "check")
    /\ waitingData' \in {waitingData, TRUE}
    /\ UNCHANGED <<states, processing, bulks, awake, jobs, restarts, rechecks>>

(* The state is set whatever it became meanwhile, and the trader woken up. *)
InitiateDone(w) ==
    /\ Go(w, "queried", "check")
    /\ initialized' = "normal"
    /\ awake' = TRUE
    /\ UNCHANGED <<checked, bootstrapping, processing, waitingData, bulks, jobs,
                   counters>>

(* check_trades: the state is tested and set under the mutex.              *)
Check(w) ==
    /\ IF checked = "waiting"
       THEN checked' = "progressing" /\ Go(w, "check", "checking")
       ELSE UNCHANGED checked /\ Go(w, "check", "test_initialized")
    /\ UNCHANGED <<initialized, bootstrapping, processing, waitingData, bulks,
                   awake, jobs, counters>>

CheckDone(w) ==
    /\ Go(w, "checking", "test_initialized")
    /\ checked' = "normal"
    /\ UNCHANGED <<initialized, bootstrapping, processing, waitingData, bulks,
                   awake, jobs, counters>>

(* One of the four tests, read one after the other without a lock: the job *)
(* goes on or is over.                                                     *)
Test(w, from, holds, to) ==
    /\ IF holds THEN Go(w, from, to) ELSE Go(w, from, "idle")
    /\ UNCHANGED <<states, processing, waitingData, bulks, awake, jobs, counters>>

\* Mutant: ready() is not tested
HastyTestStates(w) ==
    \/ Test(w, "test_initialized", initialized = "normal", "test_checked")
    \/ Test(w, "test_checked", checked = "normal", "test_processing")

TestStates(w) ==
    \/ Test(w, "test_initialized", initialized = "normal", "test_checked")
    \/ Test(w, "test_checked", checked = "normal", "test_ready")
    \/ Test(w, "test_ready", ~waitingData, "test_processing")

(* The job is over when the previous one is not completed. *)
TestProcessing(w) == Test(w, "test_processing", ~processing, "claim")

Claim(w) ==
    /\ Go(w, "claim", "branch")
    /\ processing' = TRUE
    /\ UNCHANGED <<states, waitingData, bulks, awake, jobs, counters>>

Branch(w) ==
    /\ Go(w, "branch", IF bootstrapping = "waiting" THEN "bootstrap" ELSE "process")
    /\ UNCHANGED <<states, processing, waitingData, bulks, awake, jobs, counters>>

(* alpha_bootstrap: the state is tested and set under the mutex.           *)
Bootstrap(w) ==
    /\ IF bootstrapping = "waiting"
       THEN bootstrapping' = "progressing" /\ Go(w, "bootstrap", "bootstrapping")
       ELSE UNCHANGED bootstrapping /\ Go(w, "bootstrap", "release")
    /\ UNCHANGED <<initialized, checked, processing, waitingData, bulks, awake,
                   jobs, counters>>

(* Complete or interrupted by an exception, the state is set whatever it   *)
(* became meanwhile.                                                       *)
BootstrapDone(w) ==
    /\ Go(w, "bootstrapping", "release")
    /\ bootstrapping' = "normal"
    /\ UNCHANGED <<initialized, checked, processing, waitingData, bulks, awake,
                   jobs, counters>>

(* StrategyTraderBase.process, complete or interrupted by an exception.    *)
Process(w) ==
    /\ Go(w, "process", "release")
    /\ UNCHANGED <<states, processing, waitingData, bulks, awake, jobs, counters>>

(* The finally clause. *)
Release(w) ==
    /\ Go(w, "release", "idle")
    /\ processing' = FALSE
    /\ UNCHANGED <<states, waitingData, bulks, awake, jobs, counters>>

Worker(w) ==
    \/ NextJob(w)
    \/ Initiate(w) \/ QueryHistoricalData(w) \/ InitiateFails(w) \/ InitiateDone(w)
    \/ Check(w) \/ CheckDone(w)
    \/ TestStates(w) \/ TestProcessing(w)
    \/ Claim(w) \/ Branch(w) \/ Bootstrap(w) \/ BootstrapDone(w) \/ Process(w)
    \/ Release(w)

Next ==
    \/ Tick
    \/ Restart
    \/ Recheck
    \/ DataReceived
    \/ DataRepeated
    \/ Update
    \/ \E w \in Workers : Worker(w)

Spec == Init /\ [][Next]_vars

(* The strategy thread drains its queue, the database answers, a worker    *)
(* takes a job and goes on with the one it runs.  Nothing is asked of the  *)
(* market, which may sleep, nor of the user.                               *)
Fairness ==
    /\ WF_vars(DataReceived)
    /\ WF_vars(Update)
    /\ \A w \in Workers : WF_vars(Worker(w))

FairSpec == Spec /\ Fairness

-----------------------------------------------------------------------------
(* Properties *)

(* Every variable has its type. *)
TypeOK ==
    /\ initialized \in State
    /\ checked \in State
    /\ bootstrapping \in State
    /\ processing \in BOOLEAN
    /\ waitingData \in BOOLEAN
    /\ awake \in BOOLEAN
    /\ bulks \in Nat
    /\ jobs \in 0..MaxJobs
    /\ pc \in [Workers -> Place]
    /\ restarts \in 0..MaxRestarts
    /\ rechecks \in 0..MaxRechecks
    /\ failures \in 0..MaxFailures

At(places) == {w \in Workers : pc[w] \in places}

(* The statements of the try block and its finally clause. *)
Claimed == {"branch", "bootstrap", "bootstrapping", "process", "release"}

(* While the flag is set a worker is on its way to reset it: otherwise     *)
(* every later job would be dropped and the strategy trader would stop     *)
(* (alphaprocess.py:250, 269).  The flag is set and reset without a lock,  *)
(* by several workers at once.                                             *)
FlagReleased == processing => At(Claimed) # {}

(* A worker initializes, checks the trades or bootstraps alone: each       *)
(* further worker in it was allowed by one command or reconnection that    *)
(* set the state back while it ran.                                        *)
OneAtATime ==
    /\ Cardinality(At({"initiating", "queried"})) <= 1 + restarts
    /\ Cardinality(At({"checking"})) <= 1 + restarts + rechecks
    /\ Cardinality(At({"bootstrapping"})) <= 1 + restarts

(* Until a restart, a worker bootstraps or processes only once the history *)
(* asked for was received, and processes live data only once the bootstrap *)
(* began (alphaprocess.py:244, 257), although every test is made before    *)
(* and without a lock.                                                     *)
WarmUp ==
    restarts = 0 =>
        \A w \in At({"bootstrapping", "process"}) :
            /\ initialized = "normal"
            /\ ~waitingData
            /\ bootstrapping # "waiting"

(* Nothing is under way: no signal, no job, no query, no worker at work.   *)
Quiet ==
    /\ ~awake
    /\ jobs = 0
    /\ bulks = 0
    /\ At(Place \ {"idle"}) = {}

(* No signal reached the strategy trader yet. *)
Untouched == {initialized, checked, bootstrapping} = {"waiting"} /\ restarts + rechecks = 0

(* When nothing is under way in a sleeping market, nothing was forgotten:  *)
(* the trades are checked, however often that was asked for; the history   *)
(* is there unless an initialization raised; and the bootstrap is done     *)
(* unless a restart was asked for too.  Jobs are dropped at each of the    *)
(* four tests: what makes it right is that who changes a state afterwards  *)
(* wakes the strategy trader up, or tests again itself.                    *)
NothingForgotten ==
    Quiet /\ ~Untouched =>
        /\ checked = "normal"
        /\ failures = 0 => initialized = "normal" /\ ~waitingData
        /\ failures = 0 /\ restarts = 0 => bootstrapping = "normal"

(* Once a job began to initialize the strategy trader, it is bootstrapped  *)
(* without any further signal of the market, unless the initialization     *)
(* raises or a restart is asked for.                                       *)
Bootstrapped ==
    initialized = "progressing" ~>
        bootstrapping = "normal" \/ failures > 0 \/ restarts > 0

=============================================================================

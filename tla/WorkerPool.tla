----------------------------- MODULE WorkerPool -----------------------------
(***************************************************************************)
(* The worker pool (common/workerpool.py) between the threads that use it: *)
(* the thread that drives it, which is the TimeStepThread of a backtest or *)
(* the strategy's own thread in live, the main thread that terminates the  *)
(* strategy service, and the timer thread of the watchdog                  *)
(* (common/watchdog.py).                                                   *)
(*                                                                         *)
(* A critical section of the pool's condition is one action.  The fields   *)
(* _running and _ping of a worker are read and written outside of it, so   *)
(* each such access of the worker's loop is an action of its own.          *)
(***************************************************************************)
EXTENDS Naturals, Sequences, FiniteSets

CONSTANTS Workers,   \* the threads of the pool
          Traders,   \* the strategy traders, one job each per step
          Ticking,   \* bound: the traders that receive data in live
          Watched,   \* bound: the workers whose pings are followed
          MaxSteps,  \* bound: time steps of the backtest
          MaxQueue,  \* bound: jobs waiting in the queue, in live
          Manual,    \* the ping of the user's command, that has no pid
          None       \* no job, no ping

ASSUME PoolAssumption ==
    /\ IsFiniteSet(Workers) /\ IsFiniteSet(Traders) /\ Traders # {}
    /\ Ticking \subseteq Traders /\ Watched \subseteq Workers
    /\ MaxSteps \in Nat /\ MaxQueue \in Nat
    /\ None \notin Nat /\ Manual \notin Nat /\ Manual # None
    /\ None \notin [trader : Traders, step : Nat]

VARIABLES
    live,     \* not a backtest: chosen at start, never changed
    queue,    \* WorkerPool._queue
    at,       \* [Workers -> where the thread is in Worker.run]
    job,      \* [Workers -> the job it took, or None]
    running,  \* [Workers -> BOOLEAN], Worker._running
    ping,     \* [Workers -> Worker._ping: its pid, Manual or None]
    long,     \* [Workers -> BOOLEAN], Worker._long_process
    count,    \* CountDown._count of the current step
    driver,   \* where the driving thread is
    step,     \* the current step of the backtest
    left,     \* the traders whose job backtest_update has yet to add
    clock,    \* [Traders -> the last step it was updated for]
    play,     \* StrategyService._backtesting_play
    abort,    \* TimeStepThread.abort, or the strategy's running flag cleared
    stopper,  \* where the main thread is in StrategyService.terminate
    watchdog, \* where the timer thread is
    pending   \* [Workers -> ages of its pids in WatchdogService._pending]

poolVars == <<queue, at, job, long>>
driverVars == <<driver, step, left, play>>
dogVars == <<watchdog, pending>>
vars == <<live, poolVars, running, ping, count, driverVars, clock, abort,
          stopper, dogVars>>

Jobs == [trader : Traders, step : 0..MaxSteps]
\* A pid is named by its age in watchdog rounds; 2 stands for every older one.
Ages == 0..2

TypeOK ==
    /\ live \in BOOLEAN
    /\ queue \in Seq(Jobs)
    /\ at \in [Workers -> {"top", "fetch", "asleep", "resetFirst", "run",
                           "hung", "done", "after", "reset", "out"}]
    /\ job \in [Workers -> Jobs \cup {None}]
    /\ running \in [Workers -> BOOLEAN]
    /\ ping \in [Workers -> Ages \cup {Manual, None}]
    /\ long \in [Workers -> BOOLEAN]
    /\ count \in 0..Cardinality(Traders)
    /\ driver \in {"loop", "post", "wait", "asleep", "stepped", "out"}
    /\ step \in 0..MaxSteps
    /\ left \in SUBSET Traders
    /\ clock \in [Traders -> 0..MaxSteps]
    /\ play \in BOOLEAN /\ abort \in BOOLEAN
    /\ stopper \in {"up", "join", "save", "stop", "notify", "joinWorkers",
                    "down"}
    /\ watchdog \in {"off", "armed", "check"}
    /\ pending \in [Workers -> SUBSET Ages]

Init ==
    /\ live \in BOOLEAN
    /\ queue = <<>>
    /\ at = [w \in Workers |-> "top"]
    /\ job = [w \in Workers |-> None]
    /\ running = [w \in Workers |-> TRUE]
    /\ ping = [w \in Workers |-> None]
    /\ long = [w \in Workers |-> FALSE]
    /\ count = 0
    /\ driver = "loop" /\ step = 0 /\ left = {}
    /\ clock = [t \in Traders |-> 0]
    /\ play = TRUE /\ abort = FALSE
    /\ stopper = "up"
    /\ watchdog = IF live THEN "armed" ELSE "off"
    /\ pending = [w \in Workers |-> {}]

(***************************************************************************)
(* The condition of the pool.                                              *)
(***************************************************************************)

\* notifyAll: every waiter will look at the queue again.
WakeAll(a) == [w \in Workers |-> IF a[w] = "asleep" THEN "fetch" ELSE a[w]]

\* Mutant: add_job appends and wakes nobody.
MutAddJob(j) ==
    /\ queue' = Append(queue, j)
    /\ UNCHANGED <<at, job, long>>

\* add_job: one waiter is woken, if there is one.
AddJob(j) ==
    /\ queue' = Append(queue, j)
    /\ IF \E w \in Workers : at[w] = "asleep"
       THEN \E w \in Workers : /\ at[w] = "asleep"
                               /\ at' = [at EXCEPT ![w] = "fetch"]
       ELSE UNCHANGED at
    /\ UNCHANGED <<job, long>>

\* service_pong: the pid that _ping holds now is no longer pending.
Pong(w) == pending' = [pending EXCEPT ![w] = @ \ {ping[w]}]

(***************************************************************************)
(* Worker.run and Worker.__process_once.                                   *)
(***************************************************************************)

\* The test of the loop, outside of the condition.
LoopTest(w) ==
    /\ at[w] = "top"
    /\ at' = [at EXCEPT ![w] = IF running[w] THEN "fetch" ELSE "out"]
    /\ UNCHANGED <<live, queue, job, long, running, ping, count, driverVars,
                   clock, abort, stopper, dogVars>>

\* next_job: take the oldest job, or wait unless stopped or pinged.  Whether the
\* trader of the job is still initialized, preprocessed or bootstrapped decides
\* if the worker is watched during the job; it answers a ping first.
NextJob(w, starting) ==
    /\ at[w] = "fetch"
    /\ IF queue # <<>>
       THEN /\ job' = [job EXCEPT ![w] = Head(queue)]
            /\ queue' = Tail(queue)
            /\ long' = [long EXCEPT ![w] = starting]
            /\ IF starting /\ ping[w] # None
               THEN Pong(w) /\ at' = [at EXCEPT ![w] = "resetFirst"]
               ELSE at' = [at EXCEPT ![w] = "run"] /\ UNCHANGED pending
       ELSE /\ ~starting
            /\ at' = [at EXCEPT ![w] = IF running[w] /\ ping[w] = None
                                       THEN "asleep" ELSE "after"]
            /\ UNCHANGED <<queue, job, long, pending>>
    /\ UNCHANGED <<live, running, ping, count, driverVars, clock, abort,
                   stopper, watchdog>>

\* The job itself; its exceptions are caught, so that it always ends here.
Run(w) ==
    /\ at[w] = "run"
    /\ at' = [at EXCEPT ![w] = "done"]
    /\ clock' = IF live THEN clock
                ELSE [clock EXCEPT ![job[w].trader] = job[w].step]
    /\ UNCHANGED <<live, queue, job, long, running, ping, count, driverVars,
                   abort, stopper, dogVars>>

\* The job blocks for ever, on a lock or on a connection.
Hang(w) ==
    /\ at[w] = "run"
    /\ at' = [at EXCEPT ![w] = "hung"]
    /\ UNCHANGED <<live, queue, job, long, running, ping, count, driverVars,
                   clock, abort, stopper, dogVars>>

\* Mutant: done() is called for a job without count down too.
MutDoneAlways(w) ==
    /\ at[w] = "done"
    /\ at' = [at EXCEPT ![w] = "after"]
    /\ job' = [job EXCEPT ![w] = None]
    /\ count' = count - 1
    /\ UNCHANGED <<live, queue, long, running, ping, driverVars, clock, abort,
                   stopper, dogVars>>

\* CountDown.done, for a job that has one, wakes the thread in wait at zero.
Done(w) ==
    /\ at[w] = "done"
    /\ at' = [at EXCEPT ![w] = "after"]
    /\ job' = [job EXCEPT ![w] = None]
    /\ IF live THEN UNCHANGED <<count, driver>>
       ELSE /\ count' = count - 1
            /\ driver' = IF count - 1 <= 0 /\ driver = "asleep"
                         THEN "wait" ELSE driver
    /\ UNCHANGED <<live, queue, long, running, ping, step, left, play, clock,
                   abort, stopper, dogVars>>

\* The end of the round: a ping is answered, and one statement later _ping is
\* reset, whatever it holds by then.
PingTest(w) ==
    /\ at[w] = "after"
    /\ IF ping[w] = None
       THEN at' = [at EXCEPT ![w] = "top"] /\ UNCHANGED pending
       ELSE at' = [at EXCEPT ![w] = "reset"] /\ Pong(w)
    /\ UNCHANGED <<live, queue, job, long, running, ping, count, driverVars,
                   clock, abort, stopper, watchdog>>

PingReset(w) ==
    /\ at[w] \in {"reset", "resetFirst"}
    /\ at' = [at EXCEPT ![w] = IF @ = "reset" THEN "top" ELSE "run"]
    /\ ping' = [ping EXCEPT ![w] = None]
    /\ UNCHANGED <<live, queue, job, long, running, count, driverVars, clock,
                   abort, stopper, dogVars>>

(***************************************************************************)
(* The driving thread: TimeStepThread.run with Strategy.backtest_prepare   *)
(* and backtest_update, or Strategy.update in live.                        *)
(***************************************************************************)

\* A time step: a count down of as many as there are traders.  A paused
\* backtest goes round its loop without looking at abort.
StartStep ==
    /\ ~live
    /\ driver = "loop" /\ play /\ step < MaxSteps
    /\ driver' = "post"
    /\ step' = step + 1
    /\ left' = Traders
    /\ count' = Cardinality(Traders)
    /\ UNCHANGED <<live, poolVars, running, ping, play, clock, abort, stopper,
                   dogVars>>

PostStep(t) ==
    /\ driver = "post" /\ t \in left
    /\ AddJob([trader |-> t, step |-> step])
    /\ left' = left \ {t}
    /\ driver' = IF left' = {} THEN "wait" ELSE "post"
    /\ UNCHANGED <<live, running, ping, count, step, play, clock, abort,
                   stopper, dogVars>>

\* Mutant: wait() returns with one job left.
MutWait ==
    /\ driver = "wait"
    /\ driver' = IF count > 1 THEN "asleep" ELSE "stepped"
    /\ UNCHANGED <<live, poolVars, running, ping, count, step, left, play,
                   clock, abort, stopper, dogVars>>

\* CountDown.wait.
Wait ==
    /\ driver = "wait"
    /\ driver' = IF count > 0 THEN "asleep" ELSE "stepped"
    /\ UNCHANGED <<live, poolVars, running, ping, count, step, left, play,
                   clock, abort, stopper, dogVars>>

\* The end of a step: abort is looked at, and the end of the period.
EndStep ==
    /\ driver = "stepped"
    /\ driver' = IF abort \/ step = MaxSteps THEN "out" ELSE "loop"
    /\ UNCHANGED <<live, poolVars, running, ping, count, step, left, play,
                   clock, abort, stopper, dogVars>>

\* In live, the strategy's thread adds one update of a trader and goes on.
PostLive(t) ==
    /\ live
    /\ driver = "loop" /\ ~abort /\ Len(queue) < MaxQueue
    /\ AddJob([trader |-> t, step |-> 0])
    /\ UNCHANGED <<live, running, ping, count, driverVars, clock, abort,
                   stopper, dogVars>>

\* The strategy's thread leaves its loop once stopped.
LeaveLive ==
    /\ live
    /\ driver = "loop" /\ abort
    /\ driver' = "out"
    /\ UNCHANGED <<live, poolVars, running, ping, count, step, left, play,
                   clock, abort, stopper, dogVars>>

\* The user pauses or resumes a backtest (main thread).
PlayPause ==
    /\ ~live /\ stopper = "up"
    /\ play' = ~play
    /\ UNCHANGED <<live, poolVars, running, ping, count, driver, step, left,
                   clock, abort, stopper, dogVars>>

(***************************************************************************)
(* StrategyService.terminate and WorkerPool.stop, by the main thread.      *)
(***************************************************************************)

\* Mutant: a paused backtest is aborted without being resumed.
MutTerminate ==
    /\ stopper = "up"
    /\ stopper' = "join"
    /\ abort' = TRUE
    /\ UNCHANGED <<live, poolVars, running, ping, count, driverVars, clock,
                   dogVars>>

\* Abort the backtest, resuming it first, or stop the strategy.
Terminate ==
    /\ stopper = "up"
    /\ stopper' = "join"
    /\ abort' = TRUE
    /\ play' = TRUE
    /\ UNCHANGED <<live, poolVars, running, ping, count, driver, step, left,
                   clock, dogVars>>

JoinDriver ==
    /\ stopper = "join" /\ driver = "out"
    /\ stopper' = IF live THEN "save" ELSE "stop"
    /\ UNCHANGED <<live, poolVars, running, ping, count, driverVars, clock,
                   abort, dogVars>>

\* strategy.terminate() and strategy.save(), in live only.
Save ==
    /\ stopper = "save"
    /\ stopper' = "stop"
    /\ UNCHANGED <<live, poolVars, running, ping, count, driverVars, clock,
                   abort, dogVars>>

\* The workers are told to stop one after the other, without the condition.
StopWorker(w) ==
    /\ stopper = "stop" /\ running[w]
    /\ running' = [running EXCEPT ![w] = FALSE]
    /\ stopper' = IF \E v \in Workers \ {w} : running[v]
                  THEN "stop" ELSE "notify"
    /\ UNCHANGED <<live, poolVars, ping, count, driverVars, clock, abort,
                   dogVars>>

NotifyWorkers ==
    /\ stopper = "notify"
    /\ stopper' = "joinWorkers"
    /\ at' = WakeAll(at)
    /\ UNCHANGED <<live, queue, job, long, running, ping, count, driverVars,
                   clock, abort, dogVars>>

JoinWorkers ==
    /\ stopper = "joinWorkers"
    /\ \A w \in Workers : at[w] = "out"
    /\ stopper' = "down"
    /\ UNCHANGED <<live, poolVars, running, ping, count, driverVars, clock,
                   abort, dogVars>>

(***************************************************************************)
(* The watchdog: WatchdogService.run_watchdog every TIMER_DELAY, with      *)
(* WorkerPool.watchdog.  It is not active during a backtest.               *)
(***************************************************************************)

Older(pid) == IF pid \in 0..1 THEN pid + 1 ELSE pid

\* Mutant: the new pid of a worker takes the place of the pending one.
MutPingWorkers ==
    LET watched == {w \in Watched : ~long[w]}
    IN  /\ watchdog = "armed"
        /\ watchdog' = "check"
        /\ ping' = [w \in Workers |-> IF w \in watched THEN 0
                                      ELSE Older(ping[w])]
        /\ at' = WakeAll(at)
        /\ pending' = [w \in Workers |->
                         IF w \in watched THEN {0}
                         ELSE {Older(a) : a \in pending[w]}]
        /\ UNCHANGED <<live, queue, job, long, running, count, driverVars,
                       clock, abort, stopper>>

\* A round: each worker that is not in a long job gets a new pid, in place of
\* the one it may not have answered.  Everything pending is one round older.
PingWorkers ==
    LET watched == {w \in Watched : ~long[w]}
    IN  /\ watchdog = "armed"
        /\ watchdog' = "check"
        /\ IF stopper = "down"
           THEN UNCHANGED <<ping, at>>
           ELSE /\ ping' = [w \in Workers |->
                              IF w \in watched THEN 0
                              ELSE Older(ping[w])]
                /\ at' = WakeAll(at)
        /\ pending' = [w \in Workers |->
                         {Older(a) : a \in pending[w]} \cup
                         (IF stopper # "down" /\ w \in watched
                          THEN {0} ELSE {})]
        /\ UNCHANGED <<live, queue, job, long, running, count, driverVars,
                       clock, abort, stopper>>

\* PING_TIMEOUT is twice TIMER_DELAY: a pid that was pending for two rounds is
\* reported and dropped.  The timer is started again.
CheckPending ==
    /\ watchdog = "check"
    /\ watchdog' = "armed"
    /\ pending' = [w \in Workers |-> {a \in pending[w] : a < 2}]
    /\ UNCHANGED <<live, poolVars, running, ping, count, driverVars, clock,
                   abort, stopper>>

\* The ping command of the user (WorkerPool.ping), by the main thread: it takes
\* the place of a pid of the watchdog as well.
PingCommand ==
    /\ stopper = "up"
    /\ ping' = [w \in Workers |-> IF w \in Watched THEN Manual ELSE None]
    /\ at' = WakeAll(at)
    /\ UNCHANGED <<live, queue, job, long, running, count, driverVars, clock,
                   abort, stopper, dogVars>>

\* The main thread ends the watchdog after every service: it cancels a timer
\* that waits.
CancelWatchdog ==
    /\ stopper = "down" /\ watchdog = "armed"
    /\ watchdog' = "off"
    /\ UNCHANGED <<live, poolVars, running, ping, count, driverVars, clock,
                   abort, stopper, pending>>

(***************************************************************************)
(* The specification.                                                      *)
(***************************************************************************)

WorkerStep(w) ==
    \/ LoopTest(w) \/ \E s \in BOOLEAN : NextJob(w, s)
    \/ Run(w) \/ Done(w) \/ PingTest(w) \/ PingReset(w)

DriverStep ==
    \/ StartStep \/ \E t \in Traders : PostStep(t)
    \/ Wait \/ EndStep \/ LeaveLive

StopperStep ==
    \/ JoinDriver \/ Save \/ \E w \in Workers : StopWorker(w)
    \/ NotifyWorkers \/ JoinWorkers

WatchdogStep == PingWorkers \/ CheckPending

Next ==
    \/ \E w \in Workers : WorkerStep(w) \/ Hang(w)
    \/ DriverStep \/ (\E t \in Ticking : PostLive(t)) \/ PlayPause
    \/ Terminate \/ StopperStep
    \/ PingCommand \/ WatchdogStep \/ CancelWatchdog

\* Every thread goes on; nobody is obliged to post in live, to pause or to quit,
\* and a job may hang.
Fairness ==
    /\ \A w \in Workers : WF_vars(WorkerStep(w))
    /\ WF_vars(DriverStep)
    /\ WF_vars(StopperStep)
    /\ WF_vars(WatchdogStep)

Spec == Init /\ [][Next]_vars /\ Fairness

(***************************************************************************)
(* Properties.                                                             *)
(***************************************************************************)

Hung(w) == at[w] = "hung"

BT == INSTANCE BacktestSteps
        WITH now <- step,
             owed <- {t \in Traders : clock[t] # step}

\* The pool implements the step clock of a backtest: no step begins before
\* every trader was updated for the previous one, and no job is run for a step
\* that has passed, or twice.
StepsInOrder == BT!Spec

\* backtest_update always returns from CountDown.wait, unless a job hangs, and a
\* queued update is taken by some worker as long as one of them is not hung,
\* unless the pool is stopped first: the wake-ups of done and of add_job are not
\* lost, and nobody stops the pool under a waiting backtest.
JobsServed ==
    /\ (driver \in {"wait", "asleep"})
           ~> (driver \in {"stepped", "out"} \/ \E w \in Workers : Hung(w))
    /\ \A t \in Traders :
           (\E i \in DOMAIN queue : queue[i].trader = t)
               ~> \/ \E w \in Workers : job[w] # None /\ job[w].trader = t
                  \/ \A w \in Workers : Hung(w) \/ ~running[w]

\* terminate() ends, paused backtest or not, when no job hangs: the driving
\* thread and every worker can be joined.
TerminateEnds ==
    (stopper = "join") ~> (stopper = "down" \/ \E w \in Workers : Hung(w))

\* The round of the watchdog is about to report a pid of this worker.
Reported(w) == watchdog = "check" /\ \E a \in pending[w] : a >= 2

\* A worker that hangs in a job it is watched for is reported again and again,
\* whatever pings were overwritten or lost before, until the application ends.
HungIsReported ==
    \A w \in Watched :
        [](live /\ Hung(w) /\ ~long[w] => <>Reported(w))
=============================================================================

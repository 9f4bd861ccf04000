--------------------------- MODULE WorkerPoolProofs ---------------------------
(***************************************************************************)
(* Theorems about WorkerPool, for any number of workers, of strategy       *)
(* traders and of steps: its variables keep their types, and the pool      *)
(* implements BacktestSteps, the clock of a backtest.                      *)
(***************************************************************************)
EXTENDS WorkerPool, FiniteSetTheorems, TLAPS

-----------------------------------------------------------------------------
(***************************************************************************)
(* What a step has left to do.  A strategy trader is outstanding while the *)
(* driving thread has yet to add its job, while the job is in the queue,   *)
(* and while a worker has it, until it called done().                      *)
(***************************************************************************)

Queued(t) == \E i \in DOMAIN queue : queue[i].trader = t

Taken(t) == \E w \in Workers : job[w] # None /\ job[w].trader = t

Outstanding == {t \in Traders : t \in left \/ Queued(t) \/ Taken(t)}

(* A job waits in one place only: the queue, or a worker.                  *)
JobsApart ==
    /\ \A i \in DOMAIN queue : queue[i].trader \notin left
    /\ \A w \in Workers : job[w] # None => job[w].trader \notin left
    /\ \A i, j \in DOMAIN queue : queue[i].trader = queue[j].trader => i = j
    /\ \A v, w \in Workers :
          job[v] # None /\ job[w] # None /\ job[v].trader = job[w].trader => v = w
    /\ \A i \in DOMAIN queue, w \in Workers :
          job[w] # None => queue[i].trader # job[w].trader

(* Every job is for the current step, and not run yet but for the worker   *)
(* about to call done().                                                   *)
JobsCurrent ==
    /\ \A t \in left : clock[t] # step
    /\ \A i \in DOMAIN queue : queue[i].step = step /\ clock[queue[i].trader] # step
    /\ \A w \in Workers : job[w] # None =>
          /\ job[w].step = step
          /\ at[w] # "done" <=> clock[job[w].trader] # step

(* The count down is the number of outstanding traders, every trader that  *)
(* is late is one of them, and none is left between two steps.             *)
CountExact ==
    /\ count = Cardinality(Outstanding)
    /\ \A t \in Traders : clock[t] # step => t \in Outstanding
    /\ driver \in {"loop", "stepped"} => Outstanding = {}

PoolInv ==
    /\ TypeOK
    /\ \A w \in Workers :
          job[w] # None <=> at[w] \in {"run", "hung", "done", "resetFirst"}
    /\ \A t \in Traders : clock[t] <= step
    /\ ~live => JobsApart /\ JobsCurrent /\ CountExact
    /\ live => step = 0 /\ count = 0

-----------------------------------------------------------------------------
LEMMA PoolTypeOK == Init => TypeOK
<1> SUFFICES ASSUME Init PROVE TypeOK
  OBVIOUS
<1>1. Cardinality(Traders) \in Nat
  BY PoolAssumption, FS_CardinalityType
<1>2. 0 \in 0..MaxSteps /\ 0 \in 0..Cardinality(Traders)
  BY <1>1, PoolAssumption
<1>3. ping \in [Workers -> Ages \cup {Manual, None}] /\ pending \in [Workers -> SUBSET Ages]
  BY DEF Init
<1>4. /\ queue \in Seq(Jobs) /\ job \in [Workers -> Jobs \cup {None}]
      /\ clock \in [Traders -> 0..MaxSteps]
  BY <1>2 DEF Init
<1>5. /\ at \in [Workers -> {"top", "fetch", "asleep", "resetFirst", "run",
                            "hung", "done", "after", "reset", "out"}]
      /\ running \in [Workers -> BOOLEAN] /\ long \in [Workers -> BOOLEAN]
  BY DEF Init
<1> QED
  BY <1>2, <1>3, <1>4, <1>5 DEF Init, TypeOK

LEMMA WorkerTyped ==
  ASSUME TypeOK, NEW w \in Workers, WorkerStep(w) \/ Hang(w),
         \A v \in Workers : job[v] # None <=> at[v] \in {"run", "hung", "done", "resetFirst"},
         ~live => (at[w] = "done" => count > 0)
  PROVE  TypeOK'
<1> USE DEF TypeOK, driverVars, poolVars, dogVars
<1>1. CASE LoopTest(w)
  BY <1>1 DEF LoopTest
<1>2. ASSUME NEW s \in BOOLEAN, NextJob(w, s) PROVE TypeOK'
  <2>1. CASE queue # <<>>
    <3>1. Head(queue) \in Jobs /\ Tail(queue) \in Seq(Jobs)
      BY <2>1
    <3>2. queue' \in Seq(Jobs) /\ job' \in [Workers -> Jobs \cup {None}]
          /\ long' \in [Workers -> BOOLEAN]
      BY <1>2, <2>1, <3>1 DEF NextJob
    <3>3. at' \in [Workers -> {"top", "fetch", "asleep", "resetFirst", "run",
                               "hung", "done", "after", "reset", "out"}]
      BY <1>2, <2>1 DEF NextJob
    <3>4. pending' \in [Workers -> SUBSET Ages]
      <4>1. pending[w] \ {ping[w]} \in SUBSET Ages
        OBVIOUS
      <4>2. pending' = pending \/ pending' = [pending EXCEPT ![w] = pending[w] \ {ping[w]}]
        BY <1>2, <2>1 DEF NextJob, Pong
      <4> QED
        BY <4>1, <4>2
    <3> QED
      BY <1>2, <3>2, <3>3, <3>4 DEF NextJob
  <2>2. CASE queue = <<>>
    BY <1>2, <2>2 DEF NextJob
  <2> QED
    BY <2>1, <2>2
<1>3. CASE Run(w)
  BY <1>3 DEF Run, Jobs
<1>4. CASE Done(w)
  <2>1. count' \in 0..Cardinality(Traders)
    BY <1>4, PoolAssumption, FS_CardinalityType DEF Done
  <2>2. job' \in [Workers -> Jobs \cup {None}]
    BY <1>4 DEF Done
  <2> QED
    BY <1>4, <2>1, <2>2 DEF Done
<1>5. CASE PingTest(w)
  BY <1>5 DEF PingTest, Pong
<1>6. CASE PingReset(w)
  BY <1>6 DEF PingReset
<1>7. CASE Hang(w)
  BY <1>7 DEF Hang
<1> QED
  BY <1>1, <1>2, <1>3, <1>4, <1>5, <1>6, <1>7 DEF WorkerStep

LEMMA DriverTyped ==
  ASSUME TypeOK, DriverStep \/ (\E t \in Ticking : PostLive(t)) \/ PlayPause
  PROVE  TypeOK'
<1> USE DEF TypeOK, driverVars, poolVars, dogVars
<1>1. CASE StartStep
  <2>1. count' \in 0..Cardinality(Traders)
    BY <1>1, PoolAssumption, FS_CardinalityType DEF StartStep
  <2>2. step' \in 0..MaxSteps
    BY <1>1, PoolAssumption DEF StartStep
  <2> QED
    BY <1>1, <2>1, <2>2 DEF StartStep
<1>2. ASSUME NEW j \in Jobs, AddJob(j)
      PROVE  /\ queue' \in Seq(Jobs) /\ UNCHANGED <<job, long>>
             /\ at' \in [Workers -> {"top", "fetch", "asleep", "resetFirst", "run",
                                     "hung", "done", "after", "reset", "out"}]
  BY <1>2 DEF AddJob
<1>3. ASSUME NEW t \in Traders, PostStep(t) PROVE TypeOK'
  <2>1. [trader |-> t, step |-> step] \in Jobs
    BY DEF Jobs
  <2> QED
    BY <1>2, <1>3, <2>1 DEF PostStep
<1>4. ASSUME NEW t \in Ticking, PostLive(t) PROVE TypeOK'
  <2>1. [trader |-> t, step |-> 0] \in Jobs
    BY PoolAssumption DEF Jobs
  <2> QED
    BY <1>2, <1>4, <2>1 DEF PostLive
<1>5. CASE Wait
  BY <1>5 DEF Wait
<1>6. CASE EndStep
  BY <1>6 DEF EndStep
<1>7. CASE LeaveLive
  BY <1>7 DEF LeaveLive
<1>8. CASE PlayPause
  BY <1>8 DEF PlayPause
<1> QED
  BY <1>1, <1>3, <1>4, <1>5, <1>6, <1>7, <1>8 DEF DriverStep

LEMMA MainTyped ==
  ASSUME TypeOK,
         Terminate \/ StopperStep \/ PingCommand \/ WatchdogStep \/ CancelWatchdog
  PROVE  TypeOK'
<1> USE DEF TypeOK, driverVars, poolVars, dogVars, WakeAll
<1>1. CASE Terminate \/ JoinDriver \/ Save \/ JoinWorkers \/ NotifyWorkers
  BY <1>1 DEF Terminate, JoinDriver, Save, JoinWorkers, NotifyWorkers
<1>2. ASSUME NEW w \in Workers, StopWorker(w) PROVE TypeOK'
  BY <1>2 DEF StopWorker
<1>3. CASE PingCommand
  BY <1>3 DEF PingCommand
<1>4. CASE PingWorkers
  <2>1. \A a \in Ages : Older(a) \in Ages
    BY DEF Older, Ages
  <2>2. \A a \in Ages \cup {Manual, None} : Older(a) \in Ages \cup {Manual, None}
    BY PoolAssumption DEF Older, Ages
  <2>3. 0 \in Ages
    BY DEF Ages
  <2>4. ping' \in [Workers -> Ages \cup {Manual, None}]
    <3>1. CASE stopper = "down"
      BY <1>4, <3>1 DEF PingWorkers
    <3>2. CASE stopper # "down"
      <4>1. ping' = [w \in Workers |-> IF w \in Watched /\ ~long[w] THEN 0 ELSE Older(ping[w])]
        BY <1>4, <3>2 DEF PingWorkers
      <4>2. \A w \in Workers :
              (IF w \in Watched /\ ~long[w] THEN 0 ELSE Older(ping[w])) \in Ages \cup {Manual, None}
        BY <2>2, <2>3
      <4> QED
        BY <4>1, <4>2, Zenon
    <3> QED
      BY <3>1, <3>2
  <2>5. pending' \in [Workers -> SUBSET Ages]
    BY <1>4, <2>1, <2>3 DEF PingWorkers
  <2>6. at' \in [Workers -> {"top", "fetch", "asleep", "resetFirst", "run",
                            "hung", "done", "after", "reset", "out"}]
    BY <1>4 DEF PingWorkers
  <2> QED
    BY <1>4, <2>4, <2>5, <2>6 DEF PingWorkers
<1>5. CASE CheckPending \/ CancelWatchdog
  BY <1>5 DEF CheckPending, CancelWatchdog
<1> QED
  BY <1>1, <1>2, <1>3, <1>4, <1>5 DEF StopperStep, WatchdogStep

-----------------------------------------------------------------------------
Places == {"run", "hung", "done", "resetFirst"}

LEMMA TailFacts ==
  ASSUME NEW S, NEW q \in Seq(S), q # <<>>
  PROVE  /\ 1 \in DOMAIN q /\ Head(q) = q[1]
         /\ \A i \in DOMAIN Tail(q) :
              i + 1 \in DOMAIN q /\ Tail(q)[i] = q[i + 1] /\ i + 1 # 1
         /\ \A i \in DOMAIN q : i # 1 => i - 1 \in DOMAIN Tail(q) /\ Tail(q)[i - 1] = q[i]
  OBVIOUS

LEMMA AppendFacts ==
  ASSUME NEW S, NEW q \in Seq(S), NEW x \in S
  PROVE  /\ \A i \in DOMAIN q : i \in DOMAIN Append(q, x) /\ Append(q, x)[i] = q[i]
         /\ Len(q) + 1 \in DOMAIN Append(q, x) /\ Append(q, x)[Len(q) + 1] = x
         /\ Len(q) + 1 \notin DOMAIN q
         /\ \A i \in DOMAIN Append(q, x) : i \in DOMAIN q \/ i = Len(q) + 1
  OBVIOUS

LEMMA OutstandingFinite == IsFiniteSet(Outstanding) /\ Cardinality(Outstanding) \in Nat
<1>1. Outstanding \in SUBSET Traders
  BY DEF Outstanding
<1> QED
  BY <1>1, PoolAssumption, FS_Subset, FS_CardinalityType

LEMMA JobTyped ==
  ASSUME TypeOK
  PROVE  /\ \A i \in DOMAIN queue : queue[i] \in Jobs /\ queue[i].trader \in Traders
         /\ \A w \in Workers : job[w] # None => job[w] \in Jobs /\ job[w].trader \in Traders
<1>1. \A j \in Jobs : j.trader \in Traders
  BY DEF Jobs
<1> QED
  BY <1>1 DEF TypeOK

LEMMA PoolStart == Init => PoolInv
<1> SUFFICES ASSUME Init PROVE PoolInv
  OBVIOUS
<1>1. TypeOK
  BY PoolTypeOK
<1>2. Outstanding = {}
  BY DEF Init, Outstanding, Queued, Taken
<1>3. JobsApart /\ JobsCurrent
  BY DEF Init, JobsApart, JobsCurrent
<1>4. CountExact
  BY <1>2, FS_EmptySet DEF Init, CountExact
<1>5. \A w \in Workers : job[w] # None <=> at[w] \in Places
  BY DEF Init, Places
<1>6. \A t \in Traders : clock[t] <= step
  BY DEF Init
<1> QED
  BY <1>1, <1>3, <1>4, <1>5, <1>6 DEF Init, PoolInv, Places

(* A step that moves threads, and no job, changes nothing of what is left  *)
(* to do.                                                                  *)
LEMMA NoJobMoves ==
  ASSUME PoolInv, TypeOK', UNCHANGED <<live, queue, job, step, left, clock, count>>,
         \A w \in Workers : at'[w] \in Places <=> at[w] \in Places,
         \A w \in Workers : at'[w] = "done" <=> at[w] = "done",
         ~live /\ driver' \in {"loop", "stepped"} =>
             driver \in {"loop", "stepped"} \/ Outstanding = {}
  PROVE  PoolInv'
<1>1. Outstanding' = Outstanding
  BY DEF Outstanding, Queued, Taken
<1>2. ~live => (JobsApart /\ JobsCurrent)'
  BY DEF PoolInv, JobsApart, JobsCurrent
<1>3. ~live => CountExact'
  BY <1>1 DEF PoolInv, CountExact
<1> QED
  BY <1>2, <1>3 DEF PoolInv, Places

LEMMA NextJobKeeps ==
  ASSUME PoolInv, NEW w \in Workers, NEW starting \in BOOLEAN, NextJob(w, starting),
         TypeOK'
  PROVE  PoolInv'
<1> USE DEF driverVars
<1>1. CASE queue = <<>>
  <2>1. /\ UNCHANGED <<live, queue, job, step, left, clock, count, driver>>
        /\ at[w] = "fetch" /\ at' = [at EXCEPT ![w] = at'[w]]
        /\ at'[w] \in {"asleep", "after"}
    BY <1>1 DEF NextJob, PoolInv, TypeOK
  <2> QED
    BY <2>1, NoJobMoves DEF PoolInv, TypeOK, Places
<1>2. CASE queue # <<>>
  <2>1. /\ UNCHANGED <<live, step, left, clock, count, driver>>
        /\ at[w] = "fetch" /\ at' = [at EXCEPT ![w] = at'[w]]
        /\ at'[w] \in {"run", "resetFirst"}
        /\ queue' = Tail(queue) /\ job' = [job EXCEPT ![w] = Head(queue)]
    BY <1>2 DEF NextJob, PoolInv, TypeOK
  <2>2. queue \in Seq(Jobs) /\ Head(queue) \in Jobs /\ Head(queue) # None
        /\ job[w] = None
    <3>1. queue \in Seq(Jobs) /\ Head(queue) \in Jobs
      BY <1>2 DEF PoolInv, TypeOK
    <3>2. Head(queue) \in [trader : Traders, step : Nat]
      BY <3>1 DEF Jobs
    <3>3. job[w] = None
      BY <2>1 DEF PoolInv
    <3> QED
      BY <3>1, <3>2, <3>3, PoolAssumption
  <2>3. /\ 1 \in DOMAIN queue /\ Head(queue) = queue[1]
        /\ \A i \in DOMAIN queue' :
             i + 1 \in DOMAIN queue /\ queue'[i] = queue[i + 1] /\ i + 1 # 1
        /\ \A i \in DOMAIN queue :
             i # 1 => i - 1 \in DOMAIN queue' /\ queue'[i - 1] = queue[i]
    BY <1>2, <2>1, <2>2, TailFacts
  <2>4. /\ job'[w] = queue[1] /\ job'[w] # None
        /\ \A v \in Workers : v # w => job'[v] = job[v]
    BY <2>1, <2>2, <2>3 DEF PoolInv, TypeOK
  <2>5. /\ at'[w] \in Places /\ at'[w] # "done"
        /\ \A v \in Workers : v # w => at'[v] = at[v]
    BY <2>1 DEF PoolInv, TypeOK, Places
  <2>6. \A t : Queued(t)' \/ Taken(t)' <=> Queued(t) \/ Taken(t)
    <3>1. \A t : Queued(t)' => Queued(t)
      BY <2>3 DEF Queued
    <3>2. \A t : Taken(t)' => Queued(t) \/ Taken(t)
      BY <2>3, <2>4 DEF Queued, Taken
    <3>3. \A t : Queued(t) => Queued(t)' \/ Taken(t)'
      BY <2>3, <2>4 DEF Queued, Taken
    <3>4. \A t : Taken(t) => Taken(t)'
      BY <2>2, <2>4 DEF Taken
    <3> QED
      BY <3>1, <3>2, <3>3, <3>4
  <2>7. Outstanding' = Outstanding
    BY <2>1, <2>6 DEF Outstanding
  <2>8. ASSUME ~live PROVE JobsApart'
    <3>1. \A i, j \in DOMAIN queue' : queue'[i].trader = queue'[j].trader => i = j
      <4> TAKE i, j \in DOMAIN queue'
      <4>1. i \in Nat /\ j \in Nat
        BY DEF TypeOK
      <4> QED
        BY <2>3, <2>8, <4>1 DEF PoolInv, JobsApart
    <3>2. \A v, u \in Workers : job'[v] # None /\ job'[u] # None
              /\ job'[v].trader = job'[u].trader => v = u
      BY <2>3, <2>4, <2>8 DEF PoolInv, JobsApart
    <3>3. \A i \in DOMAIN queue', u \in Workers :
            job'[u] # None => queue'[i].trader # job'[u].trader
      BY <2>3, <2>4, <2>8 DEF PoolInv, JobsApart
    <3> QED
      BY <2>1, <2>3, <2>4, <2>8, <3>1, <3>2, <3>3 DEF PoolInv, JobsApart
  <2>9. ASSUME ~live PROVE JobsCurrent'
    BY <2>1, <2>3, <2>4, <2>5, <2>9 DEF PoolInv, JobsCurrent
  <2>10. ASSUME ~live PROVE CountExact'
    BY <2>1, <2>7, <2>10 DEF PoolInv, CountExact
  <2>11. \A v \in Workers : job'[v] # None <=> at'[v] \in Places
    BY <2>4, <2>5 DEF PoolInv, Places
  <2> QED
    BY <2>1, <2>8, <2>9, <2>10, <2>11 DEF PoolInv, Places
<1> QED
  BY <1>1, <1>2

LEMMA RunKeeps ==
  ASSUME PoolInv, NEW w \in Workers, Run(w), TypeOK'
  PROVE  PoolInv'
<1> USE DEF driverVars
<1>1. /\ UNCHANGED <<live, queue, job, step, left, count, driver>>
      /\ at[w] = "run" /\ at' = [at EXCEPT ![w] = "done"]
      /\ at'[w] = "done" /\ \A v \in Workers : v # w => at'[v] = at[v]
  BY DEF Run, PoolInv, TypeOK
<1>2. \A v \in Workers : job'[v] # None <=> at'[v] \in Places
  BY <1>1 DEF PoolInv, Places
<1>3. Outstanding' = Outstanding
  BY <1>1 DEF Outstanding, Queued, Taken
<1>4. CASE live
  BY <1>1, <1>2, <1>4 DEF PoolInv, Run, Places
<1>5. CASE ~live
  <2> DEFINE t == job[w].trader
  <2>1. job[w] # None /\ t \in Traders /\ job[w].step = step
    BY <1>1, <1>5, JobTyped DEF PoolInv, Places, JobsCurrent
  <2>2. clock' = [clock EXCEPT ![t] = step]
    BY <1>5, <2>1 DEF Run
  <2>3. clock'[t] = step /\ \A u \in Traders : u # t => clock'[u] = clock[u]
    BY <2>1, <2>2 DEF PoolInv, TypeOK
  <2>4. JobsApart'
    BY <1>1, <1>5 DEF PoolInv, JobsApart
  <2>5. JobsCurrent'
    <3>1. \A u \in left : u # t /\ u \in Traders
      BY <1>5, <2>1 DEF PoolInv, JobsApart, TypeOK
    <3>2. \A i \in DOMAIN queue : queue[i].trader # t /\ queue[i].trader \in Traders
      BY <1>5, <2>1, JobTyped DEF PoolInv, JobsApart
    <3>3. \A v \in Workers : job[v] # None /\ v # w => job[v].trader # t /\ job[v].trader \in Traders
      BY <1>5, <2>1, JobTyped DEF PoolInv, JobsApart
    <3> QED
      BY <1>1, <1>5, <2>3, <3>1, <3>2, <3>3 DEF PoolInv, JobsCurrent
  <2>6. CountExact'
    BY <1>1, <1>3, <1>5, <2>3 DEF PoolInv, CountExact
  <2>7. \A u \in Traders : clock'[u] <= step
    <3>1. step \in Nat
      BY PoolAssumption DEF PoolInv, TypeOK
    <3> QED
      BY <2>3, <3>1 DEF PoolInv
  <2> QED
    BY <1>1, <1>2, <1>5, <2>4, <2>5, <2>6, <2>7 DEF PoolInv, Places
<1> QED
  BY <1>4, <1>5

(* done() ends the work on one outstanding trader, and on that one only.   *)
LEMMA DoneKeeps ==
  ASSUME PoolInv, NEW w \in Workers, Done(w), TypeOK'
  PROVE  PoolInv'
<1>1. /\ UNCHANGED <<live, queue, step, left, clock>>
      /\ at[w] = "done" /\ at'[w] = "after" /\ \A v \in Workers : v # w => at'[v] = at[v]
      /\ job'[w] = None /\ \A v \in Workers : v # w => job'[v] = job[v]
  BY DEF Done, PoolInv, TypeOK
<1>2. \A v \in Workers : job'[v] # None <=> at'[v] \in Places
  BY <1>1 DEF PoolInv, Places
<1>3. CASE live
  BY <1>1, <1>2, <1>3 DEF PoolInv, Done, Places
<1>4. CASE ~live
  <2> DEFINE t == job[w].trader
  <2>1. job[w] # None /\ t \in Traders /\ job[w].step = step
    BY <1>1, <1>4, JobTyped DEF PoolInv, Places, JobsCurrent
  <2>2. /\ t \notin left /\ ~Queued(t)
        /\ \A v \in Workers : job[v] # None /\ v # w => job[v].trader # t
    BY <1>4, <2>1 DEF PoolInv, JobsApart, Queued
  <2>3. Outstanding' = Outstanding \ {t} /\ t \in Outstanding
    BY <1>1, <2>1, <2>2 DEF Outstanding, Queued, Taken
  <2>4. JobsApart'
    BY <1>1, <1>4 DEF PoolInv, JobsApart
  <2>5. JobsCurrent'
    BY <1>1, <1>4 DEF PoolInv, JobsCurrent
  <2>6. clock[t] = step
    BY <1>1, <1>4, <2>1 DEF PoolInv, JobsCurrent
  <2>7. count' = Cardinality(Outstanding')
    BY <1>4, <2>3, FS_RemoveElement, OutstandingFinite DEF PoolInv, CountExact, Done
  <2>8. driver' \in {"loop", "stepped"} => Outstanding' = {}
    BY <1>4, <2>3 DEF PoolInv, CountExact, Done
  <2>9. CountExact'
    BY <1>1, <1>4, <2>3, <2>6, <2>7, <2>8 DEF PoolInv, CountExact
  <2> QED
    BY <1>1, <1>2, <1>4, <2>4, <2>5, <2>9 DEF PoolInv, Places
<1> QED
  BY <1>3, <1>4

LEMMA StartStepKeeps ==
  ASSUME PoolInv, StartStep, TypeOK'
  PROVE  PoolInv'
<1> USE DEF poolVars
<1>1. /\ ~live /\ ~live' /\ UNCHANGED <<queue, at, job, clock>>
      /\ driver = "loop" /\ driver' = "post"
      /\ step' = step + 1 /\ left' = Traders /\ count' = Cardinality(Traders)
  BY DEF StartStep
<1>2. step \in Nat /\ \A t \in Traders : clock[t] \in Nat /\ clock[t] <= step
  BY PoolAssumption DEF PoolInv, TypeOK
<1>3. Outstanding = {}
  BY <1>1 DEF PoolInv, CountExact
<1>4. \A t \in Traders : ~Queued(t) /\ ~Taken(t)
  BY <1>3 DEF Outstanding
<1>5. DOMAIN queue = {} /\ \A w \in Workers : job[w] = None
  BY <1>4, JobTyped DEF PoolInv, Queued, Taken
<1>6. \A t \in Traders : clock'[t] # step' /\ clock'[t] <= step'
  BY <1>1, <1>2
<1>7. Outstanding' = Traders
  BY <1>1 DEF Outstanding
<1>8. JobsApart'
  BY <1>1, <1>5 DEF JobsApart
<1>9. JobsCurrent'
  BY <1>1, <1>5, <1>6 DEF JobsCurrent
<1>10. CountExact'
  BY <1>1, <1>7 DEF CountExact
<1> QED
  BY <1>1, <1>6, <1>8, <1>9, <1>10 DEF PoolInv

LEMMA PostStepKeeps ==
  ASSUME PoolInv, NEW t \in Traders, PostStep(t), TypeOK'
  PROVE  PoolInv'
<1> DEFINE j == [trader |-> t, step |-> step]
<1>1. /\ UNCHANGED <<live, job, clock, step, count>>
      /\ driver = "post" /\ t \in left /\ left' = left \ {t}
      /\ driver' \in {"wait", "post"}
      /\ queue' = Append(queue, j)
  BY DEF PostStep, AddJob
<1>2. \A w \in Workers : (at'[w] \in Places <=> at[w] \in Places)
                         /\ (at'[w] = "done" <=> at[w] = "done")
  BY DEF PostStep, AddJob, PoolInv, TypeOK, Places
<1>3. queue \in Seq(Jobs) /\ j \in Jobs
  BY DEF PoolInv, TypeOK, Jobs
<1> DEFINE n == Len(queue) + 1
<1>4. /\ \A i \in DOMAIN queue : i \in DOMAIN queue' /\ queue'[i] = queue[i]
      /\ n \in DOMAIN queue' /\ queue'[n] = j /\ n \notin DOMAIN queue
      /\ \A i \in DOMAIN queue' : i \in DOMAIN queue \/ i = n
  BY <1>1, <1>3, AppendFacts
<1>5. j.trader = t /\ j.step = step
  OBVIOUS
<1> HIDE DEF j, n
<1>6. CASE live
  BY <1>1, <1>2, <1>6 DEF PoolInv, Places
<1>7. CASE ~live
  <2>1. \A i \in DOMAIN queue : queue[i].trader # t
    BY <1>1, <1>7 DEF PoolInv, JobsApart
  <2>2. \A w \in Workers : job[w] # None => job[w].trader # t
    BY <1>1, <1>7 DEF PoolInv, JobsApart
  <2>3. Outstanding' = Outstanding
    <3>1. \A u : Queued(u)' <=> Queued(u) \/ u = t
      BY <1>4, <1>5 DEF Queued
    <3>2. \A u : Taken(u)' <=> Taken(u)
      BY <1>1 DEF Taken
    <3> QED
      BY <1>1, <3>1, <3>2 DEF Outstanding
  <2>4. JobsApart'
    <3>1. \A i, k \in DOMAIN queue' : queue'[i].trader = queue'[k].trader => i = k
      BY <1>4, <1>5, <1>7, <2>1 DEF PoolInv, JobsApart
    <3>2. \A i \in DOMAIN queue', w \in Workers :
            job'[w] # None => queue'[i].trader # job'[w].trader
      BY <1>1, <1>4, <1>5, <1>7, <2>2 DEF PoolInv, JobsApart
    <3>3. \A i \in DOMAIN queue' : queue'[i].trader \notin left'
      BY <1>1, <1>4, <1>5, <1>7 DEF PoolInv, JobsApart
    <3> QED
      BY <1>1, <1>7, <3>1, <3>2, <3>3 DEF PoolInv, JobsApart
  <2>5. JobsCurrent'
    BY <1>1, <1>2, <1>4, <1>5, <1>7 DEF PoolInv, JobsCurrent
  <2>6. CountExact'
    BY <1>1, <1>7, <2>3 DEF PoolInv, CountExact
  <2> QED
    BY <1>1, <1>2, <1>7, <2>4, <2>5, <2>6 DEF PoolInv, Places
<1> QED
  BY <1>6, <1>7

LEMMA WorkerKeeps ==
  ASSUME PoolInv, NEW w \in Workers, WorkerStep(w) \/ Hang(w)
  PROVE  PoolInv'
<1> USE DEF driverVars, poolVars
<1>1. TypeOK'
  <2>1. ASSUME ~live, at[w] = "done" PROVE count > 0
    <3>1. job[w] # None /\ job[w].trader \in Traders
      BY <2>1, JobTyped DEF PoolInv
    <3>2. Outstanding # {}
      BY <3>1 DEF Outstanding, Taken
    <3> QED
      BY <2>1, <3>2, OutstandingFinite, FS_EmptySet DEF PoolInv, CountExact
  <2> QED
    BY <2>1, WorkerTyped DEF PoolInv
<1>2. CASE LoopTest(w) \/ PingTest(w) \/ PingReset(w) \/ Hang(w)
  <2>1. UNCHANGED <<live, queue, job, step, left, clock, count, driver>>
    BY <1>2 DEF LoopTest, PingTest, PingReset, Hang
  <2>2. \A v \in Workers : (at'[v] \in Places <=> at[v] \in Places)
                         /\ (at'[v] = "done" <=> at[v] = "done")
    BY <1>2 DEF LoopTest, PingTest, PingReset, Hang, PoolInv, TypeOK, Places
  <2> QED
    BY <1>1, <2>1, <2>2, NoJobMoves
<1> QED
  BY <1>1, <1>2, NextJobKeeps, RunKeeps, DoneKeeps DEF WorkerStep

LEMMA DriverKeeps ==
  ASSUME PoolInv, DriverStep \/ (\E t \in Ticking : PostLive(t)) \/ PlayPause
  PROVE  PoolInv'
<1> USE DEF driverVars, poolVars
<1>1. TypeOK'
  BY DriverTyped DEF PoolInv
<1>2. CASE Wait \/ EndStep \/ LeaveLive \/ PlayPause
  <2>1. UNCHANGED <<live, queue, job, step, left, clock, count, at>>
    BY <1>2 DEF Wait, EndStep, LeaveLive, PlayPause
  <2>2. ~live /\ driver' \in {"loop", "stepped"} =>
            driver \in {"loop", "stepped"} \/ Outstanding = {}
    <3>1. ~live /\ ~(count > 0) => Outstanding = {}
      BY OutstandingFinite, FS_EmptySet DEF PoolInv, CountExact
    <3> QED
      BY <1>2, <3>1 DEF Wait, EndStep, LeaveLive, PlayPause
  <2> QED
    BY <1>1, <2>1, <2>2, NoJobMoves
<1>3. ASSUME NEW t \in Ticking, PostLive(t) PROVE PoolInv'
  <2>1. /\ live /\ UNCHANGED <<live, job, step, clock, count>>
    BY <1>3 DEF PostLive, AddJob
  <2>2. \A w \in Workers : at'[w] \in Places <=> at[w] \in Places
    BY <1>3 DEF PostLive, AddJob, PoolInv, TypeOK, Places
  <2> QED
    BY <1>1, <2>1, <2>2 DEF PoolInv, Places
<1> QED
  BY <1>1, <1>2, <1>3, StartStepKeeps, PostStepKeeps DEF DriverStep

LEMMA MainKeeps ==
  ASSUME PoolInv,
         Terminate \/ StopperStep \/ PingCommand \/ WatchdogStep \/ CancelWatchdog
  PROVE  PoolInv'
<1> USE DEF driverVars, poolVars
<1>1. TypeOK'
  BY MainTyped DEF PoolInv
<1>2. UNCHANGED <<live, queue, job, step, left, clock, count, driver>>
  BY DEF Terminate, StopperStep, JoinDriver, Save, StopWorker, NotifyWorkers, JoinWorkers,
         PingCommand, WatchdogStep, PingWorkers, CheckPending, CancelWatchdog
<1>3. at' = at \/ at' = WakeAll(at)
  BY DEF Terminate, StopperStep, JoinDriver, Save, StopWorker, NotifyWorkers, JoinWorkers,
         PingCommand, WatchdogStep, PingWorkers, CheckPending, CancelWatchdog
<1>4. \A w \in Workers : (at'[w] \in Places <=> at[w] \in Places)
                         /\ (at'[w] = "done" <=> at[w] = "done")
  BY <1>3 DEF WakeAll, PoolInv, TypeOK, Places
<1> QED
  BY <1>1, <1>2, <1>4, NoJobMoves

LEMMA PoolNext == PoolInv /\ [Next]_vars => PoolInv'
<1> SUFFICES ASSUME PoolInv, [Next]_vars PROVE PoolInv'
  OBVIOUS
<1>1. CASE UNCHANGED vars
  <2>1. TypeOK'
    BY <1>1 DEF vars, poolVars, driverVars, dogVars, PoolInv, TypeOK
  <2> QED
    BY <1>1, <2>1, NoJobMoves DEF vars, poolVars, driverVars
<1> QED
  BY <1>1, WorkerKeeps, DriverKeeps, MainKeeps DEF Next

-----------------------------------------------------------------------------
(***************************************************************************)
(* Every variable keeps its type; in particular the count down never goes  *)
(* below zero, whatever the order of the jobs, the pings and the stop.     *)
(***************************************************************************)
THEOREM PoolTyped == Spec => []TypeOK
<1>1. PoolInv => TypeOK
  BY DEF PoolInv
<1> QED
  BY <1>1, PoolStart, PoolNext, PTL DEF Spec

(***************************************************************************)
(* The pool implements the clock of a backtest: the step moves on when     *)
(* every strategy trader was updated for it, each one exactly once.        *)
(***************************************************************************)
THEOREM PoolStepsInOrder == Spec => StepsInOrder
<1>1. Init => BT!Init
  BY DEF Init, BT!Init
<1>2. PoolInv /\ [Next]_vars => [BT!Next]_(BT!vars)
  <2> SUFFICES ASSUME PoolInv, [Next]_vars PROVE [BT!Next]_(BT!vars)
    OBVIOUS
  <2>1. ASSUME UNCHANGED <<step, clock>> PROVE UNCHANGED BT!vars
    BY <2>1 DEF BT!vars
  <2>2. CASE StartStep
    <3>1. step' = step + 1 /\ clock' = clock /\ Outstanding = {} /\ ~live
      BY <2>2 DEF StartStep, PoolInv, CountExact
    <3>2. {t \in Traders : clock[t] # step} = {}
      BY <3>1 DEF PoolInv, CountExact
    <3>3. \A t \in Traders : clock'[t] # step'
      <4>1. step \in Nat /\ \A t \in Traders : clock[t] \in Nat /\ clock[t] <= step
        BY PoolAssumption DEF PoolInv, TypeOK
      <4> QED
        BY <3>1, <4>1
    <3>4. {t \in Traders : clock'[t] # step'} = Traders
      BY <3>3
    <3> QED
      BY <3>1, <3>2, <3>4 DEF BT!Next, BT!Tick
  <2>3. ASSUME NEW w \in Workers, Run(w) PROVE [BT!Next]_(BT!vars)
    <3>1. CASE live
      BY <2>1, <2>3, <3>1 DEF Run, driverVars
    <3>2. CASE ~live
      <4> DEFINE t == job[w].trader
      <4>1. job[w] # None /\ at[w] = "run"
        BY <2>3 DEF Run, PoolInv
      <4>2. t \in Traders /\ job[w].step = step /\ clock[t] # step
        BY <3>2, <4>1, JobTyped DEF PoolInv, JobsCurrent
      <4>3. clock' = [clock EXCEPT ![t] = step] /\ step' = step
        BY <2>3, <3>2, <4>2 DEF Run, driverVars
      <4>4. \A u \in Traders : clock'[u] # step' <=> clock[u] # step /\ u # t
        BY <4>2, <4>3 DEF PoolInv, TypeOK
      <4>5. {u \in Traders : clock'[u] # step'} = {u \in Traders : clock[u] # step} \ {t}
        BY <4>4
      <4> QED
        BY <4>2, <4>3, <4>5 DEF BT!Next, BT!Update
    <3> QED
      BY <3>1, <3>2
  <2>4. CASE ~StartStep /\ \A w \in Workers : ~Run(w)
    <3>1. UNCHANGED <<step, clock>>
      BY <2>4 DEF Next, vars, WorkerStep, LoopTest, NextJob, Done, PingTest, PingReset, Hang,
           DriverStep, PostStep, Wait, EndStep, LeaveLive, PostLive, PlayPause, Terminate,
           StopperStep, JoinDriver, Save, StopWorker, NotifyWorkers, JoinWorkers,
           PingCommand, WatchdogStep, PingWorkers, CheckPending, CancelWatchdog,
           driverVars, poolVars, dogVars
    <3> QED
      BY <2>1, <3>1
  <2> QED
    BY <2>2, <2>3, <2>4
<1> QED
  BY <1>1, <1>2, PoolStart, PoolNext, PTL DEF Spec, StepsInOrder, BT!Spec
=============================================================================

--------------------------- MODULE BacktestSteps ---------------------------
(***************************************************************************)
(* What a backtest promises of its time steps (strategy/service.py,        *)
(* TimeStepThread, and strategy/strategy.py, backtest_update): the time    *)
(* moves on only once every strategy trader has been updated for the       *)
(* current step, and each of them is updated once per step.  Nothing is    *)
(* said here of workers, queues or conditions.                             *)
(***************************************************************************)
EXTENDS Naturals

CONSTANT Traders

VARIABLES now,   \* the number of the current step, 0 before the first one
          owed   \* the traders that are not yet updated for it

vars == <<now, owed>>

Init == now = 0 /\ owed = {}

\* The clock moves on: everyone is owed an update.
Tick == /\ owed = {}
        /\ now' = now + 1
        /\ owed' = Traders

\* One trader is updated for the current step.
Update(t) == /\ t \in owed
             /\ owed' = owed \ {t}
             /\ UNCHANGED now

Next == Tick \/ \E t \in Traders : Update(t)

Spec == Init /\ [][Next]_vars
=============================================================================

------------------------------ MODULE MCOutage ------------------------------
(* GitHub does not answer: the poll loop through whole cycles of it, and   *)
(* the watchdog that judges the loop by its waits.  The two models share   *)
(* no state: a behaviour is one of the loop or one of the watchdog.        *)
EXTENDS MCMonitor, Watchdog

VARIABLE part

allVars == <<vars, watchVars, part>>

MCInit ==
  /\ part \in {"loop", "watchdog"}
  /\ MonitorInit /\ WatchInit
  /\ part = "loop" => enabled  \* the poll thread runs

LoopMoves  == part = "loop" /\ Next /\ UNCHANGED <<watchVars, part>>
WatchMoves == part = "watchdog" /\ WatchNext /\ UNCHANGED <<vars, part>>

\* A step A of the watchdog's model, as a step of both.
Watches(A) == part = "watchdog" /\ A /\ UNCHANGED <<vars, part>>

\* The fairness of WatchFairSpec; nothing is owed by the loop.
MCSpec ==
  /\ MCInit /\ [][LoopMoves \/ WatchMoves]_allVars
  /\ WF_watchVars(Watches(WatchdogRuns))
  /\ WF_watchVars(Watches(ClockMoves))
  /\ WF_watchVars(Watches(PollStep))

\* `logged' is not read by the properties of this run.
MCView == <<WithoutLogged, watchVars, part>>
=============================================================================

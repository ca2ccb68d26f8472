------------------------------ MODULE Watchdog ------------------------------
(***************************************************************************)
(* The dead-man switch: scripts/hub-watchdog.sh on a spoke judges the hub  *)
(* by /health, whose last_poll_at is moved by the poll loop at the end of  *)
(* each cycle (MonitorLoop.run).  A cycle is a number of API calls, each   *)
(* with up to three attempts and the waits of get_with_backoff between     *)
(* them, and then the sleep of the poll interval.                          *)
(*                                                                         *)
(* Time is in ticks of ten seconds.  `age' is how old last_poll_at is, or  *)
(* the uptime while there is none; past the grace period it stands still.  *)
(***************************************************************************)
EXTENDS Naturals

CONSTANTS
  Interval,    \* poll_interval_sec
  BackoffMax,  \* api_backoff_max_sec
  Timeout,     \* the longest an attempt takes (urlopen timeout)
  Floor,       \* the least grace period: five minutes
  RetryAfter,  \* the Retry-After values GitHub sends, in ticks
  Calls        \* bound: API calls in a cycle

ASSUME WatchdogAssumption ==
  /\ Interval \in Nat \ {0} /\ BackoffMax \in Nat /\ Timeout \in Nat
  /\ Floor \in Nat /\ RetryAfter \subseteq Nat /\ Calls \in Nat \ {0}

VARIABLES
  up,       \* the hub process answers
  enabled,  \* polling_enabled: GITHUB_TOKEN was set at the start
  polled,   \* last_poll_at is not null
  age,      \* how long since last_poll_at, or since the start
  loop,     \* where the poll loop is
  slow,     \* calls of this cycle that took time
  unit      \* the watchdog unit's last result

watchVars == <<up, enabled, polled, age, loop, slow, unit>>

MAX_RETRIES == 3

\* A few missed cycles, never under five minutes.
grace == IF Interval * 5 > Floor THEN Interval * 5 ELSE Floor

LoopType == [at: {"off", "call", "sleep", "dead"}, left: 0..Calls, attempt: 0..(MAX_RETRIES - 1)]

WatchdogTypeOK ==
  /\ up \in BOOLEAN /\ enabled \in BOOLEAN /\ polled \in BOOLEAN
  /\ age \in 0..(grace + 1)
  /\ loop \in LoopType
  /\ slow \in 0..Calls
  /\ unit \in {"ok", "warn", "fail"}

Later(d) == IF age + d > grace THEN grace + 1 ELSE age + d

NewCycle == [at |-> "call", left |-> Calls, attempt |-> 0]
Off      == [at |-> "off", left |-> 0, attempt |-> 0]

\* main(): the poll thread is started only with a token.
Started(e) ==
  /\ up' = TRUE /\ enabled' = e /\ polled' = FALSE /\ age' = 0 /\ slow' = 0
  /\ loop' = IF e THEN NewCycle ELSE Off

WatchInit ==
  /\ up = TRUE /\ enabled \in BOOLEAN /\ polled = FALSE /\ age = 0 /\ slow = 0
  /\ loop = IF enabled THEN NewCycle ELSE Off
  /\ unit = "ok"

-----------------------------------------------------------------------------
\* The last call of the cycle is through: note_poll, then the sleep.
CycleEnds ==
  /\ loop' = [at |-> "sleep", left |-> 0, attempt |-> 0]
  /\ polled' = TRUE /\ age' = 0 /\ slow' = 0

\* The current call is over after d ticks of its last attempt, and n calls are left.
CallOver(d, n) ==
  IF n = 0 THEN CycleEnds
  ELSE /\ loop' = [at |-> "call", left |-> n, attempt |-> 0]
       /\ age' = Later(d)
       /\ slow' = IF d > 0 /\ loop.attempt = 0 THEN slow + 1 ELSE slow
       /\ UNCHANGED polled

\* An attempt ends in an answer other than a rate limit, or in an exception,
\* which skips the other calls of its repository.
CallEnds ==
  /\ up /\ loop.at = "call"
  /\ \E d \in 0..Timeout : CallOver(d, loop.left - 1)
  /\ UNCHANGED <<up, enabled, unit>>

CallRaises ==
  /\ up /\ loop.at = "call"
  /\ \E d \in 0..Timeout, n \in 0..(loop.left - 1) : CallOver(d, n)
  /\ UNCHANGED <<up, enabled, unit>>

\* The wait of get_with_backoff before attempt a + 1: what the server asks for,
\* or ten seconds doubled each time, and never more than the maximum.
Backoff(a) == {IF w < BackoffMax THEN w ELSE BackoffMax : w \in RetryAfter \cup {2^a}}

RateLimited ==
  /\ up /\ loop.at = "call"
  /\ \E d \in 0..Timeout, w \in Backoff(loop.attempt) :
       IF loop.attempt + 1 < MAX_RETRIES
         THEN /\ loop' = [loop EXCEPT !.attempt = @ + 1]
              /\ age' = Later(d + w)
              /\ slow' = IF loop.attempt = 0 THEN slow + 1 ELSE slow
              /\ UNCHANGED polled
         ELSE CallOver(d + w, loop.left - 1)
  /\ UNCHANGED <<up, enabled, unit>>

\* run() sleeps in small steps and starts the next cycle.
SleepOver ==
  /\ up /\ loop.at = "sleep"
  /\ loop' = NewCycle
  /\ age' = Later(Interval)
  /\ UNCHANGED <<up, enabled, polled, slow, unit>>

-----------------------------------------------------------------------------
\* The loop wedges or its thread dies; the hub dies; it is started again.
Wedge ==
  /\ up /\ loop.at \in {"call", "sleep"}
  /\ loop' = [loop EXCEPT !.at = "dead"]
  /\ UNCHANGED <<up, enabled, polled, age, slow, unit>>

HubDies ==
  /\ up
  /\ up' = FALSE
  /\ loop' = Off
  /\ UNCHANGED <<enabled, polled, age, slow, unit>>

HubStarts ==
  /\ ~up
  /\ \E e \in BOOLEAN : Started(e)
  /\ UNCHANGED unit

\* Nothing moves but the clock.
ClockMoves ==
  /\ loop.at \in {"dead", "off"}
  /\ age' = Later(1)
  /\ UNCHANGED <<up, enabled, polled, loop, slow, unit>>

-----------------------------------------------------------------------------
\* Mutant: two missed intervals are enough.
VerdictShortGrace ==
  CASE ~up                         -> "fail"
    [] up /\ ~enabled              -> "warn"
    [] OTHER                       -> IF age > Interval * 2 THEN "fail" ELSE "ok"

\* Mutant: a hub that has not polled yet is starting up.
VerdictAlwaysStarting ==
  CASE ~up                         -> "fail"
    [] up /\ ~enabled              -> "warn"
    [] OTHER                       -> IF polled /\ age > grace THEN "fail" ELSE "ok"

\* What the script prints: unreachable, polling disabled, never polled or stale
\* past the grace period, or alive.
Verdict ==
  CASE ~up                         -> "fail"
    [] up /\ ~enabled              -> "warn"
    [] OTHER                       -> IF age > grace THEN "fail" ELSE "ok"

\* The timer runs the script.
WatchdogRuns ==
  /\ unit' = Verdict
  /\ UNCHANGED <<up, enabled, polled, age, loop, slow>>

PollStep == CallEnds \/ CallRaises \/ RateLimited \/ SleepOver

WatchNext ==
  \/ PollStep
  \/ Wedge \/ HubDies \/ HubStarts
  \/ ClockMoves
  \/ WatchdogRuns

WatchSpec == WatchInit /\ [][WatchNext]_watchVars

\* The timer fires for as long as the spoke lives, and time passes.
WatchFairSpec ==
  WatchSpec /\ WF_watchVars(WatchdogRuns) /\ WF_watchVars(ClockMoves) /\ WF_watchVars(PollStep)

-----------------------------------------------------------------------------
\* hub-watchdog.sh, on the grace period: it does not page on a single slow API
\* call.  A hub whose cycle has at most one call that took time, retries and
\* waits included, is never judged dead.
OneSlowCallNeverPages ==
  up /\ loop.at \in {"call", "sleep"} /\ slow <= 1 => Verdict # "fail"

\* mon-deadman-01: a loop that has stopped, also before its first cycle, and a
\* hub that is gone fail the unit, unless the hub comes back first.
DeadHubIsPaged ==
  (~up \/ (enabled /\ loop.at = "dead")) ~> (unit = "fail" \/ (up /\ loop.at # "dead"))
=============================================================================

------------------------------ MODULE Monitor ------------------------------
(***************************************************************************)
(* The polling loop of the hub (src/hub/monitor.py with coherence_view.py, *)
(* scan_view.py and github_client.py) on top of the alert sink.            *)
(*                                                                         *)
(* A cycle copies the registry's runners once, under the lock, and then    *)
(* walks the repositories; for each it runs the same list of checks.  The  *)
(* first three read only the copy, the others ask GitHub.  While it walks, *)
(* heartbeats, revocations and people go on.  The alerts a check earns are *)
(* delivered by raise_alert, one by one, before the next request is made.  *)
(*                                                                         *)
(* What GitHub says is an answer chosen at the call.  A call the check     *)
(* gives up on (rate limited through all retries of get_with_backoff, or   *)
(* any status but 200) is silent; an exception of the transport ends the   *)
(* repository's turn.                                                      *)
(***************************************************************************)
EXTENDS Alerts, SequencesExt

CONSTANTS
  Repo, Runner,
  RepoOf,     \* the repository of each runner
  RunId,      \* workflow runs that may sit in the queue
  Branches,   \* watched_branches, a sequence; "default" is the sentinel
  Reports,    \* bound: what a heartbeat may report of its host
  Talks,      \* bound: the checks whose API calls may answer 200
  MonFaults,  \* what may go wrong in the loop
  Moves       \* bound: what the registry may do, a subset of MoveKind

MoveKind == {"time", "heartbeat", "revoke"}

ASSUME MonitorAssumption ==
  /\ RepoOf \in [Runner -> Repo]
  /\ Branches \in Seq({"default", "main"})
  /\ MonFaults \subseteq {"silent", "unreachable", "log", "restart"}
  /\ Moves \subseteq MoveKind

VARIABLES
  reg,      \* the runners of the registry
  phase,    \* "rest" between cycles: note_poll has recorded the last one
  snap,     \* the copy the running cycle works on
  left,     \* repositories of this cycle still to poll
  turn,     \* the repository being polled, the checks and branches left to it
  todo,     \* alerts the last answer has earned and that are not raised yet
  raised,   \* alerts logged in this cycle
  lost,     \* repositories whose turn ended because the log was not writable
  heard,    \* <<repo, check>> that got an answer which is not a pass
  live      \* GitHub answered some call of this cycle with 200

loopVars == <<phase, snap, left, turn, todo, raised, lost, heard, live>>
vars     == <<alertVars, reg, loopVars>>

\* What a runner record says, reduced to what the checks read.  The age of the
\* heartbeat is in intervals, two or more are stale.  A scan report names the
\* states of its repositories; a word the view does not know is "unscannable".
ScanWord   == {"clean", "findings", "unscannable"}
ScanType   == {s \in [usable: BOOLEAN, states: SUBSET ScanWord] : s.usable \/ s.states = {}}
HostReport == [image: BOOLEAN, pin: BOOLEAN, scan: ScanType]
RunnerRec  == [enrolled: BOOLEAN, beat: 0..2, host: HostReport]

ASSUME ReportsAssumption == Reports \subseteq HostReport

\* "failure" stands for the six NON_PASSING_CONCLUSIONS, "none" for a run that
\* has no conclusion yet.
Conclusion == {"success", "failure", "skipped", "none"}
NON_PASSING_CONCLUSIONS == {"failure"}

\* Mutant: the registry-only checks run last.
PlanStatusFirst ==
  <<"status", "queue", "branches", "gates", "drift", "workflow", "branches",
    "check_runs", "image", "pin", "scan">>

\* The order of _poll_repo; the branches are resolved before each walk of them.
CheckPlan ==
  <<"image", "pin", "scan", "status", "queue", "branches", "gates", "drift",
    "workflow", "branches", "check_runs">>
RegistryOnly == {"image", "pin", "scan"}
NoTurn == [repo |-> None, checks |-> <<>>, branches |-> <<>>]

Explicit == SelectSeq(Branches, LAMBDA b : b # "default")

MonitorTypeOK ==
  /\ AlertsTypeOK
  /\ reg \in [Runner -> RunnerRec]
  /\ phase \in {"rest", "polling"}
  /\ DOMAIN snap \subseteq Runner /\ \A r \in DOMAIN snap : snap[r] \in RunnerRec
  /\ left \subseteq Repo /\ lost \subseteq Repo
  /\ turn.repo \in Repo \cup {None}
  /\ IsSuffix(turn.checks, CheckPlan)
  /\ IsSuffix(turn.branches, Branches) \/ IsSuffix(turn.branches, Explicit)
  /\ todo \subseteq Key /\ raised \subseteq logged
  /\ heard \subseteq Repo \X ToSet(CheckPlan) /\ live \in BOOLEAN

Healthy  == [image |-> TRUE, pin |-> FALSE, scan |-> [usable |-> TRUE, states |-> {"clean"}]]
Enrolled == [enrolled |-> TRUE, beat |-> 0, host |-> Healthy]

\* The hub starts with the runners its registry already holds.
LoopInit ==
  /\ phase = "rest"
  /\ snap = <<>>
  /\ left = {}
  /\ turn = NoTurn
  /\ todo = {}
  /\ raised = {}
  /\ lost = {}
  /\ heard = {}
  /\ live = FALSE

MonitorInit ==
  /\ AlertsInit
  /\ reg = [r \in Runner |-> Enrolled]
  /\ LoopInit

-----------------------------------------------------------------------------
(* What each check makes of what it reads: the alerts it raises.           *)

RunnersOf(p) == {r \in DOMAIN snap : RepoOf[r] = p}

\* The whitelist: only clean records are quiet.
scan_alerts(s) ==
  IF ~s.usable THEN {"runner_scan_unknown"}
  ELSE {c \in {"runner_scan_findings", "runner_scan_unknown"} :
          IF c = "runner_scan_findings" THEN "findings" \in s.states
                                        ELSE s.states \ {"clean", "findings"} # {}}

_check_image_readiness(p) ==
  {<<p, "runner_image_missing", r>> : r \in {q \in RunnersOf(p) : ~snap[q].host.image}}

_check_image_pin_divergence(p) ==
  {k \in {<<p, "image_pin_divergence", "?">>} : \E r \in RunnersOf(p) : snap[r].host.pin}

_check_scan_state(p) ==
  UNION {{<<p, c, r>> : c \in scan_alerts(snap[r].host.scan)} : r \in RunnersOf(p)}

Stale(rec) == rec.beat = 2

\* Mutant: only the API's word counts.
StatusWithoutHeartbeat(p, status) ==
  {<<p, "runner_missing", r>> : r \in {q \in RunnersOf(p) : status[q] = "absent"}}
    \cup {<<p, "runner_offline", r>> : r \in {q \in RunnersOf(p) : status[q] = "offline"}}

\* A runner the API does not list is missing, and its heartbeat is not looked at.
_check_runner_status(p, status) ==
  {<<p, "runner_missing", r>> : r \in {q \in RunnersOf(p) : status[q] = "absent"}}
    \cup
  {<<p, "runner_offline", r>> :
     r \in {q \in RunnersOf(p) : \/ status[q] = "offline"
                                 \/ status[q] = "online" /\ Stale(snap[q])}}

_check_queue_drain(p, stalled) == {<<p, "queue_stall", id>> : id \in stalled}

\* The check-runs of a branch's head commit: names to conclusions.
CheckName == {"coherence", "lint"}
Failing(runs) == {c \in DOMAIN runs : runs[c] \in NON_PASSING_CONCLUSIONS}

_check_gate_results(p, runs) == {<<p, "gate_failure", c>> : c \in Failing(runs)}

check_check_runs(p, runs) ==
  IF "coherence" \notin DOMAIN runs
    THEN {<<p, "coherence_absent", "?">>}
    ELSE {<<p, "coherence_failure", c>> : c \in Failing(runs) \cap {"coherence"}}

\* The latest run of a workflow, when there is one; a run that has not
\* concluded has no completion time.
Seen   == {"no_workflow", "no_run", "run"}
Latest == {l \in [seen: Seen, conclusion: Conclusion, finish: {"none", "fresh", "old"}] :
             l.conclusion = "none" => l.finish = "none"}

_check_drift_scan(p, latest) ==
  CASE latest.seen # "run"                               -> {<<p, "drift_overdue", "?">>}
    [] latest.seen = "run"
         /\ latest.conclusion \in NON_PASSING_CONCLUSIONS -> {<<p, "drift_failed", "?">>}
    [] OTHER -> {k \in {<<p, "drift_overdue", "?">>} : latest.finish # "fresh"}

\* Mutant: the coherence gate judged like the drift scan, a skip falls through.
SkippedFallsThrough(p, latest) ==
  CASE latest.seen # "run"                               -> {<<p, "coherence_missing", "?">>}
    [] latest.seen = "run"
         /\ latest.conclusion \in NON_PASSING_CONCLUSIONS -> {<<p, "coherence_failure", "?">>}
    [] OTHER -> {k \in {<<p, "coherence_overdue", "?">>} : latest.finish # "fresh"}

check_workflow_runs(p, latest) ==
  CASE latest.seen # "run"                               -> {<<p, "coherence_missing", "?">>}
    [] latest.seen = "run"
         /\ latest.conclusion \in NON_PASSING_CONCLUSIONS -> {<<p, "coherence_failure", "?">>}
    [] latest.seen = "run"
         /\ latest.conclusion = "skipped"                 -> {<<p, "coherence_skipped", "?">>}
    [] OTHER -> {k \in {<<p, "coherence_overdue", "?">>} : latest.finish # "fresh"}

\* Without an explicit branch the check says so and asks nothing.
CoherenceUnconfigured(p) == {<<p, "coherence_unconfigured", "?">>}

-----------------------------------------------------------------------------
(* The loop.                                                               *)

\* poll_cycle: the locked copy, grouped by repository.
StartCycle ==
  /\ phase = "rest"
  /\ phase' = "polling"
  /\ snap' = [r \in {q \in Runner : reg[q].enrolled} |-> reg[r]]
  /\ left' = {RepoOf[r] : r \in {q \in Runner : reg[q].enrolled}}
  /\ raised' = {} /\ lost' = {} /\ heard' = {} /\ live' = FALSE
  /\ UNCHANGED <<alertVars, reg, turn, todo>>

\* The last turn is over and its alerts are delivered.
Between == phase = "polling" /\ turn = NoTurn /\ todo = {} /\ job = Idle

StartRepo ==
  /\ Between
  /\ \E p \in left :
       /\ turn' = [repo |-> p, checks |-> CheckPlan, branches |-> <<>>]
       /\ left' = left \ {p}
  /\ UNCHANGED <<alertVars, reg, phase, snap, todo, raised, lost, heard, live>>

\* The cycle has walked every repository, whatever became of it: note_poll.
EndCycle ==
  /\ Between /\ left = {}
  /\ phase' = "rest"
  /\ UNCHANGED <<alertVars, reg, snap, left, turn, todo, raised, lost, heard, live>>

\* The thread is about to run check c of repository p.
At(c, p) ==
  /\ turn.repo = p /\ turn.checks # <<>> /\ Head(turn.checks) = c
  /\ todo = {} /\ job = Idle

\* The turn without its current check; after the last check the turn is over.
AfterCheck ==
  IF Len(turn.checks) = 1 THEN NoTurn
                          ELSE [turn EXCEPT !.checks = Tail(@), !.branches = <<>>]

\* Inside a walk of the branches only the branch is done.
AfterBranch ==
  IF Len(turn.branches) > 1 THEN [turn EXCEPT !.branches = Tail(@)] ELSE AfterCheck

\* Check c is through, told something by GitHub or not: its alerts are to be
\* raised, and what was not a pass is noted.
Checked(c, p, told, alerts, pass, next) ==
  /\ todo' = alerts
  /\ live' = (live \/ told)
  /\ heard' = heard \cup {h \in {<<p, c>>} : ~pass}
  /\ turn' = next
  /\ UNCHANGED <<alertVars, reg, phase, snap, left, raised, lost>>

RegistryChecks(p) ==
  \/ At("image", p) /\ Checked("image", p, FALSE, _check_image_readiness(p), TRUE, AfterCheck)
  \/ At("pin", p)   /\ Checked("pin", p, FALSE, _check_image_pin_divergence(p), TRUE, AfterCheck)
  \/ At("scan", p)  /\ Checked("scan", p, FALSE, _check_scan_state(p), TRUE, AfterCheck)

StatusCheck(p) ==
  /\ At("status", p) /\ "status" \in Talks
  /\ \E status \in [RunnersOf(p) -> {"online", "offline", "absent"}] :
       Checked("status", p, TRUE, _check_runner_status(p, status),
                \A r \in RunnersOf(p) : status[r] = "online" /\ ~Stale(snap[r]), AfterCheck)

QueueCheck(p) ==
  /\ At("queue", p) /\ "queue" \in Talks
  /\ \E stalled \in SUBSET RunId :
       Checked("queue", p, TRUE, _check_queue_drain(p, stalled), stalled = {}, AfterCheck)

\* _watched_branches: a sentinel that cannot be resolved is left out.
_watched_branches(p) ==
  /\ At("branches", p) /\ turn.branches = <<>>
  /\ \E resolved \in BOOLEAN :
       LET bs == IF resolved THEN Branches ELSE Explicit IN
       /\ resolved => "default" \notin ToSet(Branches) \/ "branches" \in Talks
       /\ turn' = IF bs # <<>> THEN [turn EXCEPT !.checks = Tail(@), !.branches = bs]
                  ELSE IF Len(turn.checks) = 2 THEN NoTurn
                  ELSE [turn EXCEPT !.checks = Tail(Tail(@))]
       /\ live' = (live \/ (resolved /\ "default" \in ToSet(Branches)))
  /\ UNCHANGED <<alertVars, reg, phase, snap, left, todo, raised, lost, heard>>

BranchChecks(p) ==
  \E runs \in UNION {[S -> Conclusion] : S \in SUBSET CheckName} :
    \/ /\ At("gates", p) /\ "gates" \in Talks
       /\ Checked("gates", p, TRUE, _check_gate_results(p, runs),
                   "failure" \notin {runs[c] : c \in DOMAIN runs}, AfterBranch)
    \/ /\ At("check_runs", p) /\ "check_runs" \in Talks
       /\ Checked("check_runs", p, TRUE, check_check_runs(p, runs),
                   "coherence" \in DOMAIN runs /\ runs["coherence"] # "failure", AfterBranch)

\* Without an explicit branch check_workflow_runs alerts before any call.
WorkflowChecks(p) ==
  \E latest \in Latest :
    LET pass == latest = [seen |-> "run", conclusion |-> "success", finish |-> "fresh"] IN
    \/ /\ At("drift", p) /\ "drift" \in Talks
       /\ Checked("drift", p, TRUE, _check_drift_scan(p, latest), pass, AfterCheck)
    \/ /\ At("workflow", p)
       /\ IF Explicit = <<>>
          THEN Checked("workflow", p, FALSE, CoherenceUnconfigured(p), TRUE, AfterCheck)
          ELSE /\ "workflow" \in Talks
               /\ Checked("workflow", p, TRUE, check_workflow_runs(p, latest), pass, AfterCheck)

\* A call of get_with_backoff ended without a 200: the check returns, or goes
\* on with the next branch.
Silent(p) ==
  /\ "silent" \in MonFaults
  /\ turn.checks # <<>>
  /\ At(Head(turn.checks), p) /\ Head(turn.checks) \notin RegistryOnly \cup {"branches"}
  /\ Head(turn.checks) = "workflow" => Explicit # <<>>
  /\ Checked(Head(turn.checks), p, FALSE, {}, TRUE, AfterBranch)

\* Mutant: a repository whose poll failed is put back into the cycle.
PollRetried(p) ==
  /\ "unreachable" \in MonFaults
  /\ turn.checks # <<>>
  /\ At(Head(turn.checks), p) /\ Head(turn.checks) \notin RegistryOnly
  /\ turn' = NoTurn /\ left' = left \cup {p}
  /\ UNCHANGED <<alertVars, reg, phase, snap, todo, raised, lost, heard, live>>

\* URLError, a timeout or a body that is not JSON: poll_cycle's handler drops
\* the rest of this repository's checks.
PollFails(p) ==
  /\ "unreachable" \in MonFaults
  /\ turn.checks # <<>>
  /\ At(Head(turn.checks), p) /\ Head(turn.checks) \notin RegistryOnly
  /\ Head(turn.checks) = "workflow" => Explicit # <<>>
  /\ Head(turn.checks) = "branches" => "default" \in ToSet(Branches)
  /\ turn' = NoTurn
  /\ UNCHANGED <<alertVars, reg, phase, snap, left, todo, raised, lost, heard, live>>

-----------------------------------------------------------------------------
(* Raising the alerts a check has earned.                                  *)

_raise_alert ==
  /\ \E k \in todo :
       /\ raise_alert(k)
       /\ todo' = todo \ {k}
       /\ raised' = raised \cup {k}
  /\ UNCHANGED <<reg, phase, snap, left, turn, lost, heard, live>>

\* The line cannot be written (OSError): the exception leaves _poll_repo, and
\* with it go the other alerts of the check and the rest of the turn.
LogFails ==
  /\ "log" \in MonFaults
  /\ todo # {} /\ job = Idle
  /\ todo' = {} /\ turn' = NoTurn
  /\ lost' = lost \cup {k[1] : k \in todo}
  /\ UNCHANGED <<alertVars, reg, phase, snap, left, raised, heard, live>>

-----------------------------------------------------------------------------
(* The registry goes on, and the hub may be restarted.                     *)

\* A heartbeat interval passes; the copy holds the same timestamps.
TimePasses ==
  LET older(rec) == [rec EXCEPT !.beat = IF @ < 2 THEN @ + 1 ELSE 2] IN
  /\ "time" \in Moves
  /\ reg' = [r \in Runner |-> older(reg[r])]
  /\ snap' = [r \in DOMAIN snap |-> older(snap[r])]
  /\ UNCHANGED <<alertVars, phase, left, turn, todo, raised, lost, heard, live>>

\* A heartbeat replaces what the host reports.
heartbeat(r) ==
  /\ "heartbeat" \in Moves /\ reg[r].enrolled
  /\ \E h \in Reports : reg' = [reg EXCEPT ![r].beat = 0, ![r].host = h]
  /\ UNCHANGED <<alertVars, loopVars>>

revoke(r) ==
  /\ "revoke" \in Moves /\ reg[r].enrolled
  /\ reg' = [reg EXCEPT ![r].enrolled = FALSE]
  /\ UNCHANGED <<alertVars, loopVars>>

Restart ==
  /\ "restart" \in MonFaults
  /\ NewNotifier
  /\ phase' = "rest" /\ snap' = <<>> /\ left' = {} /\ turn' = NoTurn
  /\ todo' = {} /\ raised' = {} /\ lost' = {} /\ heard' = {} /\ live' = FALSE
  /\ UNCHANGED reg

DeliverAlert == Deliver /\ UNCHANGED <<reg, loopVars>>
World        == (Close \/ Tick) /\ UNCHANGED <<reg, loopVars>>

LoopStep ==
  \/ StartCycle \/ StartRepo \/ EndCycle
  \/ \E p \in Repo :
       \/ RegistryChecks(p) \/ StatusCheck(p) \/ QueueCheck(p) \/ _watched_branches(p)
       \/ BranchChecks(p) \/ WorkflowChecks(p) \/ Silent(p) \/ PollFails(p)
  \/ _raise_alert \/ LogFails
  \/ DeliverAlert

Next ==
  \/ LoopStep
  \/ World \/ TimePasses \/ Restart
  \/ \E r \in Runner : heartbeat(r) \/ revoke(r)

Spec == MonitorInit /\ [][Next]_vars

\* The thread runs; GitHub, asked the same again and again, sometimes answers.
LoopFairness == WF_vars(LoopStep)
ApiFairness ==
  /\ \A p \in Repo : SF_vars(StatusCheck(p))
  /\ \A k \in Key :
       /\ SF_vars(job.key = k /\ (SearchFinds \/ SearchFindsNone) /\ UNCHANGED <<reg, loopVars>>)
       /\ SF_vars(job.key = k /\ IssueFiled /\ UNCHANGED <<reg, loopVars>>)

FairSpec  == Spec /\ LoopFairness
RobustSpec == Spec /\ LoopFairness /\ ApiFairness

-----------------------------------------------------------------------------
\* What the registry alone knows surfaces in every cycle (img-cycle-03,
\* img-cycle-05, secret-scan-07; the comment of _poll_repo): a rate limit, a
\* refused connection or another repository's failure silences none of it, only
\* a log that cannot be written does.
RegistryAlarms ==
  phase = "rest" => \A r \in DOMAIN snap :
    LET p == RepoOf[r]
        s == snap[r].host.scan
    IN  p \notin lost =>
          /\ ~snap[r].host.image => <<p, "runner_image_missing", r>> \in raised
          /\ snap[r].host.pin => <<p, "image_pin_divergence", "?">> \in raised
          /\ "findings" \in s.states => <<p, "runner_scan_findings", r>> \in raised
          /\ ~s.usable \/ "unscannable" \in s.states
               => <<p, "runner_scan_unknown", r>> \in raised

ClassesOf(c) ==
  CASE c = "status"     -> {"runner_missing", "runner_offline"}
    [] c = "queue"      -> {"queue_stall"}
    [] c = "gates"      -> {"gate_failure"}
    [] c = "drift"      -> {"drift_failed", "drift_overdue"}
    [] c = "workflow"   -> {"coherence_missing", "coherence_failure", "coherence_skipped",
                            "coherence_overdue"}
    [] c = "check_runs" -> {"coherence_absent", "coherence_failure"}

Surfaced(h) == \E k \in raised : k[1] = h[1] /\ k[2] \in ClassesOf(h[2])

\* coh-int-05, default deny: at the end of a cycle every answer that was not a
\* pass has an alert of its repository, even if the turn broke off after it.
NothingDefaultAllows ==
  phase = "rest" => \A h \in heard : h[1] \in lost \/ h[2] = "drift" \/ Surfaced(h)

\* The same of the drift scan: the comment of NON_PASSING_CONCLUSIONS has every
\* conclusion but a pass surface.
DriftNeverDefaultAllows ==
  phase = "rest" => \A h \in heard : h[1] \notin lost /\ h[2] = "drift" => Surfaced(h)

\* A cycle ends whatever GitHub does, so that last_poll_at keeps moving and its
\* standing still means a dead loop (run, note_poll).
CyclesComplete == []<>(phase = "rest")

\* docs/runner-monitor-monitor-hub.md: last_poll_at advancing is proof the API
\* channel is live.
PollProvesApi == phase = "rest" /\ DOMAIN snap # {} => live

Dead(r) == reg[r].enrolled /\ Stale(reg[r])
OfflineKeys(r) == {<<RepoOf[r], c, r>> : c \in {"runner_offline", "runner_missing"}}

\* Some issue of the key was filed; it is open, or somebody has closed it.
IssueOf(k) == \E n \in DOMAIN issues : issues[n].key = k

\* mon-online-01, end to end: a runner that stops sending heartbeats and stays
\* enrolled gets an issue that stays open unless somebody closes it, through
\* refusals, outages and lost answers, if GitHub answers now and then.
DeadRunnerSurfaces ==
  \A r \in Runner : Dead(r) ~> (~Dead(r) \/ \E k \in OfflineKeys(r) : IssueOf(k))

\* mon-channels-01: the heartbeat channel alone is sufficient to detect an
\* offline runner; a line in the alert log would do.
HeartbeatAloneDetects ==
  \A r \in Runner : Dead(r) ~> (~Dead(r) \/ OfflineKeys(r) \cap logged # {})
=============================================================================

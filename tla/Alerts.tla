------------------------------- MODULE Alerts -------------------------------
(***************************************************************************)
(* The alert sink of the hub: GitHubIssueNotifier (src/hub/alerts.py) and  *)
(* the GitHub issues it files and comments on.                             *)
(*                                                                         *)
(* raise_alert runs on the monitor thread, one call at a time, but it      *)
(* makes up to two HTTP requests: search, then comment or file.  Between   *)
(* them people close issues, and each request may be refused (an           *)
(* HTTPError), never arrive (another exception), or arrive with its answer *)
(* lost.  The dedupe cache and the comment stamps are memory only.         *)
(*                                                                         *)
(* Time is kept as ages: how long ago something happened, cut off at       *)
(* Cooldown, after which the code no longer tells ages apart.              *)
(***************************************************************************)
EXTENDS Naturals, Sequences

CONSTANTS
  Key,        \* dedupe keys (repo, check class, runner)
  None,       \* no issue, no key
  Cooldown,   \* comment_cooldown_sec, in ticks
  MaxIssues,  \* bound: issues GitHub ever holds
  Channel,    \* HUB_ALERT_CHANNEL: "github_issue" or "null"
  Faults      \* what may go wrong, a subset of FaultKind

FaultKind == {"search_refused", "refused", "unreachable", "lost", "restart", "close"}

ASSUME AlertsAssumption ==
  /\ None \notin Key \cup Nat
  /\ Cooldown \in Nat \ {0}
  /\ MaxIssues \in Nat
  /\ Channel \in {"github_issue", "null"}
  /\ Faults \subseteq FaultKind

VARIABLES
  issues,  \* GitHub: the issues filed, in order
  cache,   \* _open_issues
  last,    \* _last_comment, as an age
  logged,  \* the keys with a line in the JSONL log
  job      \* the call of raise_alert in progress

alertVars == <<issues, cache, last, logged, job>>

IssueType == [key: Key, open: BOOLEAN, age: 0..Cooldown]
JobType   == [at: {"idle", "find", "comment", "file"}, key: Key \cup {None}, age: 0..Cooldown]
Idle      == [at |-> "idle", key |-> None, age |-> 0]

AlertsTypeOK ==
  /\ issues \in Seq(IssueType) /\ Len(issues) <= MaxIssues
  /\ cache \in [Key -> DOMAIN issues \cup {None}]
  /\ last \in [Key -> 0..Cooldown]
  /\ logged \subseteq Key
  /\ job \in JobType

AlertsInit ==
  /\ issues = <<>>
  /\ cache = [k \in Key |-> None]
  /\ last = [k \in Key |-> Cooldown]
  /\ logged = {}
  /\ job = Idle

OpenIssues(k) == {n \in DOMAIN issues : issues[n].key = k /\ issues[n].open}

\* _last_comment.get(key) is recent: the recurrence is not posted.
Cooling(k) == last[k] < Cooldown

\* An issue number is in hand: comment on it, unless the key is cooling down.
Recur(k) == job' = IF Cooling(k) THEN Idle ELSE [at |-> "comment", key |-> k, age |-> 0]

-----------------------------------------------------------------------------
\* raise_alert up to its first request.  The line is written first, whatever
\* becomes of the delivery; a cached issue saves the search.
raise_alert(k) ==
  /\ job = Idle
  /\ logged' = logged \cup {k}
  /\ CASE Channel = "null"   -> job' = Idle
       [] cache[k] # None    -> Recur(k)
       [] OTHER              -> job' = [at |-> "find", key |-> k, age |-> 0]
  /\ UNCHANGED <<issues, cache, last>>

\* The search of _find_open_issue: it answers with an open issue of the title
\* if there is one, and a refusal reads as "there is none".
SearchFinds ==
  /\ job.at = "find"
  /\ \E n \in OpenIssues(job.key) : cache' = [cache EXCEPT ![job.key] = n]
  /\ Recur(job.key)
  /\ UNCHANGED <<issues, last, logged>>

SearchFindsNone ==
  /\ job.at = "find"
  /\ OpenIssues(job.key) = {} \/ "search_refused" \in Faults
  /\ job' = [job EXCEPT !.at = "file"]
  /\ UNCHANGED <<issues, cache, last, logged>>

\* GitHub takes a comment on an issue whether it is open or closed.
Commented(n) == issues' = [issues EXCEPT ![n].age = 0]

CommentPosted ==
  /\ job.at = "comment"
  /\ Commented(cache[job.key])
  /\ last' = [last EXCEPT ![job.key] = job.age]
  /\ job' = Idle
  /\ UNCHANGED <<cache, logged>>

\* Mutant: the cooldown starts whether or not the comment was posted.
RefusalStartsCooldown ==
  /\ "refused" \in Faults
  /\ job.at = "comment"
  /\ cache' = [cache EXCEPT ![job.key] = None]
  /\ last' = [last EXCEPT ![job.key] = job.age]
  /\ job' = Idle
  /\ UNCHANGED <<issues, logged>>

CommentRefused ==
  /\ "refused" \in Faults
  /\ job.at = "comment"
  /\ cache' = [cache EXCEPT ![job.key] = None]
  /\ job' = Idle
  /\ UNCHANGED <<issues, last, logged>>

Filed == issues' = Append(issues, [key |-> job.key, open |-> TRUE, age |-> 0])

IssueFiled ==
  /\ job.at = "file"
  /\ Len(issues) < MaxIssues
  /\ Filed
  /\ cache' = [cache EXCEPT ![job.key] = Len(issues) + 1]
  /\ job' = Idle
  /\ UNCHANGED <<last, logged>>

FilingRefused ==
  /\ "refused" \in Faults
  /\ job.at = "file"
  /\ job' = Idle
  /\ UNCHANGED <<issues, cache, last, logged>>

\* Mutant: an unreachable search reads as one that finds nothing.
UnreachableFindsNone ==
  /\ "unreachable" \in Faults
  /\ job.at # "idle"
  /\ job' = IF job.at = "find" THEN [job EXCEPT !.at = "file"] ELSE Idle
  /\ UNCHANGED <<issues, cache, last, logged>>

\* Any other exception ends the call in the handler that keeps the hub alive:
\* the request never arrived, or it did and only the answer is missing.
Unreachable ==
  /\ "unreachable" \in Faults
  /\ job.at # "idle"
  /\ job' = Idle
  /\ UNCHANGED <<issues, cache, last, logged>>

AnswerLost ==
  /\ "lost" \in Faults
  /\ \/ job.at = "comment" /\ Commented(cache[job.key])
     \/ job.at = "file" /\ Len(issues) < MaxIssues /\ Filed
  /\ job' = Idle
  /\ UNCHANGED <<cache, last, logged>>

Deliver ==
  \/ SearchFinds \/ SearchFindsNone
  \/ CommentPosted \/ CommentRefused
  \/ IssueFiled \/ FilingRefused
  \/ Unreachable \/ AnswerLost

-----------------------------------------------------------------------------
\* Someone closes an issue.
Close ==
  /\ "close" \in Faults
  /\ \E n \in DOMAIN issues :
       /\ issues[n].open
       /\ issues' = [issues EXCEPT ![n].open = FALSE]
  /\ UNCHANGED <<cache, last, logged, job>>

Older(a) == IF a < Cooldown THEN a + 1 ELSE a

Tick ==
  /\ issues' = [n \in DOMAIN issues |-> [issues[n] EXCEPT !.age = Older(@)]]
  /\ last' = [k \in Key |-> Older(last[k])]
  /\ job' = IF job.at = "comment" THEN [job EXCEPT !.age = Older(@)] ELSE job
  /\ UNCHANGED <<cache, logged>>

\* The hub is restarted: a new notifier, the log and the issues remain.
NewNotifier ==
  /\ cache' = [k \in Key |-> None]
  /\ last' = [k \in Key |-> Cooldown]
  /\ job' = Idle
  /\ UNCHANGED <<issues, logged>>

AlertsRestart == "restart" \in Faults /\ NewNotifier

AlertsNext ==
  \/ \E k \in Key : raise_alert(k)
  \/ Deliver
  \/ Close
  \/ Tick
  \/ AlertsRestart

AlertsSpec == AlertsInit /\ [][AlertsNext]_alertVars

-----------------------------------------------------------------------------
\* One open issue per key (alerts.py, module comment): whatever is lost,
\* refused, restarted or closed by hand, and as long as a search that fails is
\* not one that finds nothing, the notifier never opens a second issue beside
\* an open one.
OneOpenIssue == \A k \in Key : \A m, n \in OpenIssues(k) : m = n

\* A recurrence is only suppressed when the issue it would go to really got a
\* comment within the cooldown: a failed comment does not buy an hour of
\* silence (_comment_on_issue), and neither does a comment on another issue.
SuppressionIsEarned ==
  \A k \in Key : cache[k] # None /\ Cooling(k) =>
    LET i == issues[cache[k]] IN i.key = k /\ i.age <= last[k]
=============================================================================

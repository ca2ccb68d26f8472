--------------------------- MODULE MonitorProofs ---------------------------
(***************************************************************************)
(* Proofs about the monitor: the alert sink, for every set of keys, every  *)
(* cooldown and every combination of faults; the watchdog, for every       *)
(* configuration of interval, timeout and grace period; and the polling    *)
(* loop on top of the sink, for every fleet, every list of watched         *)
(* branches and every combination of faults.                               *)
(***************************************************************************)
EXTENDS Monitor, Watchdog, TLAPS

-----------------------------------------------------------------------------
(* The alert sink.                                                         *)

\* What the calls in progress know: a call that files has seen no open issue,
\* one that comments has a cached issue and no cooldown running, and only a
\* call without a cached issue searches or files.
JobKnows ==
  /\ job.at # "idle" => job.key \in Key
  /\ job.at \in {"find", "file"} => cache[job.key] = None
  /\ job.at = "comment" => cache[job.key] # None /\ last[job.key] = Cooldown

NothingOpenWhenFiling == job.at = "file" => OpenIssues(job.key) = {}

\* The cache names issues of its own key, and a key without a cached issue is
\* not cooling down: only a failed comment drops an entry, and comments are
\* only tried after the cooldown.
CacheKnows ==
  \A k \in Key : IF cache[k] = None THEN last[k] = Cooldown
                                    ELSE issues[cache[k]].key = k

SInv == AlertsTypeOK /\ JobKnows /\ CacheKnows /\ SuppressionIsEarned
OInv == NothingOpenWhenFiling /\ OneOpenIssue

\* A new issue joins the sequence and leaves the others where they were.
LEMMA FiledFacts ==
  ASSUME AlertsTypeOK, Filed, job.key \in Key, Len(issues) < MaxIssues
  PROVE  /\ issues' \in Seq(IssueType)
         /\ Len(issues') = Len(issues) + 1
         /\ DOMAIN issues' = DOMAIN issues \cup {Len(issues) + 1}
         /\ \A n \in DOMAIN issues : issues'[n] = issues[n]
         /\ issues'[Len(issues) + 1] = [key |-> job.key, open |-> TRUE, age |-> 0]
<1>1. [key |-> job.key, open |-> TRUE, age |-> 0] \in IssueType
  BY AlertsAssumption DEF IssueType
<1>2. issues \in Seq(IssueType)  BY DEF AlertsTypeOK
<1> QED BY <1>1, <1>2 DEF Filed

\* A comment changes the age of one issue and nothing else.
LEMMA CommentedFacts ==
  ASSUME AlertsTypeOK, NEW n \in DOMAIN issues, Commented(n)
  PROVE  /\ issues' \in Seq(IssueType)
         /\ Len(issues') = Len(issues)
         /\ DOMAIN issues' = DOMAIN issues
         /\ \A m \in DOMAIN issues : /\ issues'[m].key = issues[m].key
                                     /\ issues'[m].open = issues[m].open
                                     /\ m # n => issues'[m].age = issues[m].age
         /\ issues'[n].age = 0
<1>1. issues \in Seq(IssueType)  BY DEF AlertsTypeOK
<1>2. \A m \in DOMAIN issues : issues[m] \in IssueType  BY <1>1
<1>3. [issues[n] EXCEPT !.age = 0] \in IssueType  BY <1>2, AlertsAssumption DEF IssueType
<1>4. issues' = [issues EXCEPT ![n] = [issues[n] EXCEPT !.age = 0]]  BY DEF Commented
<1>5. /\ issues' \in Seq(IssueType) /\ Len(issues') = Len(issues) /\ DOMAIN issues' = DOMAIN issues
      /\ issues'[n] = [issues[n] EXCEPT !.age = 0]
      /\ \A m \in DOMAIN issues : m # n => issues'[m] = issues[m]
  BY <1>1, <1>3, <1>4
<1> QED BY <1>2, <1>5 DEF IssueType

\* Closing changes whether one issue is open and nothing else.
LEMMA CloseFacts ==
  ASSUME AlertsTypeOK, Close
  PROVE  /\ issues' \in Seq(IssueType)
         /\ Len(issues') = Len(issues)
         /\ DOMAIN issues' = DOMAIN issues
         /\ \A m \in DOMAIN issues : /\ issues'[m].key = issues[m].key
                                     /\ issues'[m].age = issues[m].age
                                     /\ issues'[m].open => issues[m].open
<1>1. PICK n \in DOMAIN issues : issues' = [issues EXCEPT ![n].open = FALSE]  BY DEF Close
<1>2. issues \in Seq(IssueType)  BY DEF AlertsTypeOK
<1>3. \A m \in DOMAIN issues : issues[m] \in IssueType  BY <1>2
<1>4. [issues[n] EXCEPT !.open = FALSE] \in IssueType  BY <1>3 DEF IssueType
<1>5. issues' = [issues EXCEPT ![n] = [issues[n] EXCEPT !.open = FALSE]]  BY <1>1
<1>6. /\ issues' \in Seq(IssueType) /\ Len(issues') = Len(issues) /\ DOMAIN issues' = DOMAIN issues
      /\ issues'[n] = [issues[n] EXCEPT !.open = FALSE]
      /\ \A m \in DOMAIN issues : m # n => issues'[m] = issues[m]
  BY <1>2, <1>4, <1>5
<1> QED BY <1>3, <1>6 DEF IssueType

\* Time makes ages older by one, up to the cooldown.
LEMMA TickFacts ==
  ASSUME AlertsTypeOK, Tick
  PROVE  /\ issues' \in Seq(IssueType)
         /\ Len(issues') = Len(issues)
         /\ DOMAIN issues' = DOMAIN issues
         /\ \A m \in DOMAIN issues : /\ issues'[m].key = issues[m].key
                                     /\ issues'[m].age = Older(issues[m].age)
                                     /\ issues'[m].open = issues[m].open
         /\ last' \in [Key -> 0..Cooldown]
         /\ \A k \in Key : last'[k] = Older(last[k])
<1>1. issues \in Seq(IssueType) /\ last \in [Key -> 0..Cooldown]  BY DEF AlertsTypeOK
<1>2. \A m \in DOMAIN issues : issues[m] \in IssueType  BY <1>1
<1>3. \A a \in 0..Cooldown : Older(a) \in 0..Cooldown  BY AlertsAssumption DEF Older
<1>4. \A m \in DOMAIN issues : issues[m].age \in 0..Cooldown  BY <1>2 DEF IssueType
<1>5. \A m \in DOMAIN issues : [issues[m] EXCEPT !.age = Older(issues[m].age)] \in IssueType
  BY <1>2, <1>3, <1>4 DEF IssueType
<1>6. issues' = [m \in DOMAIN issues |-> [issues[m] EXCEPT !.age = Older(issues[m].age)]]
  BY DEF Tick
<1>7. DOMAIN issues = 1..Len(issues) /\ Len(issues) \in Nat  BY <1>1
<1>8. issues' \in Seq(IssueType) /\ Len(issues') = Len(issues) /\ DOMAIN issues' = DOMAIN issues
  BY <1>5, <1>6, <1>7
<1>9. \A m \in DOMAIN issues : issues'[m] = [issues[m] EXCEPT !.age = Older(issues[m].age)]
  BY <1>6
<1>10. \A k \in Key : last'[k] = Older(last[k])  BY DEF Tick
<1>11. last' \in [Key -> 0..Cooldown]  BY <1>1, <1>3 DEF Tick
<1> QED BY <1>2, <1>8, <1>9, <1>10, <1>11 DEF IssueType

-----------------------------------------------------------------------------
\* The parts of SInv, of the next state.
LEMMA SInvInductive == SInv /\ [AlertsNext]_alertVars => SInv'
<1> SUFFICES ASSUME SInv, [AlertsNext]_alertVars PROVE SInv'
  OBVIOUS
<1> USE DEF SInv
<1>t. /\ issues \in Seq(IssueType) /\ Len(issues) <= MaxIssues
      /\ cache \in [Key -> DOMAIN issues \cup {None}]
      /\ last \in [Key -> 0..Cooldown]
      /\ logged \subseteq Key
      /\ job \in JobType
      /\ DOMAIN issues = 1..Len(issues) /\ Len(issues) \in Nat
  BY DEF AlertsTypeOK
<1>i. Idle \in JobType /\ Idle.at = "idle"  BY AlertsAssumption DEF Idle, JobType
<1>n. \A n \in Nat : n # None  BY AlertsAssumption
<1>1. ASSUME NEW k \in Key, raise_alert(k) PROVE SInv'
  <2>1. /\ logged' \subseteq Key /\ UNCHANGED <<issues, cache, last>>
    BY <1>1, <1>t DEF raise_alert
  <2>2. /\ job' \in JobType
        /\ job'.at # "idle" => job'.key \in Key
        /\ job'.at \in {"find", "file"} => cache[job'.key] = None
        /\ job'.at = "comment" => cache[job'.key] # None /\ last[job'.key] = Cooldown
    <3>1. CASE job' = Idle  BY <3>1, <1>i
    <3>2. CASE job' = [at |-> "find", key |-> k, age |-> 0] /\ cache[k] = None
      BY <3>2, AlertsAssumption DEF JobType
    <3>3. CASE job' = [at |-> "comment", key |-> k, age |-> 0] /\ cache[k] # None /\ ~Cooling(k)
      BY <3>3, <1>t, AlertsAssumption DEF JobType, Cooling
    <3> QED BY <3>1, <3>2, <3>3, <1>1 DEF raise_alert, Recur
  <2> QED BY <2>1, <2>2, <1>t DEF AlertsTypeOK, JobKnows, CacheKnows, SuppressionIsEarned, Cooling
<1>2. CASE SearchFinds
  <2>1. PICK n \in OpenIssues(job.key) : cache' = [cache EXCEPT ![job.key] = n]
    BY <1>2 DEF SearchFinds
  <2>2. job.key \in Key  BY <1>2 DEF SearchFinds, JobKnows
  <2>3. n \in DOMAIN issues /\ issues[n].key = job.key /\ n # None
    BY <2>1, <1>t, <1>n DEF OpenIssues
  <2>4. UNCHANGED <<issues, last, logged>>  BY <1>2 DEF SearchFinds
  <2>5. cache' \in [Key -> DOMAIN issues \cup {None}]  BY <2>1, <2>2, <2>3, <1>t
  <2>6. cache'[job.key] = n /\ \A k \in Key : k # job.key => cache'[k] = cache[k]
    BY <2>1, <2>2, <1>t
  <2>7. /\ job' \in JobType
        /\ job'.at # "idle" => job'.key \in Key
        /\ job'.at \notin {"find", "file"}
        /\ job'.at = "comment" => cache'[job'.key] # None /\ last[job'.key] = Cooldown
    <3>1. CASE job' = Idle  BY <3>1, <1>i
    <3>2. CASE job' = [at |-> "comment", key |-> job.key, age |-> 0] /\ ~Cooling(job.key)
      BY <3>2, <2>2, <2>3, <2>6, <1>t, AlertsAssumption DEF JobType, Cooling
    <3> QED BY <3>1, <3>2, <1>2 DEF SearchFinds, Recur
  <2>8. \A k \in Key : cache'[k] # None /\ last[k] < Cooldown =>
          issues[cache'[k]].key = k /\ issues[cache'[k]].age <= last[k]
    <3> SUFFICES ASSUME NEW k \in Key, cache'[k] # None, last[k] < Cooldown
                 PROVE  issues[cache'[k]].key = k /\ issues[cache'[k]].age <= last[k]
      OBVIOUS
    <3>1. CASE k # job.key  BY <3>1, <2>6 DEF SuppressionIsEarned, Cooling
    <3>2. CASE k = job.key
      <4>1. cache[k] = None  BY <3>2, <1>2 DEF SearchFinds, JobKnows
      <4> QED BY <4>1, <1>t, AlertsAssumption DEF CacheKnows
    <3> QED BY <3>1, <3>2
  <2>9. CacheKnows'  BY <2>3, <2>4, <2>6 DEF CacheKnows
  <2> QED BY <2>4, <2>5, <2>7, <2>8, <2>9, <1>t DEF AlertsTypeOK, JobKnows, CacheKnows, SuppressionIsEarned, Cooling
<1>3. CASE SearchFindsNone
  BY <1>3, <1>t DEF SearchFindsNone, AlertsTypeOK, JobKnows, CacheKnows, SuppressionIsEarned, Cooling, JobType
<1>4. CASE CommentPosted
  <2> DEFINE n == cache[job.key]
  <2>1. job.key \in Key /\ n # None  BY <1>4 DEF CommentPosted, JobKnows
  <2>2. n \in DOMAIN issues  BY <2>1, <1>t
  <2>3. job.age \in 0..Cooldown  BY <1>t DEF JobType
  <2>4. /\ UNCHANGED <<cache, logged>> /\ job' = Idle
        /\ last' = [last EXCEPT ![job.key] = job.age] /\ Commented(n)
    BY <1>4 DEF CommentPosted
  <2>5. /\ issues' \in Seq(IssueType) /\ Len(issues') = Len(issues) /\ DOMAIN issues' = DOMAIN issues
        /\ \A m \in DOMAIN issues : issues'[m].key = issues[m].key
        /\ \A m \in DOMAIN issues : m # n => issues'[m].age = issues[m].age
        /\ issues'[n].age = 0
    BY <2>2, <2>4, CommentedFacts
  <2>6. /\ last' \in [Key -> 0..Cooldown] /\ last'[job.key] = job.age
        /\ \A k \in Key : k # job.key => last'[k] = last[k]
    BY <2>1, <2>3, <2>4, <1>t
  <2>7. CacheKnows'
    <3> SUFFICES ASSUME NEW k \in Key
                 PROVE IF cache[k] = None THEN last'[k] = Cooldown ELSE issues'[cache[k]].key = k
      BY <2>4 DEF CacheKnows
    <3>1. CASE cache[k] = None  BY <3>1, <2>1, <2>6 DEF CacheKnows
    <3>2. CASE cache[k] # None  BY <3>2, <1>t, <2>5 DEF CacheKnows
    <3> QED BY <3>1, <3>2
  <2>8. SuppressionIsEarned'
    <3> SUFFICES ASSUME NEW k \in Key, cache[k] # None, last'[k] < Cooldown
                 PROVE issues'[cache[k]].key = k /\ issues'[cache[k]].age <= last'[k]
      BY <2>4 DEF SuppressionIsEarned, Cooling
    <3>1. cache[k] \in DOMAIN issues /\ issues[cache[k]].key = k  BY <1>t DEF CacheKnows
    <3>2. issues'[cache[k]].key = k  BY <3>1, <2>5
    <3>3. CASE cache[k] = n  BY <3>2, <3>3, <2>5, <2>6, <2>3
    <3>4. CASE cache[k] # n
      <4>1. k # job.key  BY <3>4
      <4>2. issues[cache[k]].age <= last[k]  BY <4>1, <2>6 DEF SuppressionIsEarned, Cooling
      <4> QED BY <4>1, <4>2, <3>1, <3>2, <3>4, <2>5, <2>6
    <3> QED BY <3>3, <3>4
  <2>9. JobKnows'  BY <2>4, <1>i DEF JobKnows
  <2> QED BY <2>4, <2>5, <2>6, <2>7, <2>8, <2>9, <1>t, <1>i DEF AlertsTypeOK
<1>5. CASE CommentRefused
  <2>1. job.key \in Key /\ last[job.key] = Cooldown  BY <1>5 DEF CommentRefused, JobKnows
  <2>2. /\ UNCHANGED <<issues, last, logged>> /\ job' = Idle
        /\ cache' = [cache EXCEPT ![job.key] = None]
    BY <1>5 DEF CommentRefused
  <2>3. /\ cache' \in [Key -> DOMAIN issues \cup {None}] /\ cache'[job.key] = None
        /\ \A k \in Key : k # job.key => cache'[k] = cache[k]
    BY <2>1, <2>2, <1>t
  <2>4. JobKnows'  BY <2>2, <1>i DEF JobKnows
  <2>5. CacheKnows'  BY <2>1, <2>2, <2>3 DEF CacheKnows
  <2>6. SuppressionIsEarned'  BY <2>2, <2>3 DEF SuppressionIsEarned, Cooling
  <2> QED BY <2>2, <2>3, <2>4, <2>5, <2>6, <1>t, <1>i DEF AlertsTypeOK
<1>6. CASE IssueFiled
  <2> DEFINE n == Len(issues) + 1
  <2>1. /\ job.key \in Key /\ cache[job.key] = None /\ last[job.key] = Cooldown
    BY <1>6 DEF IssueFiled, JobKnows, CacheKnows
  <2>2. /\ UNCHANGED <<last, logged>> /\ job' = Idle /\ Filed /\ Len(issues) < MaxIssues
        /\ cache' = [cache EXCEPT ![job.key] = n]
    BY <1>6 DEF IssueFiled
  <2>3. /\ issues' \in Seq(IssueType) /\ Len(issues') = n
        /\ DOMAIN issues' = DOMAIN issues \cup {n}
        /\ \A m \in DOMAIN issues : issues'[m] = issues[m]
        /\ issues'[n].key = job.key
    BY <2>1, <2>2, FiledFacts
  <2>4. n # None  BY <1>t, <1>n
  <2>5. /\ cache' \in [Key -> DOMAIN issues' \cup {None}] /\ cache'[job.key] = n
        /\ \A k \in Key : k # job.key => cache'[k] = cache[k]
    BY <2>1, <2>2, <2>3, <1>t
  <2>6. JobKnows'  BY <2>2, <1>i DEF JobKnows
  <2>7. CacheKnows'  BY <2>2, <2>3, <2>4, <2>5, <1>t DEF CacheKnows
  <2>8. SuppressionIsEarned'
    <3> SUFFICES ASSUME NEW k \in Key, cache'[k] # None, last[k] < Cooldown
                 PROVE issues'[cache'[k]].key = k /\ issues'[cache'[k]].age <= last[k]
      BY <2>2 DEF SuppressionIsEarned, Cooling
    <3>1. k # job.key  BY <2>1, AlertsAssumption
    <3> QED BY <3>1, <2>3, <2>5, <1>t DEF SuppressionIsEarned, Cooling
  <2>9. Len(issues') <= MaxIssues  BY <2>2, <2>3, <1>t, AlertsAssumption
  <2> QED BY <2>2, <2>3, <2>5, <2>6, <2>7, <2>8, <2>9, <1>t, <1>i DEF AlertsTypeOK
<1>7. CASE FilingRefused \/ Unreachable
  BY <1>7, <1>t, <1>i DEF FilingRefused, Unreachable, AlertsTypeOK, JobKnows, CacheKnows, SuppressionIsEarned, Cooling
<1>8. CASE AnswerLost
  <2>1. /\ UNCHANGED <<cache, last, logged>> /\ job' = Idle
    BY <1>8 DEF AnswerLost
  <2>2. JobKnows'  BY <2>1, <1>i DEF JobKnows
  <2>3. CASE job.at = "comment" /\ Commented(cache[job.key])
    <3>1. cache[job.key] \in DOMAIN issues  BY <2>3, <1>t DEF JobKnows
    <3>2. /\ issues' \in Seq(IssueType) /\ Len(issues') = Len(issues) /\ DOMAIN issues' = DOMAIN issues
          /\ \A m \in DOMAIN issues : /\ issues'[m].key = issues[m].key
                                      /\ \/ issues'[m].age = issues[m].age
                                         \/ issues'[m].age = 0
      BY <3>1, <2>3, CommentedFacts
    <3>3. CacheKnows'  BY <2>1, <3>2, <1>t DEF CacheKnows
    <3>4. SuppressionIsEarned'
      BY <2>1, <3>2, <1>t, AlertsAssumption, SMTT(30) DEF SuppressionIsEarned, Cooling
    <3> QED BY <2>1, <2>2, <3>2, <3>3, <3>4, <1>t, <1>i DEF AlertsTypeOK
  <2>4. CASE job.at = "file" /\ Len(issues) < MaxIssues /\ Filed
    <3>1. job.key \in Key  BY <2>4 DEF JobKnows
    <3>2. /\ issues' \in Seq(IssueType) /\ Len(issues') = Len(issues) + 1
          /\ DOMAIN issues \subseteq DOMAIN issues'
          /\ \A m \in DOMAIN issues : issues'[m] = issues[m]
      BY <3>1, <2>4, FiledFacts
    <3>3. CacheKnows'  BY <2>1, <3>2, <1>t DEF CacheKnows
    <3>4. SuppressionIsEarned'  BY <2>1, <3>2, <1>t DEF SuppressionIsEarned, Cooling
    <3>5. Len(issues') <= MaxIssues  BY <2>4, <3>2, <1>t, AlertsAssumption
    <3>6. cache' \in [Key -> DOMAIN issues' \cup {None}]  BY <2>1, <3>2, <1>t
    <3> QED BY <2>1, <2>2, <3>2, <3>3, <3>4, <3>5, <3>6, <1>t, <1>i DEF AlertsTypeOK
  <2> QED BY <2>3, <2>4, <1>8 DEF AnswerLost
<1>9. CASE Close
  <2>1. UNCHANGED <<cache, last, logged, job>>  BY <1>9 DEF Close
  <2>2. /\ issues' \in Seq(IssueType) /\ Len(issues') = Len(issues) /\ DOMAIN issues' = DOMAIN issues
        /\ \A m \in DOMAIN issues : issues'[m].key = issues[m].key /\ issues'[m].age = issues[m].age
    BY <1>9, CloseFacts
  <2>3. CacheKnows'  BY <2>1, <2>2, <1>t DEF CacheKnows
  <2>4. SuppressionIsEarned'  BY <2>1, <2>2, <1>t DEF SuppressionIsEarned, Cooling
  <2> QED BY <2>1, <2>2, <2>3, <2>4, <1>t DEF AlertsTypeOK, JobKnows
<1>10. CASE Tick
  <2>1. UNCHANGED <<cache, logged>>  BY <1>10 DEF Tick
  <2>2. /\ issues' \in Seq(IssueType) /\ Len(issues') = Len(issues) /\ DOMAIN issues' = DOMAIN issues
        /\ \A m \in DOMAIN issues : /\ issues'[m].key = issues[m].key
                                    /\ issues'[m].age = Older(issues[m].age)
        /\ last' \in [Key -> 0..Cooldown]
        /\ \A k \in Key : last'[k] = Older(last[k])
    BY <1>10, TickFacts
  <2>3. \A a, b \in 0..Cooldown : a <= b => Older(a) <= Older(b)  BY AlertsAssumption DEF Older
  <2>4. Older(Cooldown) = Cooldown /\ \A a \in 0..Cooldown : Older(a) < Cooldown => a < Cooldown
    BY AlertsAssumption DEF Older
  <2>5. /\ job' \in JobType /\ job'.at = job.at /\ job'.key = job.key
    <3>1. Older(job.age) \in 0..Cooldown /\ job.age \in 0..Cooldown
      BY <1>t, AlertsAssumption DEF Older, JobType
    <3>2. [job EXCEPT !.age = Older(job.age)] \in JobType  BY <3>1, <1>t DEF JobType
    <3>3. CASE job.at = "comment"
      <4>1. job' = [job EXCEPT !.age = Older(job.age)]  BY <3>3, <1>10 DEF Tick
      <4> QED BY <4>1, <3>2, <1>t DEF JobType
    <3>4. CASE job.at # "comment"
      <4>1. job' = job  BY <3>4, <1>10 DEF Tick
      <4> QED BY <4>1, <1>t
    <3> QED BY <3>3, <3>4
  <2>6. JobKnows'
    <3>1. job.at = "comment" => last'[job.key] = Cooldown  BY <2>2, <2>4 DEF JobKnows
    <3> QED BY <3>1, <2>1, <2>5 DEF JobKnows
  <2>7. CacheKnows'  BY <2>1, <2>2, <2>4, <1>t DEF CacheKnows
  <2>8. SuppressionIsEarned'
    <3> SUFFICES ASSUME NEW k \in Key, cache[k] # None, last'[k] < Cooldown
                 PROVE issues'[cache[k]].key = k /\ issues'[cache[k]].age <= last'[k]
      BY <2>1 DEF SuppressionIsEarned, Cooling
    <3>1. last[k] \in 0..Cooldown /\ last[k] < Cooldown  BY <2>2, <2>4, <1>t
    <3>2. cache[k] \in DOMAIN issues  BY <1>t
    <3>3. issues[cache[k]].key = k /\ issues[cache[k]].age <= last[k]
      BY <3>1 DEF SuppressionIsEarned, Cooling
    <3>4. issues[cache[k]].age \in 0..Cooldown
      <4>1. issues[cache[k]] \in IssueType  BY <3>2, <1>t
      <4> QED BY <4>1 DEF IssueType
    <3> QED BY <3>1, <3>2, <3>3, <3>4, <2>2, <2>3
  <2> QED BY <2>1, <2>2, <2>5, <2>6, <2>7, <2>8, <1>t DEF AlertsTypeOK
<1>11. CASE AlertsRestart
  <2>1. /\ UNCHANGED <<issues, logged>> /\ job' = Idle
        /\ cache' = [k \in Key |-> None] /\ last' = [k \in Key |-> Cooldown]
    BY <1>11 DEF AlertsRestart, NewNotifier
  <2>2. last' \in [Key -> 0..Cooldown] /\ cache' \in [Key -> DOMAIN issues \cup {None}]
    BY <2>1, AlertsAssumption
  <2> QED BY <2>1, <2>2, <1>t, <1>i
          DEF AlertsTypeOK, JobKnows, CacheKnows, SuppressionIsEarned, Cooling
<1>12. CASE UNCHANGED alertVars
  BY <1>12 DEF alertVars, AlertsTypeOK, JobKnows, CacheKnows, SuppressionIsEarned, Cooling
<1> QED BY <1>1, <1>2, <1>3, <1>4, <1>5, <1>6, <1>7, <1>8, <1>9, <1>10, <1>11, <1>12
        DEF AlertsNext, Deliver

LEMMA SInvInit == AlertsInit => SInv
<1> SUFFICES ASSUME AlertsInit PROVE SInv
  OBVIOUS
<1>1. /\ issues = <<>> /\ logged = {} /\ job = Idle
      /\ cache = [k \in Key |-> None] /\ last = [k \in Key |-> Cooldown]
  BY DEF AlertsInit
<1>2. Idle \in JobType /\ Idle.at = "idle"  BY AlertsAssumption DEF Idle, JobType
<1>3. issues \in Seq(IssueType) /\ Len(issues) <= MaxIssues  BY <1>1, AlertsAssumption
<1>4. last \in [Key -> 0..Cooldown] /\ cache \in [Key -> DOMAIN issues \cup {None}]
  BY <1>1, AlertsAssumption
<1> QED BY <1>1, <1>2, <1>3, <1>4
        DEF SInv, AlertsTypeOK, JobKnows, CacheKnows, SuppressionIsEarned, Cooling

\* Whatever is refused, lost, unreachable, closed or restarted, a recurrence is
\* only suppressed on an issue that really got a comment within the cooldown
\* (raise_alert, _comment_on_issue).
THEOREM Suppression == AlertsSpec => []SuppressionIsEarned
<1>1. SInv => SuppressionIsEarned  BY DEF SInv
<1> QED BY <1>1, SInvInit, SInvInductive, PTL DEF AlertsSpec

\* The alert sink keeps its types, the cached numbers among them: a cached
\* number is one of an issue that exists (raise_alert, _file_issue).
THEOREM AlertsTypeCorrect == AlertsSpec => []AlertsTypeOK
<1>1. SInv => AlertsTypeOK  BY DEF SInv
<1> QED BY <1>1, SInvInit, SInvInductive, PTL DEF AlertsSpec

-----------------------------------------------------------------------------
\* Steps that open nothing keep every key at one open issue.
LEMMA NothingOpens ==
  ASSUME OneOpenIssue, DOMAIN issues' = DOMAIN issues,
         \A m \in DOMAIN issues : issues'[m].key = issues[m].key /\ (issues'[m].open => issues[m].open)
  PROVE  OneOpenIssue' /\ \A k \in Key : OpenIssues(k)' \subseteq OpenIssues(k)
BY DEF OneOpenIssue, OpenIssues

LEMMA OInvInductive ==
  ASSUME "search_refused" \notin Faults
  PROVE  SInv /\ OInv /\ [AlertsNext]_alertVars => OInv'
<1> SUFFICES ASSUME SInv, OInv, [AlertsNext]_alertVars PROVE OInv'
  OBVIOUS
<1> USE DEF OInv
<1>t. AlertsTypeOK /\ JobKnows  BY DEF SInv
<1>i. Idle.at = "idle"  BY DEF Idle
<1>d. DOMAIN issues = 1..Len(issues) /\ Len(issues) \in Nat  BY <1>t DEF AlertsTypeOK
<1>1. CASE issues' = issues /\ job'.at # "file"
  BY <1>1 DEF NothingOpenWhenFiling, OneOpenIssue, OpenIssues
<1>2. CASE SearchFindsNone
  <2>1. issues' = issues /\ job'.key = job.key /\ OpenIssues(job.key) = {}
    BY <1>2, <1>t DEF SearchFindsNone, AlertsTypeOK, JobType
  <2> QED BY <2>1 DEF NothingOpenWhenFiling, OneOpenIssue, OpenIssues
<1>3. ASSUME job.at = "comment", Commented(cache[job.key]), job' = Idle PROVE OInv'
  <2>1. cache[job.key] \in DOMAIN issues  BY <1>3, <1>t DEF JobKnows, AlertsTypeOK
  <2>2. /\ DOMAIN issues' = DOMAIN issues
        /\ \A m \in DOMAIN issues : issues'[m].key = issues[m].key /\ issues'[m].open = issues[m].open
    BY <2>1, <1>3, <1>t, CommentedFacts
  <2>3. OneOpenIssue'  BY <2>2, NothingOpens
  <2> QED BY <2>3, <1>3, <1>i DEF NothingOpenWhenFiling
<1>4. ASSUME job.at = "file", Filed, Len(issues) < MaxIssues, job' = Idle PROVE OInv'
  <2>1. job.key \in Key /\ OpenIssues(job.key) = {}
    BY <1>4, <1>t DEF JobKnows, NothingOpenWhenFiling
  <2>2. /\ DOMAIN issues' = DOMAIN issues \cup {Len(issues) + 1}
        /\ \A m \in DOMAIN issues : issues'[m] = issues[m]
        /\ issues'[Len(issues) + 1].key = job.key
    BY <2>1, <1>4, <1>t, FiledFacts
  <2>3. OneOpenIssue'
    <3> SUFFICES ASSUME NEW k \in Key, NEW m \in OpenIssues(k)', NEW n \in OpenIssues(k)'
                 PROVE  m = n
      BY DEF OneOpenIssue
    <3>1. /\ m \in DOMAIN issues' /\ n \in DOMAIN issues'
          /\ issues'[m].key = k /\ issues'[n].key = k /\ issues'[m].open /\ issues'[n].open
      BY DEF OpenIssues
    <3>2. CASE k = job.key
      <4>1. m \notin DOMAIN issues /\ n \notin DOMAIN issues
        BY <3>1, <3>2, <2>1, <2>2 DEF OpenIssues
      <4> QED BY <4>1, <3>1, <2>2
    <3>3. CASE k # job.key
      <4>1. m \in OpenIssues(k) /\ n \in OpenIssues(k)
        BY <3>1, <3>3, <2>2 DEF OpenIssues
      <4> QED BY <4>1 DEF OneOpenIssue
    <3> QED BY <3>2, <3>3
  <2> QED BY <2>3, <1>4, <1>i DEF NothingOpenWhenFiling
<1>5. ASSUME Close \/ Tick PROVE OInv'
  <2>1. /\ DOMAIN issues' = DOMAIN issues
        /\ \A m \in DOMAIN issues : issues'[m].key = issues[m].key /\ (issues'[m].open => issues[m].open)
    BY <1>5, <1>t, CloseFacts, TickFacts
  <2>2. OneOpenIssue' /\ \A k \in Key : OpenIssues(k)' \subseteq OpenIssues(k)
    BY <2>1, NothingOpens
  <2>3. job'.at = job.at /\ job'.key = job.key
    BY <1>5, <1>t DEF Close, Tick, AlertsTypeOK, JobType
  <2> QED BY <2>2, <2>3, <1>t DEF NothingOpenWhenFiling, JobKnows
<1>6. CASE UNCHANGED alertVars
  BY <1>6 DEF alertVars, NothingOpenWhenFiling, OneOpenIssue, OpenIssues
<1>7. ASSUME NEW k \in Key, raise_alert(k) PROVE OInv'
  <2>1. issues' = issues /\ job'.at # "file"
    BY <1>7, <1>i DEF raise_alert, Recur
  <2> QED BY <2>1, <1>1
<1>8. CASE SearchFinds \/ CommentRefused \/ FilingRefused \/ Unreachable \/ AlertsRestart
  <2>1. issues' = issues /\ job'.at # "file"
    BY <1>8, <1>i DEF SearchFinds, Recur, CommentRefused, FilingRefused, Unreachable,
                      AlertsRestart, NewNotifier
  <2> QED BY <2>1, <1>1
<1>9. CASE CommentPosted  BY <1>9, <1>3 DEF CommentPosted
<1>10. CASE IssueFiled    BY <1>10, <1>4 DEF IssueFiled
<1>11. CASE AnswerLost    BY <1>11, <1>3, <1>4 DEF AnswerLost
<1> QED BY <1>2, <1>5, <1>6, <1>7, <1>8, <1>9, <1>10, <1>11 DEF AlertsNext, Deliver

\* One open issue per key (alerts.py, module comment), for every number of keys
\* and issues, as long as a search that is refused is not taken for one that
\* finds nothing.
THEOREM Dedupe ==
  ASSUME "search_refused" \notin Faults
  PROVE  AlertsSpec => []OneOpenIssue
<1>1. AlertsInit => OInv
  BY DEF AlertsInit, OInv, NothingOpenWhenFiling, OneOpenIssue, OpenIssues, Idle
<1>2. SInv /\ OInv /\ [AlertsNext]_alertVars => OInv'  BY OInvInductive
<1>3. OInv => OneOpenIssue  BY DEF OInv
<1> QED BY <1>1, <1>2, <1>3, SInvInit, SInvInductive, PTL DEF AlertsSpec

-----------------------------------------------------------------------------
(* The watchdog and the grace period.                                      *)

\* The longest one call takes when a wait is at most w.
Longest(w) == 3 * (Timeout + w)

\* The age of last_poll_at, call by call: nothing but the sleep before the
\* first slow call, the attempts so far while it is retried, one full call
\* after it.  A second slow call is no longer bounded.
AgeBound(w) ==
  loop.at \in {"call", "sleep"} =>
    /\ slow = 0 => age <= Interval /\ loop.attempt = 0
    /\ slow = 1 /\ loop.attempt = 0 => age <= Interval + Longest(w)
    /\ slow = 1 /\ loop.attempt = 1 => age <= Interval + (Timeout + w)
    /\ slow = 1 /\ loop.attempt = 2 => age <= Interval + 2 * (Timeout + w)
    /\ loop.at = "sleep" => slow = 0 /\ age = 0

\* The types, with what keeps the count of slow calls in range.
Counts ==
  /\ loop.at = "call" => loop.left >= 1
  /\ loop.at = "sleep" => slow = 0
  /\ loop.attempt > 0 => loop.left >= 1 /\ slow > 0
  /\ loop.attempt = 0 => slow + loop.left <= Calls
  /\ loop.attempt > 0 => slow + loop.left <= Calls + 1

Types == WatchdogTypeOK /\ Counts

LEMMA GraceIsNat == grace \in Nat
BY WatchdogAssumption DEF grace

LEMMA LaterInRange ==
  ASSUME WatchdogTypeOK, NEW d \in Nat
  PROVE  Later(d) \in 0..(grace + 1) /\ Later(d) <= age + d
BY GraceIsNat DEF WatchdogTypeOK, Later

LEMMA BackoffIsNat ==
  ASSUME NEW a \in 0..2, NEW w \in Backoff(a)
  PROVE  w \in Nat
<1>1. 2^a \in Nat
  <2>1. 2^0 \in Nat /\ 2^1 \in Nat /\ 2^2 \in Nat  OBVIOUS
  <2>2. a = 0 \/ a = 1 \/ a = 2  OBVIOUS
  <2> QED BY <2>1, <2>2
<1> HIDE DEF Backoff
<1> DEFINE p == 2^a
<1>2. p \in Nat  BY <1>1
<1>3. Backoff(a) = {IF v < BackoffMax THEN v ELSE BackoffMax : v \in RetryAfter \cup {p}}
  BY DEF Backoff
<1> HIDE DEF p
<1> QED BY <1>2, <1>3, WatchdogAssumption

\* A call that is over leaves good types and good counts.
LEMMA CallOverKeepsTypes ==
  ASSUME Types, loop.at = "call", NEW d \in Nat, NEW n \in 0..(loop.left - 1), CallOver(d, n),
         UNCHANGED <<up, enabled, unit>>
  PROVE  Types'
<1>t. /\ loop \in LoopType /\ slow \in 0..Calls /\ polled \in BOOLEAN
  BY DEF Types, WatchdogTypeOK
<1>f. loop.left \in 0..Calls /\ loop.attempt \in 0..2 /\ loop.left >= 1
  BY <1>t DEF LoopType, MAX_RETRIES, Types, Counts
<1>1. CASE n = 0
  <2>1. /\ loop' = [at |-> "sleep", left |-> 0, attempt |-> 0]
        /\ polled' = TRUE /\ age' = 0 /\ slow' = 0
    BY <1>1 DEF CallOver, CycleEnds
  <2>2. loop' \in LoopType  BY <2>1, WatchdogAssumption DEF LoopType, MAX_RETRIES
  <2>3. WatchdogTypeOK'  BY <2>1, <2>2, GraceIsNat, WatchdogAssumption DEF Types, WatchdogTypeOK, grace
  <2>4. Counts'  BY <2>1, WatchdogAssumption DEF Counts
  <2> QED BY <2>3, <2>4 DEF Types
<1>2. CASE n # 0
  <2>1. /\ loop' = [at |-> "call", left |-> n, attempt |-> 0]
        /\ age' = Later(d) /\ UNCHANGED polled
        /\ slow' = IF d > 0 /\ loop.attempt = 0 THEN slow + 1 ELSE slow
    BY <1>2 DEF CallOver
  <2>2. loop' \in LoopType
    BY <2>1, <1>f, WatchdogAssumption DEF LoopType, MAX_RETRIES
  <2>3. age' \in 0..(grace + 1)  BY <2>1, LaterInRange DEF Types
  <2>4. slow' \in Nat /\ slow' + n <= Calls /\ slow' <= Calls
    BY <2>1, <1>2, <1>t, <1>f, WatchdogAssumption DEF Types, Counts
  <2>5. WatchdogTypeOK'  BY <2>1, <2>2, <2>3, <2>4 DEF Types, WatchdogTypeOK, grace
  <2>6. Counts'  BY <2>1, <2>4, <1>2 DEF Counts
  <2> QED BY <2>5, <2>6 DEF Types
<1> QED BY <1>1, <1>2

LEMMA TypesInit == WatchInit => Types
<1> SUFFICES ASSUME WatchInit PROVE Types
  OBVIOUS
<1>1. /\ up = TRUE /\ enabled \in BOOLEAN /\ polled = FALSE /\ age = 0 /\ slow = 0 /\ unit = "ok"
      /\ loop = IF enabled THEN NewCycle ELSE Off
  BY DEF WatchInit
<1>2. NewCycle \in LoopType /\ Off \in LoopType
  BY WatchdogAssumption DEF NewCycle, Off, LoopType, MAX_RETRIES
<1>3. WatchdogTypeOK
  <2>1. loop \in LoopType  BY <1>1, <1>2
  <2>2. age \in 0..(grace + 1) /\ slow \in 0..Calls  BY <1>1, GraceIsNat, WatchdogAssumption
  <2>3. up \in BOOLEAN /\ polled \in BOOLEAN /\ unit \in {"ok", "warn", "fail"}  BY <1>1, Zenon
  <2> QED BY <2>1, <2>2, <2>3, <1>1, Zenon DEF WatchdogTypeOK
<1>4. Counts  BY <1>1, WatchdogAssumption DEF Counts, NewCycle, Off
<1> QED BY <1>3, <1>4 DEF Types

LEMMA TypesInductive == Types /\ [WatchNext]_watchVars => Types'
<1> SUFFICES ASSUME Types, [WatchNext]_watchVars PROVE Types'
  OBVIOUS
<1>t. /\ WatchdogTypeOK /\ Counts /\ loop \in LoopType /\ slow \in 0..Calls
      /\ up \in BOOLEAN /\ enabled \in BOOLEAN /\ polled \in BOOLEAN
      /\ age \in 0..(grace + 1) /\ unit \in {"ok", "warn", "fail"}
  BY DEF Types, WatchdogTypeOK
<1>f. loop.left \in 0..Calls /\ loop.attempt \in 0..2
  BY <1>t DEF LoopType, MAX_RETRIES
<1>o. NewCycle \in LoopType /\ Off \in LoopType
  BY WatchdogAssumption DEF NewCycle, Off, LoopType, MAX_RETRIES
<1>1. CASE CallEnds \/ CallRaises
  <2>1. /\ loop.at = "call" /\ UNCHANGED <<up, enabled, unit>>
        /\ \E d \in 0..Timeout, n \in 0..(loop.left - 1) : CallOver(d, n)
    BY <1>1, <1>t, <1>f DEF CallEnds, CallRaises, Counts
  <2>2. PICK d \in 0..Timeout, n \in 0..(loop.left - 1) : CallOver(d, n)  BY <2>1
  <2>3. d \in Nat  BY WatchdogAssumption
  <2> QED BY <2>1, <2>2, <2>3, CallOverKeepsTypes
<1>2. CASE RateLimited
  <2>1. PICK d \in 0..Timeout, w \in Backoff(loop.attempt) :
          IF loop.attempt + 1 < MAX_RETRIES
            THEN /\ loop' = [loop EXCEPT !.attempt = @ + 1]
                 /\ age' = Later(d + w)
                 /\ slow' = IF loop.attempt = 0 THEN slow + 1 ELSE slow
                 /\ UNCHANGED polled
            ELSE CallOver(d + w, loop.left - 1)
    BY <1>2 DEF RateLimited
  <2>2. d \in Nat /\ w \in Nat /\ d + w \in Nat
    BY <1>f, WatchdogAssumption, BackoffIsNat
  <2>3. loop.at = "call" /\ loop.left >= 1 /\ UNCHANGED <<up, enabled, unit>>
    BY <1>2, <1>t DEF RateLimited, Counts
  <2>4. CASE loop.attempt + 1 < MAX_RETRIES
    <3>1. /\ loop' = [loop EXCEPT !.attempt = loop.attempt + 1] /\ age' = Later(d + w)
          /\ slow' = IF loop.attempt = 0 THEN slow + 1 ELSE slow
          /\ UNCHANGED polled
      BY <2>1, <2>4
    <3>2. /\ loop' \in LoopType /\ loop'.attempt = loop.attempt + 1 /\ loop'.left = loop.left
          /\ loop'.at = "call"
      BY <3>1, <2>3, <2>4, <1>t DEF LoopType, MAX_RETRIES
    <3>3. age' \in 0..(grace + 1)  BY <3>1, <2>2, <1>t, LaterInRange
    <3>4. slow' \in 1..Calls /\ slow' + loop.left <= Calls + 1
      BY <3>1, <2>3, <1>t, <1>f, WatchdogAssumption DEF Counts
    <3>5. WatchdogTypeOK'  BY <3>1, <3>2, <3>3, <3>4, <2>3, <1>t DEF WatchdogTypeOK, grace
    <3>6. Counts'  BY <3>2, <3>4, <2>3, <1>f DEF Counts
    <3> QED BY <3>5, <3>6 DEF Types
  <2>5. CASE ~(loop.attempt + 1 < MAX_RETRIES)
    <3>1. CallOver(d + w, loop.left - 1)  BY <2>1, <2>5
    <3>2. loop.left - 1 \in 0..(loop.left - 1)  BY <2>3, <1>f
    <3> QED BY <3>1, <3>2, <2>2, <2>3, CallOverKeepsTypes
  <2> QED BY <2>4, <2>5
<1>3. CASE SleepOver
  <2>1. /\ loop' = NewCycle /\ age' = Later(Interval) /\ loop.at = "sleep"
        /\ UNCHANGED <<up, enabled, polled, slow, unit>>
    BY <1>3 DEF SleepOver
  <2>2. age' \in 0..(grace + 1)  BY <2>1, <1>t, LaterInRange, WatchdogAssumption
  <2>3. WatchdogTypeOK'  BY <2>1, <2>2, <1>t, <1>o DEF WatchdogTypeOK, grace
  <2>4. Counts'  BY <2>1, <1>3, <1>t, <1>f, WatchdogAssumption DEF Counts, NewCycle
  <2> QED BY <2>3, <2>4 DEF Types
<1>4. CASE Wedge
  <2>1. /\ loop' = [loop EXCEPT !.at = "dead"] /\ UNCHANGED <<up, enabled, polled, age, slow, unit>>
    BY <1>4 DEF Wedge
  <2>2. loop' \in LoopType /\ loop'.at = "dead" /\ loop'.left = loop.left /\ loop'.attempt = loop.attempt
    BY <2>1, <1>t DEF LoopType
  <2> QED BY <2>1, <2>2, <1>t DEF Types, WatchdogTypeOK, Counts, grace
<1>5. CASE HubDies
  <2>1. /\ loop' = Off /\ up' = FALSE /\ UNCHANGED <<enabled, polled, age, slow, unit>>
    BY <1>5 DEF HubDies
  <2>2. Counts'  BY <2>1, <1>t, WatchdogAssumption DEF Counts, Off
  <2> QED BY <2>1, <2>2, <1>t, <1>o DEF Types, WatchdogTypeOK, grace
<1>6. CASE HubStarts
  <2>1. /\ up' = TRUE /\ enabled' \in BOOLEAN /\ polled' = FALSE /\ age' = 0 /\ slow' = 0
        /\ loop' = NewCycle \/ loop' = Off
        /\ UNCHANGED unit
    BY <1>6 DEF HubStarts, Started
  <2>2. Counts'  BY <2>1, WatchdogAssumption DEF Counts, Off, NewCycle
  <2>3. WatchdogTypeOK'
    <3>1. loop' \in LoopType  BY <2>1, <1>o
    <3>2. age' \in 0..(grace + 1) /\ slow' \in 0..Calls  BY <2>1, GraceIsNat, WatchdogAssumption
    <3>3. up' \in BOOLEAN /\ polled' \in BOOLEAN /\ unit' \in {"ok", "warn", "fail"}
      BY <2>1, <1>t, Zenon
    <3> QED BY <3>1, <3>2, <3>3, <2>1, Zenon DEF WatchdogTypeOK, grace
  <2> QED BY <2>2, <2>3 DEF Types
<1>7. CASE ClockMoves
  <2>1. age' = Later(1) /\ UNCHANGED <<up, enabled, polled, loop, slow, unit>>
    BY <1>7 DEF ClockMoves
  <2>2. age' \in 0..(grace + 1)  BY <2>1, <1>t, LaterInRange
  <2> QED BY <2>1, <2>2, <1>t DEF Types, WatchdogTypeOK, Counts, grace
<1>8. CASE WatchdogRuns
  <2>1. unit' \in {"ok", "warn", "fail"}
    <3>1. CASE ~up  BY <3>1, <1>8 DEF WatchdogRuns, Verdict
    <3>2. CASE up /\ ~enabled  BY <3>2, <1>8 DEF WatchdogRuns, Verdict
    <3>3. CASE up /\ enabled  BY <3>3, <1>8 DEF WatchdogRuns, Verdict
    <3> QED BY <3>1, <3>2, <3>3
  <2>2. UNCHANGED <<up, enabled, polled, age, loop, slow>>  BY <1>8 DEF WatchdogRuns
  <2> QED BY <2>1, <2>2, <1>t DEF Types, WatchdogTypeOK, Counts, grace
<1>9. CASE UNCHANGED watchVars
  BY <1>9, <1>t DEF watchVars, Types, WatchdogTypeOK, Counts, grace
<1> QED BY <1>1, <1>2, <1>3, <1>4, <1>5, <1>6, <1>7, <1>8, <1>9 DEF WatchNext, PollStep

\* The types of the watched loop: the attempts of get_with_backoff stay below
\* max_retries and the slow calls below the number of calls.
THEOREM WatchdogTypes == WatchSpec => []WatchdogTypeOK
<1>1. Types => WatchdogTypeOK  BY DEF Types
<1> QED BY <1>1, TypesInit, TypesInductive, PTL DEF WatchSpec

-----------------------------------------------------------------------------
\* A call that is over, of which at most the last attempt is new.
LEMMA CallOverKeepsAge ==
  ASSUME Types, NEW W \in Nat, AgeBound(W), loop.at = "call",
         NEW d \in 0..(Timeout + W), NEW n \in 0..(loop.left - 1), CallOver(d, n)
  PROVE  AgeBound(W)'
<1>t. /\ loop \in LoopType /\ slow \in 0..Calls /\ age \in Nat /\ d \in Nat
      /\ Timeout \in Nat /\ Interval \in Nat
  BY WatchdogAssumption, GraceIsNat DEF Types, WatchdogTypeOK
<1>f. loop.left \in 0..Calls /\ loop.attempt \in 0..2 /\ (loop.attempt > 0 => slow > 0)
  BY <1>t DEF LoopType, MAX_RETRIES, Types, Counts
<1>1. CASE n = 0
  <2>1. loop' = [at |-> "sleep", left |-> 0, attempt |-> 0] /\ age' = 0 /\ slow' = 0
    BY <1>1 DEF CallOver, CycleEnds
  <2> QED BY <2>1, <1>t DEF AgeBound, Longest
<1>2. CASE n # 0
  <2>1. /\ loop' = [at |-> "call", left |-> n, attempt |-> 0]
        /\ age' = Later(d)
        /\ slow' = IF d > 0 /\ loop.attempt = 0 THEN slow + 1 ELSE slow
    BY <1>2 DEF CallOver
  <2>2. age' <= age + d /\ age' \in Nat
    BY <2>1, <1>t, LaterInRange, GraceIsNat DEF Types
  <2>3. loop'.at = "call" /\ loop'.attempt = 0  BY <2>1
  <2>4. slow' = 0 => age' <= Interval
    BY <2>1, <2>2, <1>t, <1>f DEF AgeBound
  <2>5. slow' = 1 => age' <= Interval + Longest(W)
    BY <2>1, <2>2, <1>t, <1>f DEF AgeBound, Longest
  <2> QED BY <2>3, <2>4, <2>5 DEF AgeBound, Longest
<1> QED BY <1>1, <1>2

LEMMA AgeBoundInductive ==
  ASSUME NEW W \in Nat, \A a \in 0..2 : Backoff(a) \subseteq 0..W
  PROVE  Types /\ AgeBound(W) /\ [WatchNext]_watchVars => AgeBound(W)'
<1> SUFFICES ASSUME Types, AgeBound(W), [WatchNext]_watchVars PROVE AgeBound(W)'
  OBVIOUS
<1>t. /\ WatchdogTypeOK /\ Counts /\ loop \in LoopType /\ slow \in 0..Calls /\ age \in Nat
      /\ Timeout \in Nat /\ Interval \in Nat
  BY WatchdogAssumption, GraceIsNat DEF Types, WatchdogTypeOK
<1>f. loop.left \in 0..Calls /\ loop.attempt \in 0..2 /\ (loop.attempt > 0 => slow > 0)
  BY <1>t DEF LoopType, MAX_RETRIES, Counts
<1>1. CASE CallEnds \/ CallRaises
  <2>1. /\ loop.at = "call"
        /\ \E d \in 0..Timeout, n \in 0..(loop.left - 1) : CallOver(d, n)
    BY <1>1, <1>t, <1>f DEF CallEnds, CallRaises, Counts
  <2>2. PICK d \in 0..Timeout, n \in 0..(loop.left - 1) : CallOver(d, n)  BY <2>1
  <2>3. d \in 0..(Timeout + W)  BY <1>t
  <2> QED BY <2>1, <2>2, <2>3, CallOverKeepsAge
<1>2. CASE RateLimited
  <2>1. PICK d \in 0..Timeout, w \in Backoff(loop.attempt) :
          IF loop.attempt + 1 < MAX_RETRIES
            THEN /\ loop' = [loop EXCEPT !.attempt = @ + 1]
                 /\ age' = Later(d + w)
                 /\ slow' = IF loop.attempt = 0 THEN slow + 1 ELSE slow
                 /\ UNCHANGED polled
            ELSE CallOver(d + w, loop.left - 1)
    BY <1>2 DEF RateLimited
  <2>2. w \in 0..W /\ d + w \in 0..(Timeout + W) /\ d + w \in Nat
    BY <1>f, <1>t
  <2>3. loop.at = "call" /\ loop.left >= 1  BY <1>2, <1>t DEF RateLimited, Counts
  <2>4. CASE loop.attempt + 1 < MAX_RETRIES
    <3>1. /\ loop' = [loop EXCEPT !.attempt = loop.attempt + 1] /\ age' = Later(d + w)
          /\ slow' = IF loop.attempt = 0 THEN slow + 1 ELSE slow
      BY <2>1, <2>4
    <3>2. loop'.attempt = loop.attempt + 1 /\ loop'.at = "call"
      BY <3>1, <2>3, <1>t DEF LoopType
    <3>3. age' <= age + (d + w) /\ age' \in Nat
      BY <3>1, <2>2, <1>t, LaterInRange, GraceIsNat
    <3>4. CASE loop.attempt = 0
      BY <3>1, <3>2, <3>3, <3>4, <2>2, <2>3, <1>t DEF AgeBound, Longest
    <3>5. CASE loop.attempt = 1
      BY <3>1, <3>2, <3>3, <3>5, <2>2, <2>3, <1>t, <1>f DEF AgeBound, Longest
    <3> QED BY <3>4, <3>5, <2>4, <1>f DEF MAX_RETRIES
  <2>5. CASE ~(loop.attempt + 1 < MAX_RETRIES)
    <3>1. CallOver(d + w, loop.left - 1)  BY <2>1, <2>5
    <3>2. loop.left - 1 \in 0..(loop.left - 1)  BY <2>3, <1>f
    <3> QED BY <3>1, <3>2, <2>2, <2>3, CallOverKeepsAge
  <2> QED BY <2>4, <2>5
<1>3. CASE SleepOver
  <2>1. loop' = NewCycle /\ age' = Later(Interval) /\ loop.at = "sleep" /\ UNCHANGED slow
    BY <1>3 DEF SleepOver
  <2>2. age = 0 /\ slow = 0  BY <2>1 DEF AgeBound
  <2>3. age' <= Interval  BY <2>1, <2>2, <1>t, LaterInRange
  <2> QED BY <2>1, <2>2, <2>3, <1>t DEF AgeBound, NewCycle
<1>4. CASE Wedge
  <2>1. loop'.at = "dead"  BY <1>4, <1>t DEF Wedge, LoopType
  <2> QED BY <2>1 DEF AgeBound
<1>5. CASE HubDies
  BY <1>5 DEF HubDies, Off, AgeBound
<1>6. CASE HubStarts
  <2>1. age' = 0 /\ slow' = 0 /\ (loop' = NewCycle \/ loop' = Off)
    BY <1>6 DEF HubStarts, Started
  <2> QED BY <2>1, <1>t DEF AgeBound, NewCycle, Off
<1>7. CASE ClockMoves
  <2>1. loop.at \in {"dead", "off"} /\ loop' = loop  BY <1>7 DEF ClockMoves
  <2> QED BY <2>1 DEF AgeBound
<1>8. CASE WatchdogRuns
  BY <1>8 DEF WatchdogRuns, AgeBound
<1>9. CASE UNCHANGED watchVars
  BY <1>9 DEF watchVars, AgeBound
<1> QED BY <1>1, <1>2, <1>3, <1>4, <1>5, <1>6, <1>7, <1>8, <1>9 DEF WatchNext, PollStep

\* hub-watchdog.sh with get_with_backoff: if the grace period covers the poll
\* interval and three attempts of one call, each with its timeout and its wait,
\* then one slow call never makes the watchdog judge a running loop dead.  With
\* the default 60, 30, 300 seconds this holds for waits of up to 50 seconds.
THEOREM GraceCoversOneSlowCall ==
  ASSUME NEW W \in Nat, \A a \in 0..2 : Backoff(a) \subseteq 0..W,
         Interval + 3 * (Timeout + W) <= grace
  PROVE  WatchSpec => []OneSlowCallNeverPages
<1>1. WatchInit => AgeBound(W)
  BY WatchdogAssumption DEF WatchInit, AgeBound, NewCycle, Off
<1>2. Types /\ AgeBound(W) /\ [WatchNext]_watchVars => AgeBound(W)'  BY AgeBoundInductive
<1>3. Types /\ AgeBound(W) => OneSlowCallNeverPages
  <2> SUFFICES ASSUME Types, AgeBound(W), up, loop.at \in {"call", "sleep"}, slow <= 1
               PROVE  Verdict # "fail"
    BY DEF OneSlowCallNeverPages
  <2>t. /\ loop \in LoopType /\ slow \in 0..Calls /\ age \in Nat
        /\ Timeout \in Nat /\ Interval \in Nat /\ grace \in Nat
    BY WatchdogAssumption, GraceIsNat DEF Types, WatchdogTypeOK
  <2>1. loop.attempt \in 0..2  BY <2>t DEF LoopType, MAX_RETRIES
  <2>2. age <= Interval + Longest(W)
    <3>1. slow = 0 \/ slow = 1  BY <2>t
    <3> QED BY <3>1, <2>1, <2>t DEF AgeBound, Longest
  <2>3. ~(age > grace)  BY <2>2, <2>t DEF Longest
  <2>4. CASE ~enabled  BY <2>4 DEF Verdict
  <2>5. CASE enabled  BY <2>5, <2>3 DEF Verdict
  <2> QED BY <2>4, <2>5
<1> QED BY <1>1, <1>2, <1>3, TypesInit, TypesInductive, PTL DEF WatchSpec

-----------------------------------------------------------------------------
(* The polling loop.                                                       *)

CheckWord == {"image", "pin", "scan", "status", "queue", "branches", "gates", "drift",
              "workflow", "check_runs"}

\* What is left of a turn is an end of the plan.
OnPlan(checks) ==
  /\ checks \in Seq(CheckWord)
  /\ Len(checks) \in 1..11
  /\ \A i \in 1..Len(checks) : checks[i] = CheckPlan[11 - Len(checks) + i]

\* The turn is a record, and no check is left when there is no turn.
TurnKnows ==
  /\ turn = [repo |-> turn.repo, checks |-> turn.checks, branches |-> turn.branches]
  /\ turn = NoTurn \/ (turn.repo \in Repo /\ OnPlan(turn.checks))

CopyKnows ==
  /\ DOMAIN snap \subseteq Runner
  /\ \A r \in DOMAIN snap : snap[r] \in RunnerRec
  /\ reg \in [Runner -> RunnerRec] /\ left \subseteq Repo

\* Alerts wait while the turn that earned them is not replaced by another.
WaitingIsOfTurn == turn # NoTurn => \A k \in todo : k[1] = turn.repo

RestIsDone == phase = "rest" => left = {} /\ todo = {} /\ turn = NoTurn

\* The turn of p has more than n checks to go.
Ahead(p, n) == turn.repo = p /\ Len(turn.checks) > n

\* Every repository whose turn has come has had its registry alerts raised, or
\* is having them raised now: none of the three checks can be passed by.
Raises ==
  \A p \in Repo \ (lost \cup left) :
    /\ ~Ahead(p, 10) => _check_image_readiness(p) \subseteq raised \cup todo
    /\ ~Ahead(p, 9) => _check_image_pin_divergence(p) \subseteq raised \cup todo
    /\ ~Ahead(p, 8) => _check_scan_state(p) \subseteq raised \cup todo

\* Every answer that was not a pass has its alert, raised or waiting.
Answered ==
  \A h \in heard : \/ h[1] \in lost \/ h[2] = "drift"
                   \/ \E k \in raised \cup todo : k[1] = h[1] /\ k[2] \in ClassesOf(h[2])

LoopInv ==
  TurnKnows /\ CopyKnows /\ WaitingIsOfTurn /\ RestIsDone /\ Raises /\ Answered

\* The plan, check by check.
LEMMA PlanIs ==
  /\ Len(CheckPlan) = 11
  /\ CheckPlan[1] = "image" /\ CheckPlan[2] = "pin" /\ CheckPlan[3] = "scan"
  /\ CheckPlan[4] = "status" /\ CheckPlan[5] = "queue" /\ CheckPlan[6] = "branches"
  /\ CheckPlan[7] = "gates" /\ CheckPlan[8] = "drift" /\ CheckPlan[9] = "workflow"
  /\ CheckPlan[10] = "branches" /\ CheckPlan[11] = "check_runs"
BY DEF CheckPlan

\* The three checks of the registry come first, and a walk follows its branches.
LEMMA WhichCheck ==
  ASSUME TurnKnows, NEW c, NEW p, At(c, p)
  PROVE  /\ turn # NoTurn /\ p = turn.repo /\ p \in Repo /\ OnPlan(turn.checks)
         /\ Len(turn.checks) \in 1..11 /\ todo = {}
         /\ c = "image" => Len(turn.checks) = 11
         /\ c = "pin" => Len(turn.checks) = 10
         /\ c = "scan" => Len(turn.checks) = 9
         /\ c \notin RegistryOnly => Len(turn.checks) <= 8
         /\ c = "branches" => Len(turn.checks) \in {2, 6}
<1>1. turn # NoTurn /\ turn.repo = p /\ Head(turn.checks) = c /\ turn.checks # <<>> /\ todo = {}
  BY DEF At, NoTurn
<1>2. p \in Repo /\ OnPlan(turn.checks)  BY <1>1 DEF TurnKnows
<1> DEFINE s == turn.checks
           n == Len(s)
<1>3. n \in 1..11 /\ c = CheckPlan[12 - n]
  <2>1. s \in Seq(CheckWord) /\ n \in 1..11 /\ s # <<>>
    BY <1>1, <1>2 DEF OnPlan
  <2>2. \A i \in 1..n : s[i] = CheckPlan[11 - n + i]
    BY <1>2 DEF OnPlan
  <2> HIDE DEF s
  <2>3. c = s[1]  BY <2>1, <1>1 DEF s
  <2>4. n \in 1..11  BY <2>1
  <2> HIDE DEF n
  <2>5. 1 \in 1..n /\ 11 - n + 1 = 12 - n  BY <2>4
  <2>6. s[1] = CheckPlan[12 - n]  BY <2>2, <2>5
  <2> QED BY <2>3, <2>4, <2>6
<1> HIDE DEF n
<1>4. \/ n = 11 \/ n = 10 \/ n = 9 \/ n = 8 \/ n = 7 \/ n = 6
      \/ n = 5 \/ n = 4 \/ n = 3 \/ n = 2 \/ n = 1
  BY <1>3
<1>5. \/ (n = 11 /\ c = "image") \/ (n = 10 /\ c = "pin") \/ (n = 9 /\ c = "scan")
      \/ (n <= 8 /\ c \notin RegistryOnly)
  <2>1. /\ n = 11 => 12 - n = 1
        /\ n = 10 => 12 - n = 2
        /\ n = 9 => 12 - n = 3
        /\ n \notin {9, 10, 11} => 12 - n \in {4, 5, 6, 7, 8, 9, 10, 11} /\ n <= 8
    BY <1>4
  <2>2. \A i \in {4, 5, 6, 7, 8, 9, 10, 11} : CheckPlan[i] \notin RegistryOnly
    BY PlanIs DEF RegistryOnly
  <2> QED BY <2>1, <2>2, <1>3, PlanIs
<1>6. c = "branches" => n \in {2, 6}
  <2>1. \A i \in {1, 2, 3, 4, 5, 7, 8, 9, 11} : CheckPlan[i] # "branches"
    BY PlanIs
  <2>2. n \notin {2, 6} => 12 - n \in {1, 2, 3, 4, 5, 7, 8, 9, 11}
    BY <1>4
  <2> QED BY <2>1, <2>2, <1>3
<1>7. /\ c = "image" => n = 11
      /\ c = "pin" => n = 10
      /\ c = "scan" => n = 9
      /\ c \notin RegistryOnly => n <= 8
  BY <1>5 DEF RegistryOnly
<1> QED BY <1>1, <1>2, <1>3, <1>6, <1>7 DEF n

LEMMA TailOnPlan ==
  ASSUME NEW s, OnPlan(s), Len(s) > 1
  PROVE  OnPlan(Tail(s)) /\ Len(Tail(s)) = Len(s) - 1
<1>1. s \in Seq(CheckWord) /\ Len(s) \in 1..11 /\ s # <<>>
  BY DEF OnPlan
<1>2. Tail(s) \in Seq(CheckWord) /\ Len(Tail(s)) = Len(s) - 1
      /\ \A i \in 1..(Len(s) - 1) : Tail(s)[i] = s[i + 1]
  BY <1>1
<1>3. ASSUME NEW i \in 1..(Len(s) - 1)
      PROVE  Tail(s)[i] = CheckPlan[11 - (Len(s) - 1) + i]
  <2>1. i + 1 \in 1..Len(s) /\ 11 - Len(s) + (i + 1) = 11 - (Len(s) - 1) + i
    BY <1>1
  <2>2. s[i + 1] = CheckPlan[11 - Len(s) + (i + 1)]  BY <2>1 DEF OnPlan
  <2> QED BY <1>2, <2>1, <2>2
<1>4. Len(s) - 1 \in 1..11
  <2> DEFINE l == Len(s)
  <2>1. l \in 1..11 /\ l > 1  BY <1>1
  <2> HIDE DEF l
  <2>2. l - 1 \in 1..11  BY <2>1
  <2> QED BY <2>2 DEF l
<1> QED BY <1>2, <1>3, <1>4 DEF OnPlan

\* The turn goes on to t: it is over, or it is the same turn with at most n
\* checks left.
Onward(t, n) ==
  /\ t = [repo |-> t.repo, checks |-> t.checks, branches |-> t.branches]
  /\ t = NoTurn \/ (t.repo = turn.repo /\ OnPlan(t.checks) /\ Len(t.checks) <= n)

LEMMA AfterCheckIsOnward ==
  ASSUME TurnKnows, turn # NoTurn
  PROVE  Onward(AfterCheck, Len(turn.checks) - 1)
<1>1. OnPlan(turn.checks) /\ Len(turn.checks) \in 1..11  BY DEF TurnKnows, OnPlan
<1>2. CASE Len(turn.checks) = 1  BY <1>2 DEF AfterCheck, Onward, NoTurn
<1>3. CASE Len(turn.checks) # 1
  <2>1. OnPlan(Tail(turn.checks)) /\ Len(Tail(turn.checks)) = Len(turn.checks) - 1
    <3> PICK s : s = turn.checks  OBVIOUS
    <3>1. OnPlan(s) /\ Len(s) \in 1..11 /\ Len(s) # 1  BY <1>1, <1>3
    <3>2. Len(s) > 1
      <4> DEFINE l == Len(s)
      <4>1. l \in 1..11 /\ l # 1  BY <3>1
      <4> HIDE DEF l
      <4>2. l > 1  BY <4>1
      <4> QED BY <4>2 DEF l
    <3> QED BY <3>1, <3>2, TailOnPlan
  <2>2. AfterCheck = [repo |-> turn.repo, checks |-> Tail(turn.checks), branches |-> <<>>]
    BY <1>3 DEF AfterCheck, TurnKnows
  <2> QED BY <1>1, <2>1, <2>2 DEF Onward
<1> QED BY <1>2, <1>3

LEMMA AfterBranchIsOnward ==
  ASSUME TurnKnows, turn # NoTurn
  PROVE  Onward(AfterBranch, Len(turn.checks))
<1>1. OnPlan(turn.checks) /\ Len(turn.checks) \in 1..11  BY DEF TurnKnows, OnPlan
<1>2. CASE Len(turn.branches) > 1
  <2>1. AfterBranch = [repo |-> turn.repo, checks |-> turn.checks,
                       branches |-> Tail(turn.branches)]
    BY <1>2 DEF AfterBranch, TurnKnows
  <2> QED BY <1>1, <2>1 DEF Onward
<1>3. CASE ~(Len(turn.branches) > 1)
  <2>1. Onward(AfterCheck, Len(turn.checks) - 1) /\ AfterBranch = AfterCheck
    BY <1>3, AfterCheckIsOnward DEF AfterBranch
  <2> QED BY <1>1, <2>1 DEF Onward, OnPlan
<1> QED BY <1>2, <1>3

-----------------------------------------------------------------------------
\* Check c of p is through: its alerts wait, and an answer that was no pass has
\* earned one.
Through(c, p) ==
  /\ UNCHANGED <<reg, phase, snap, left, raised, lost>>
  /\ \A k \in todo' : k[1] = p
  /\ heard' \subseteq heard \cup {<<p, c>>}
  /\ heard' \subseteq heard \/ c = "drift" \/ \E k \in todo' : k[2] \in ClassesOf(c)

LEMMA ThroughKeeps ==
  ASSUME LoopInv, NEW c, NEW p, At(c, p), Through(c, p), Onward(turn', 10),
         p \notin lost \cup left =>
           /\ _check_image_readiness(p) \subseteq raised \cup todo'
           /\ Len(turn'.checks) <= 9 => _check_image_pin_divergence(p) \subseteq raised \cup todo'
           /\ Len(turn'.checks) <= 8 => _check_scan_state(p) \subseteq raised \cup todo'
  PROVE  LoopInv'
<1>1. UNCHANGED <<reg, phase, snap, left, raised, lost>>
  BY DEF Through
<1>2. /\ turn # NoTurn /\ p = turn.repo /\ p \in Repo /\ OnPlan(turn.checks) /\ todo = {}
  BY WhichCheck DEF LoopInv
<1>3. TurnKnows'  BY <1>2 DEF TurnKnows, Onward
<1>4. CopyKnows'  BY <1>1 DEF CopyKnows, LoopInv
<1>5. WaitingIsOfTurn'  BY <1>2 DEF WaitingIsOfTurn, Onward, Through
<1>6. RestIsDone'  BY <1>1, <1>2 DEF RestIsDone, LoopInv
<1>7. Raises'
  <2> SUFFICES ASSUME NEW q \in Repo \ (lost \cup left)
               PROVE  /\ ~Ahead(q, 10)' => _check_image_readiness(q) \subseteq raised \cup todo'
                      /\ ~Ahead(q, 9)' => _check_image_pin_divergence(q) \subseteq raised \cup todo'
                      /\ ~Ahead(q, 8)' => _check_scan_state(q) \subseteq raised \cup todo'
    BY <1>1 DEF Raises, _check_image_readiness, _check_image_pin_divergence,
       _check_scan_state, RunnersOf
  <2>1. CASE q # p
    <3>1. ~Ahead(q, 10) /\ ~Ahead(q, 9) /\ ~Ahead(q, 8)  BY <2>1, <1>2 DEF Ahead
    <3> QED BY <3>1, <1>2 DEF Raises, LoopInv
  <2>2. CASE q = p
    <3>1. turn' = NoTurn => Len(turn'.checks) = 0  BY DEF NoTurn
    <3>2. turn' # NoTurn => turn'.repo = p /\ Len(turn'.checks) \in 1..11
      BY <1>2 DEF Onward, OnPlan
    <3>3. /\ ~Ahead(q, 9)' => Len(turn'.checks) <= 9
          /\ ~Ahead(q, 8)' => Len(turn'.checks) <= 8
      BY <3>1, <3>2, <2>2 DEF Ahead
    <3> QED BY <3>3, <2>2
  <2> QED BY <2>1, <2>2
<1>8. Answered'
  <2> SUFFICES ASSUME NEW h \in heard'
               PROVE  \/ h[1] \in lost \/ h[2] = "drift"
                      \/ \E k \in raised \cup todo' : k[1] = h[1] /\ k[2] \in ClassesOf(h[2])
    BY <1>1 DEF Answered, ClassesOf
  <2>1. CASE h \in heard  BY <2>1, <1>2 DEF Answered, LoopInv
  <2>2. CASE h \notin heard
    <3>1. h = <<p, c>> /\ (c = "drift" \/ \E k \in todo' : k[2] \in ClassesOf(c))
      BY <2>2 DEF Through
    <3>2. h[1] = p /\ h[2] = c  BY <3>1
    <3> QED BY <3>1, <3>2 DEF Through
  <2> QED BY <2>1, <2>2
<1> QED BY <1>3, <1>4, <1>5, <1>6, <1>7, <1>8 DEF LoopInv

\* At a check that asks GitHub the registry's alerts are all raised.
LEMMA LateKeeps ==
  ASSUME LoopInv, NEW c, NEW p, At(c, p), c \notin RegistryOnly, Through(c, p),
         Onward(turn', Len(turn.checks))
  PROVE  LoopInv'
<1> DEFINE n == Len(turn.checks)
           m == Len(turn'.checks)
<1>1. p \in Repo /\ todo = {} /\ n \in 1..11 /\ n <= 8
  BY WhichCheck DEF LoopInv
<1>2. p \notin lost \cup left =>
        /\ _check_image_readiness(p) \subseteq raised
        /\ _check_image_pin_divergence(p) \subseteq raised
        /\ _check_scan_state(p) \subseteq raised
  <2> HIDE DEF n
  <2>1. ~(n > 8) /\ ~(n > 9) /\ ~(n > 10)  BY <1>1
  <2>2. ~Ahead(p, 10) /\ ~Ahead(p, 9) /\ ~Ahead(p, 8)  BY <2>1 DEF Ahead, n
  <2> QED BY <2>2, <1>1 DEF Raises, LoopInv
<1>3. Onward(turn', 10)
  <2>1. CASE turn' = NoTurn  BY <2>1 DEF Onward
  <2>2. CASE turn' # NoTurn
    <3>1. OnPlan(turn'.checks) /\ m \in 1..11 /\ m <= n  BY <2>2 DEF Onward, OnPlan
    <3> HIDE DEF m, n
    <3>2. m <= 10  BY <3>1, <1>1
    <3> QED BY <2>2, <3>1, <3>2 DEF Onward, m
  <2> QED BY <2>1, <2>2
<1> QED BY <1>2, <1>3, ThroughKeeps

\* The same, when the check is the last walked or one of a walk.
LEMMA LateCheckedKeeps ==
  ASSUME LoopInv, NEW c, NEW p, At(c, p), c \notin RegistryOnly, Through(c, p),
         turn' = AfterCheck \/ turn' = AfterBranch
  PROVE  LoopInv'
<1>1. TurnKnows /\ turn # NoTurn /\ Len(turn.checks) \in 1..11
  BY WhichCheck DEF LoopInv
<1>2. Onward(AfterCheck, Len(turn.checks))
  <2> DEFINE n == Len(turn.checks)
             m == Len(AfterCheck.checks)
  <2>1. Onward(AfterCheck, n - 1)  BY <1>1, AfterCheckIsOnward
  <2>2. CASE AfterCheck = NoTurn  BY <2>1, <2>2 DEF Onward
  <2>3. CASE AfterCheck # NoTurn
    <3>1. OnPlan(AfterCheck.checks) /\ m \in 1..11 /\ m <= n - 1 /\ n \in 1..11
      BY <1>1, <2>1, <2>3 DEF Onward, OnPlan
    <3> HIDE DEF m, n
    <3>2. m <= n  BY <3>1
    <3> QED BY <2>1, <2>3, <3>2 DEF Onward, m, n
  <2> QED BY <2>2, <2>3
<1>3. Onward(AfterBranch, Len(turn.checks))  BY <1>1, AfterBranchIsOnward
<1>4. Onward(turn', Len(turn.checks))
  <2>1. CASE turn' = AfterCheck  BY ONLY <1>2, <2>1 DEF Onward
  <2>2. CASE turn' = AfterBranch  BY ONLY <1>3, <2>2 DEF Onward
  <2> QED BY <2>1, <2>2
<1> QED BY <1>4, LateKeeps

-----------------------------------------------------------------------------
\* What each check does to the invariant.
LEMMA RegistryChecksKeep ==
  ASSUME LoopInv, NEW p \in Repo, RegistryChecks(p)
  PROVE  LoopInv'
<1>a. \A c : At(c, p) => /\ TurnKnows /\ turn # NoTurn /\ p = turn.repo /\ todo = {}
                         /\ Onward(AfterCheck, Len(turn.checks) - 1)
  BY WhichCheck, AfterCheckIsOnward DEF LoopInv
<1>1. CASE At("image", p) /\ Checked("image", p, FALSE, _check_image_readiness(p), TRUE, AfterCheck)
  <2>1. Len(turn.checks) = 11  BY <1>1, WhichCheck DEF LoopInv
  <2>2. Onward(turn', 10)  BY <1>1, <1>a, <2>1 DEF Checked
  <2>3. Through("image", p) /\ todo' = _check_image_readiness(p)
    BY <1>1 DEF Checked, Through, _check_image_readiness
  <2>4. Len(turn'.checks) = 10
    <3>1. turn' = [turn EXCEPT !.checks = Tail(@), !.branches = <<>>]
      BY <1>1, <2>1 DEF Checked, AfterCheck
    <3>2. turn'.checks = Tail(turn.checks)  BY <3>1, <1>1, <1>a DEF TurnKnows
    <3>3. OnPlan(turn.checks)  BY <1>1, WhichCheck DEF LoopInv
    <3> QED BY <2>1, <3>2, <3>3 DEF OnPlan
  <2> QED BY <1>1, <2>2, <2>3, <2>4, ThroughKeeps
<1>2. CASE At("pin", p) /\ Checked("pin", p, FALSE, _check_image_pin_divergence(p), TRUE, AfterCheck)
  <2>1. Len(turn.checks) = 10  BY <1>2, WhichCheck DEF LoopInv
  <2>2. Onward(turn', 9)  BY <1>2, <1>a, <2>1 DEF Checked
  <2>3. Through("pin", p) /\ todo' = _check_image_pin_divergence(p)
    BY <1>2 DEF Checked, Through, _check_image_pin_divergence
  <2>4. Len(turn'.checks) = 9
    <3>1. turn' = [turn EXCEPT !.checks = Tail(@), !.branches = <<>>]
      BY <1>2, <2>1 DEF Checked, AfterCheck
    <3>2. turn'.checks = Tail(turn.checks)  BY <3>1, <1>2, <1>a DEF TurnKnows
    <3>3. OnPlan(turn.checks)  BY <1>2, WhichCheck DEF LoopInv
    <3> QED BY <2>1, <3>2, <3>3 DEF OnPlan
  <2>5. p \notin lost \cup left => _check_image_readiness(p) \subseteq raised
    <3>1. ~Ahead(p, 10)  BY <2>1 DEF Ahead
    <3> QED BY <3>1, <1>2, <1>a DEF LoopInv, Raises
  <2>6. Onward(turn', 10)  BY <2>2, <2>4 DEF Onward
  <2> QED BY <1>2, <2>3, <2>4, <2>5, <2>6, ThroughKeeps
<1>3. CASE At("scan", p) /\ Checked("scan", p, FALSE, _check_scan_state(p), TRUE, AfterCheck)
  <2>1. Len(turn.checks) = 9  BY <1>3, WhichCheck DEF LoopInv
  <2>2. Onward(turn', 8)  BY <1>3, <1>a, <2>1 DEF Checked
  <2>3. Through("scan", p) /\ todo' = _check_scan_state(p)
    BY <1>3 DEF Checked, Through, _check_scan_state
  <2>4. Len(turn'.checks) = 8
    <3>1. turn' = [turn EXCEPT !.checks = Tail(@), !.branches = <<>>]
      BY <1>3, <2>1 DEF Checked, AfterCheck
    <3>2. turn'.checks = Tail(turn.checks)  BY <3>1, <1>3, <1>a DEF TurnKnows
    <3>3. OnPlan(turn.checks)  BY <1>3, WhichCheck DEF LoopInv
    <3> QED BY <2>1, <3>2, <3>3 DEF OnPlan
  <2>5. p \notin lost \cup left => /\ _check_image_readiness(p) \subseteq raised
                                   /\ _check_image_pin_divergence(p) \subseteq raised
    <3>1. ~Ahead(p, 10) /\ ~Ahead(p, 9)  BY <2>1 DEF Ahead
    <3> QED BY <3>1, <1>3, <1>a DEF LoopInv, Raises
  <2>6. Onward(turn', 10)  BY <2>2, <2>4 DEF Onward
  <2> QED BY <1>3, <2>3, <2>4, <2>5, <2>6, ThroughKeeps
<1> QED BY <1>1, <1>2, <1>3 DEF RegistryChecks

LEMMA StatusCheckKeeps ==
  ASSUME LoopInv, NEW p \in Repo, StatusCheck(p)
  PROVE  LoopInv'
<1>1. PICK status \in [RunnersOf(p) -> {"online", "offline", "absent"}] :
        Checked("status", p, TRUE, _check_runner_status(p, status),
                \A r \in RunnersOf(p) : status[r] = "online" /\ ~Stale(snap[r]), AfterCheck)
  BY DEF StatusCheck
<1>2. todo' = _check_runner_status(p, status) /\ turn' = AfterCheck
  BY <1>1 DEF Checked
<1>3. ASSUME NEW r \in RunnersOf(p), ~(status[r] = "online" /\ ~Stale(snap[r]))
      PROVE  \E k \in todo' : k[2] \in ClassesOf("status")
  <2>1. CASE status[r] = "absent"
    <3>1. <<p, "runner_missing", r>> \in todo'  BY <1>2, <2>1 DEF _check_runner_status
    <3> QED BY <3>1 DEF ClassesOf
  <2>2. CASE status[r] # "absent"
    <3>1. status[r] \in {"online", "offline", "absent"}  OBVIOUS
    <3>2. <<p, "runner_offline", r>> \in todo'
      BY <1>2, <1>3, <2>2, <3>1 DEF _check_runner_status
    <3> QED BY <3>2 DEF ClassesOf
  <2> QED BY <2>1, <2>2
<1>4. Through("status", p)
  <2>1. \A k \in todo' : k[1] = p  BY <1>2 DEF _check_runner_status
  <2>2. \/ heard' \subseteq heard
        \/ \E r \in RunnersOf(p) : ~(status[r] = "online" /\ ~Stale(snap[r]))
    BY <1>1 DEF Checked
  <2>3. /\ UNCHANGED <<reg, phase, snap, left, raised, lost>>
        /\ heard' \subseteq heard \cup {<<p, "status">>}
    BY <1>1 DEF Checked
  <2> QED BY <1>3, <2>1, <2>2, <2>3 DEF Through
<1>5. At("status", p)  BY DEF StatusCheck
<1> QED BY <1>2, <1>4, <1>5, LateCheckedKeeps DEF RegistryOnly

LEMMA QueueCheckKeeps ==
  ASSUME LoopInv, NEW p \in Repo, QueueCheck(p)
  PROVE  LoopInv'
<1>1. PICK stalled \in SUBSET RunId :
        Checked("queue", p, TRUE, _check_queue_drain(p, stalled), stalled = {}, AfterCheck)
  BY DEF QueueCheck
<1>2. todo' = _check_queue_drain(p, stalled) /\ turn' = AfterCheck
  BY <1>1 DEF Checked
<1>3. Through("queue", p)
  <2>1. \A k \in todo' : k[1] = p  BY <1>2 DEF _check_queue_drain
  <2>2. heard' \subseteq heard \/ \E k \in todo' : k[2] \in ClassesOf("queue")
    <3>1. CASE stalled = {}  BY <3>1, <1>1 DEF Checked
    <3>2. CASE stalled # {}
      <4>1. PICK id \in stalled : TRUE  BY <3>2
      <4>2. <<p, "queue_stall", id>> \in todo'  BY <1>2 DEF _check_queue_drain
      <4> QED BY <4>2 DEF ClassesOf
    <3> QED BY <3>1, <3>2
  <2>3. /\ UNCHANGED <<reg, phase, snap, left, raised, lost>>
        /\ heard' \subseteq heard \cup {<<p, "queue">>}
    BY <1>1 DEF Checked
  <2> QED BY <2>1, <2>2, <2>3 DEF Through
<1>4. At("queue", p)  BY DEF QueueCheck
<1> QED BY <1>2, <1>3, <1>4, LateCheckedKeeps DEF RegistryOnly

LEMMA WatchedBranchesKeep ==
  ASSUME LoopInv, NEW p \in Repo, _watched_branches(p)
  PROVE  LoopInv'
<1>1. At("branches", p) /\ UNCHANGED <<alertVars, reg, phase, snap, left, todo, raised, lost, heard>>
  BY DEF _watched_branches
<1>2. PICK bs : \/ turn' = [turn EXCEPT !.checks = Tail(@), !.branches = bs]
                \/ turn' = NoTurn
                \/ Len(turn.checks) # 2 /\ turn' = [turn EXCEPT !.checks = Tail(Tail(@))]
  BY DEF _watched_branches
<1>3. /\ TurnKnows /\ turn # NoTurn /\ OnPlan(turn.checks) /\ todo = {}
      /\ Len(turn.checks) \in {2, 6}
  BY <1>1, WhichCheck DEF LoopInv
<1>4. PICK s : s = turn.checks  OBVIOUS
<1>5. OnPlan(Tail(s)) /\ Len(Tail(s)) = Len(s) - 1
  <2>1. OnPlan(s) /\ (Len(s) = 2 \/ Len(s) = 6)  BY <1>3, <1>4
  <2>2. Len(s) > 1  BY <2>1
  <2> QED BY <2>1, <2>2, TailOnPlan
<1>6. Len(s) # 2 => OnPlan(Tail(Tail(s))) /\ Len(Tail(Tail(s))) = Len(s) - 2
  <2>1. PICK t : t = Tail(s)  OBVIOUS
  <2>2. Len(s) # 2 => Len(t) > 1 /\ Len(t) = Len(s) - 1
    <3>1. Len(s) # 2 => Len(s) = 6  BY <1>3, <1>4
    <3> QED BY <3>1, <1>5, <2>1
  <2>3. Len(s) # 2 => OnPlan(Tail(t)) /\ Len(Tail(t)) = Len(t) - 1
    BY <1>5, <2>1, <2>2, TailOnPlan
  <2> QED BY <1>3, <1>4, <2>1, <2>2, <2>3
<1>7. Onward(turn', Len(turn.checks))
  <2>1. CASE turn' = [turn EXCEPT !.checks = Tail(@), !.branches = bs]
    <3>1. turn' = [repo |-> turn.repo, checks |-> Tail(s), branches |-> bs]
      BY <1>3, <1>4, <2>1 DEF TurnKnows
    <3>2. Len(Tail(s)) <= Len(turn.checks)  BY <1>3, <1>4, <1>5
    <3> QED BY <1>5, <3>1, <3>2 DEF Onward
  <2>2. CASE turn' = NoTurn  BY <2>2 DEF Onward, NoTurn
  <2>3. CASE Len(turn.checks) # 2 /\ turn' = [turn EXCEPT !.checks = Tail(Tail(@))]
    <3>1. turn' = [repo |-> turn.repo, checks |-> Tail(Tail(s)), branches |-> turn.branches]
      BY <1>3, <1>4, <2>3 DEF TurnKnows
    <3>2. OnPlan(Tail(Tail(s))) /\ Len(Tail(Tail(s))) <= Len(turn.checks)
      BY <1>3, <1>4, <1>6, <2>3
    <3> QED BY <3>1, <3>2 DEF Onward
  <2> QED BY <1>2, <2>1, <2>2, <2>3
<1>8. Through("branches", p)  BY <1>1, <1>3 DEF Through
<1> QED BY <1>1, <1>7, <1>8, LateKeeps DEF RegistryOnly

LEMMA BranchChecksKeep ==
  ASSUME LoopInv, NEW p \in Repo, BranchChecks(p)
  PROVE  LoopInv'
<1>1. PICK S \in SUBSET CheckName : \E runs \in [S -> Conclusion] :
        \/ /\ At("gates", p)
           /\ Checked("gates", p, TRUE, _check_gate_results(p, runs),
                      "failure" \notin {runs[c] : c \in DOMAIN runs}, AfterBranch)
        \/ /\ At("check_runs", p)
           /\ Checked("check_runs", p, TRUE, check_check_runs(p, runs),
                      "coherence" \in DOMAIN runs /\ runs["coherence"] # "failure", AfterBranch)
  BY DEF BranchChecks
<1>2. PICK runs \in [S -> Conclusion] :
        \/ /\ At("gates", p)
           /\ Checked("gates", p, TRUE, _check_gate_results(p, runs),
                      "failure" \notin {runs[c] : c \in DOMAIN runs}, AfterBranch)
        \/ /\ At("check_runs", p)
           /\ Checked("check_runs", p, TRUE, check_check_runs(p, runs),
                      "coherence" \in DOMAIN runs /\ runs["coherence"] # "failure", AfterBranch)
  BY <1>1
<1>3. DOMAIN runs = S  OBVIOUS
<1>4. CASE /\ At("gates", p)
           /\ Checked("gates", p, TRUE, _check_gate_results(p, runs),
                      "failure" \notin {runs[c] : c \in DOMAIN runs}, AfterBranch)
  <2>1. /\ todo' = {<<p, "gate_failure", c>> : c \in Failing(runs)} /\ turn' = AfterBranch
        /\ UNCHANGED <<reg, phase, snap, left, raised, lost>>
        /\ heard' \subseteq heard \cup {<<p, "gates">>}
        /\ heard' \subseteq heard \/ "failure" \in {runs[c] : c \in DOMAIN runs}
    BY <1>4 DEF Checked, _check_gate_results
  <2>2. ASSUME NEW c \in DOMAIN runs, runs[c] = "failure"
        PROVE  \E k \in todo' : k[2] \in ClassesOf("gates")
    <3>1. c \in Failing(runs)  BY <2>2 DEF Failing, NON_PASSING_CONCLUSIONS
    <3>2. <<p, "gate_failure", c>> \in todo'  BY <2>1, <3>1
    <3>3. "gate_failure" \in ClassesOf("gates")  BY DEF ClassesOf
    <3> QED BY <3>2, <3>3
  <2>3. heard' \subseteq heard \/ \E k \in todo' : k[2] \in ClassesOf("gates")
    BY <2>1, <2>2
  <2>4. \A k \in todo' : k[1] = p  BY <2>1
  <2>5. Through("gates", p)  BY <2>1, <2>3, <2>4 DEF Through
  <2> QED BY <1>4, <2>1, <2>5, LateCheckedKeeps DEF RegistryOnly
<1>5. CASE /\ At("check_runs", p)
           /\ Checked("check_runs", p, TRUE, check_check_runs(p, runs),
                      "coherence" \in DOMAIN runs /\ runs["coherence"] # "failure", AfterBranch)
  <2>1. /\ todo' = check_check_runs(p, runs) /\ turn' = AfterBranch
        /\ UNCHANGED <<reg, phase, snap, left, raised, lost>>
        /\ heard' \subseteq heard \cup {<<p, "check_runs">>}
        /\ heard' \subseteq heard \/ ~("coherence" \in DOMAIN runs /\ runs["coherence"] # "failure")
    BY <1>5 DEF Checked
  <2>2. CASE "coherence" \notin DOMAIN runs
    <3>1. todo' = {<<p, "coherence_absent", "?">>}  BY <2>1, <2>2 DEF check_check_runs
    <3>2. "coherence_absent" \in ClassesOf("check_runs")  BY DEF ClassesOf
    <3>3. Through("check_runs", p)  BY <2>1, <3>1, <3>2 DEF Through
    <3> QED BY <1>5, <2>1, <3>3, LateCheckedKeeps DEF RegistryOnly
  <2>3. CASE "coherence" \in DOMAIN runs
    <3>1. todo' = {<<p, "coherence_failure", c>> : c \in Failing(runs) \cap {"coherence"}}
      BY <2>1, <2>3 DEF check_check_runs
    <3>2. runs["coherence"] = "failure" => "coherence" \in Failing(runs)
      BY <2>3 DEF Failing, NON_PASSING_CONCLUSIONS
    <3>3. runs["coherence"] = "failure" => <<p, "coherence_failure", "coherence">> \in todo'
      BY <3>1, <3>2
    <3>4. "coherence_failure" \in ClassesOf("check_runs")  BY DEF ClassesOf
    <3>5. heard' \subseteq heard \/ \E k \in todo' : k[2] \in ClassesOf("check_runs")
      BY <2>1, <2>3, <3>3, <3>4
    <3>6. \A k \in todo' : k[1] = p  BY <3>1
    <3>7. Through("check_runs", p)  BY <2>1, <3>5, <3>6 DEF Through
    <3> QED BY <1>5, <2>1, <3>7, LateCheckedKeeps DEF RegistryOnly
  <2> QED BY <2>2, <2>3
<1> QED BY <1>2, <1>4, <1>5

\* The coherence gate of a branch is quiet for a fresh success only.
LEMMA WorkflowIsQuietOnPass ==
  ASSUME NEW latest \in Latest, NEW p,
         latest # [seen |-> "run", conclusion |-> "success", finish |-> "fresh"]
  PROVE  \E k \in check_workflow_runs(p, latest) : k[2] \in ClassesOf("workflow")
<1>1. /\ "coherence_missing" \in ClassesOf("workflow")
      /\ "coherence_failure" \in ClassesOf("workflow")
      /\ "coherence_skipped" \in ClassesOf("workflow")
      /\ "coherence_overdue" \in ClassesOf("workflow")
  BY DEF ClassesOf
<1>2. /\ latest = [seen |-> latest.seen, conclusion |-> latest.conclusion,
                   finish |-> latest.finish]
      /\ latest.conclusion \in Conclusion
      /\ latest.conclusion = "none" => latest.finish = "none"
  BY DEF Latest
<1>3. CASE latest.seen # "run"
  <2>1. check_workflow_runs(p, latest) = {<<p, "coherence_missing", "?">>}
    BY <1>3 DEF check_workflow_runs
  <2> QED BY <1>1, <2>1
<1>4. CASE latest.seen = "run" /\ latest.conclusion \in NON_PASSING_CONCLUSIONS
  <2>1. check_workflow_runs(p, latest) = {<<p, "coherence_failure", "?">>}
    BY <1>4 DEF check_workflow_runs, NON_PASSING_CONCLUSIONS
  <2> QED BY <1>1, <2>1
<1>5. CASE latest.seen = "run" /\ latest.conclusion = "skipped"
  <2>1. check_workflow_runs(p, latest) = {<<p, "coherence_skipped", "?">>}
    BY <1>5 DEF check_workflow_runs, NON_PASSING_CONCLUSIONS
  <2> QED BY <1>1, <2>1
<1>6. CASE latest.seen = "run" /\ latest.conclusion \in {"success", "none"}
  <2>1. latest.finish # "fresh"
    <3>1. latest.conclusion = "success" /\ latest.finish = "fresh" =>
            latest = [seen |-> "run", conclusion |-> "success", finish |-> "fresh"]
      BY <1>2, <1>6
    <3> QED BY <3>1, <1>2, <1>6
  <2>2. check_workflow_runs(p, latest)
          = {k \in {<<p, "coherence_overdue", "?">>} : latest.finish # "fresh"}
    BY <1>6 DEF check_workflow_runs, NON_PASSING_CONCLUSIONS
  <2>3. <<p, "coherence_overdue", "?">> \in check_workflow_runs(p, latest)
    BY <2>1, <2>2
  <2> QED BY <1>1, <2>3
<1> QED BY <1>2, <1>3, <1>4, <1>5, <1>6 DEF Conclusion, NON_PASSING_CONCLUSIONS

LEMMA WorkflowChecksKeep ==
  ASSUME LoopInv, NEW p \in Repo, WorkflowChecks(p)
  PROVE  LoopInv'
<1> DEFINE pass(l) == l = [seen |-> "run", conclusion |-> "success", finish |-> "fresh"]
<1>1. PICK latest \in Latest :
        \/ /\ At("drift", p)
           /\ Checked("drift", p, TRUE, _check_drift_scan(p, latest), pass(latest), AfterCheck)
        \/ /\ At("workflow", p)
           /\ \/ Checked("workflow", p, FALSE, CoherenceUnconfigured(p), TRUE, AfterCheck)
              \/ Checked("workflow", p, TRUE, check_workflow_runs(p, latest), pass(latest),
                         AfterCheck)
  BY DEF WorkflowChecks
<1>2. CASE /\ At("drift", p)
           /\ Checked("drift", p, TRUE, _check_drift_scan(p, latest), pass(latest), AfterCheck)
  <2>1. \A k \in todo' : k[1] = p  BY <1>2 DEF Checked, _check_drift_scan
  <2>2. Through("drift", p) /\ turn' = AfterCheck  BY <1>2, <2>1 DEF Checked, Through
  <2> QED BY <1>2, <2>2, LateCheckedKeeps DEF RegistryOnly
<1>3. CASE /\ At("workflow", p)
           /\ Checked("workflow", p, FALSE, CoherenceUnconfigured(p), TRUE, AfterCheck)
  <2>1. \A k \in todo' : k[1] = p  BY <1>3 DEF Checked, CoherenceUnconfigured
  <2>2. Through("workflow", p) /\ turn' = AfterCheck  BY <1>3, <2>1 DEF Checked, Through
  <2> QED BY <1>3, <2>2, LateCheckedKeeps DEF RegistryOnly
<1>4. CASE /\ At("workflow", p)
           /\ Checked("workflow", p, TRUE, check_workflow_runs(p, latest), pass(latest), AfterCheck)
  <2>1. todo' = check_workflow_runs(p, latest)  BY <1>4 DEF Checked
  <2>2. \A k \in todo' : k[1] = p  BY <2>1 DEF check_workflow_runs
  <2>3. heard' \subseteq heard \/ \E k \in todo' : k[2] \in ClassesOf("workflow")
    <3>1. CASE pass(latest)  BY <1>4, <3>1 DEF Checked
    <3>2. CASE ~pass(latest)  BY <2>1, <3>2, WorkflowIsQuietOnPass
    <3> QED BY <3>1, <3>2
  <2>4. Through("workflow", p) /\ turn' = AfterCheck
    BY <1>4, <2>2, <2>3 DEF Checked, Through
  <2> QED BY <1>4, <2>4, LateCheckedKeeps DEF RegistryOnly
<1> QED BY <1>1, <1>2, <1>3, <1>4

LEMMA SilentKeeps ==
  ASSUME LoopInv, NEW p \in Repo, Silent(p)
  PROVE  LoopInv'
<1>1. PICK c : c = Head(turn.checks)  OBVIOUS
<1>2. At(c, p) /\ c \notin RegistryOnly  BY <1>1 DEF Silent
<1>3. Through(c, p) /\ turn' = AfterBranch  BY <1>1 DEF Silent, Checked, Through
<1> QED BY <1>2, <1>3, LateCheckedKeeps

LEMMA PollFailsKeeps ==
  ASSUME LoopInv, NEW p \in Repo, PollFails(p)
  PROVE  LoopInv'
<1>1. PICK c : c = Head(turn.checks)  OBVIOUS
<1>2. At(c, p) /\ c \notin RegistryOnly  BY <1>1 DEF PollFails
<1>3. Through(c, p) /\ turn' = NoTurn  BY <1>2 DEF PollFails, Through, At
<1>4. Onward(turn', Len(turn.checks))  BY <1>3 DEF Onward, NoTurn
<1> QED BY <1>2, <1>3, <1>4, LateKeeps

-----------------------------------------------------------------------------
\* Cycles and turns begin and end.
LEMMA LoopInvInit == MonitorInit => LoopInv
<1> SUFFICES ASSUME MonitorInit PROVE LoopInv
  OBVIOUS
<1>1. /\ reg = [r \in Runner |-> Enrolled] /\ phase = "rest" /\ snap = <<>> /\ left = {}
      /\ turn = NoTurn /\ todo = {} /\ raised = {} /\ heard = {}
  BY DEF MonitorInit, LoopInit
<1>2. TurnKnows  BY <1>1 DEF TurnKnows, NoTurn
<1>3. DOMAIN snap = {}  BY <1>1
<1>4. CopyKnows
  <2>1. Enrolled \in RunnerRec
    BY DEF Enrolled, Healthy, RunnerRec, HostReport, ScanType, ScanWord
  <2> QED BY <1>1, <1>3, <2>1 DEF CopyKnows
<1>5. Raises
  BY <1>3 DEF Raises, RunnersOf, _check_image_readiness, _check_image_pin_divergence,
     _check_scan_state
<1>6. WaitingIsOfTurn /\ RestIsDone /\ Answered
  BY <1>1 DEF WaitingIsOfTurn, RestIsDone, Answered
<1> QED BY <1>2, <1>4, <1>5, <1>6 DEF LoopInv

LEMMA StartCycleKeeps ==
  ASSUME LoopInv, StartCycle
  PROVE  LoopInv'
<1>1. /\ phase' = "polling" /\ raised' = {} /\ lost' = {} /\ heard' = {}
      /\ snap' = [r \in {q \in Runner : reg[q].enrolled} |-> reg[r]]
      /\ left' = {RepoOf[r] : r \in {q \in Runner : reg[q].enrolled}}
      /\ UNCHANGED <<reg, turn, todo>>
  BY DEF StartCycle
<1>2. turn = NoTurn /\ todo = {}  BY DEF StartCycle, LoopInv, RestIsDone
<1>3. TurnKnows'  BY <1>1 DEF LoopInv, TurnKnows
<1>4. CopyKnows'  BY <1>1, MonitorAssumption DEF LoopInv, CopyKnows
<1>5. WaitingIsOfTurn' /\ RestIsDone' /\ Answered'
  BY <1>1, <1>2 DEF WaitingIsOfTurn, RestIsDone, Answered
<1>6. Raises'
  <2> SUFFICES ASSUME NEW p \in Repo \ left'
               PROVE  RunnersOf(p)' = {}
    BY DEF Raises, _check_image_readiness, _check_image_pin_divergence, _check_scan_state
  <2> QED BY <1>1 DEF RunnersOf
<1> QED BY <1>3, <1>4, <1>5, <1>6 DEF LoopInv

LEMMA StartRepoKeeps ==
  ASSUME LoopInv, StartRepo
  PROVE  LoopInv'
<1>1. PICK p \in left : /\ turn' = [repo |-> p, checks |-> CheckPlan, branches |-> <<>>]
                        /\ left' = left \ {p}
  BY DEF StartRepo
<1>2. /\ UNCHANGED <<reg, phase, snap, todo, raised, lost, heard>>
      /\ phase = "polling" /\ turn = NoTurn /\ todo = {}
  BY DEF StartRepo, Between
<1>3. OnPlan(CheckPlan) /\ Len(CheckPlan) = 11
  <2>1. CheckPlan \in Seq(CheckWord)  BY DEF CheckPlan, CheckWord
  <2>2. \A i \in 1..11 : 11 - 11 + i = i  OBVIOUS
  <2> QED BY <2>1, <2>2, PlanIs DEF OnPlan
<1>4. p \in Repo  BY DEF LoopInv, CopyKnows
<1>5. LoopInv'
  <2>1. TurnKnows'  BY <1>1, <1>3, <1>4 DEF TurnKnows
  <2>2. CopyKnows' /\ WaitingIsOfTurn' /\ RestIsDone'
    BY <1>1, <1>2 DEF LoopInv, CopyKnows, WaitingIsOfTurn, RestIsDone
  <2>3. Answered'  BY <1>2 DEF LoopInv, Answered, ClassesOf
  <2>4. Raises'
    <3> SUFFICES ASSUME NEW q \in Repo \ (lost \cup left')
                 PROVE  /\ ~Ahead(q, 10)' => _check_image_readiness(q) \subseteq raised \cup todo
                        /\ ~Ahead(q, 9)' => _check_image_pin_divergence(q) \subseteq raised \cup todo
                        /\ ~Ahead(q, 8)' => _check_scan_state(q) \subseteq raised \cup todo
      BY <1>2 DEF Raises, _check_image_readiness, _check_image_pin_divergence,
         _check_scan_state, RunnersOf
    <3>1. CASE q = p
      <4>1. turn'.repo = q /\ Len(turn'.checks) = 11  BY <1>1, <1>3, <3>1
      <4> QED BY <4>1 DEF Ahead
    <3>2. CASE q # p
      <4>1. q \notin left  BY <1>1, <3>2
      <4>2. Len(turn.checks) = 0  BY <1>2 DEF NoTurn
      <4>3. ~Ahead(q, 10) /\ ~Ahead(q, 9) /\ ~Ahead(q, 8)  BY <4>2 DEF Ahead
      <4> QED BY <4>1, <4>3 DEF LoopInv, Raises
    <3> QED BY <3>1, <3>2
  <2> QED BY <2>1, <2>2, <2>3, <2>4 DEF LoopInv
<1> QED BY <1>5

LEMMA EndCycleKeeps ==
  ASSUME LoopInv, EndCycle
  PROVE  LoopInv'
<1>1. /\ UNCHANGED <<reg, snap, left, turn, todo, raised, lost, heard>>
      /\ phase' = "rest" /\ turn = NoTurn /\ todo = {} /\ left = {}
  BY DEF EndCycle, Between
<1>2. TurnKnows' /\ CopyKnows' /\ WaitingIsOfTurn' /\ RestIsDone'
  BY <1>1 DEF LoopInv, TurnKnows, CopyKnows, WaitingIsOfTurn, RestIsDone
<1>3. Raises'
  BY <1>1 DEF LoopInv, Raises, Ahead, RunnersOf, _check_image_readiness,
     _check_image_pin_divergence, _check_scan_state
<1>4. Answered'  BY <1>1 DEF LoopInv, Answered, ClassesOf
<1> QED BY <1>2, <1>3, <1>4 DEF LoopInv

\* An alert that is logged leaves the waiting ones and is among the raised.
LEMMA RaiseKeeps ==
  ASSUME LoopInv, _raise_alert
  PROVE  LoopInv'
<1>1. PICK k \in todo : todo' = todo \ {k} /\ raised' = raised \cup {k}
  BY DEF _raise_alert
<1>2. /\ UNCHANGED <<reg, phase, snap, left, turn, lost, heard>>
      /\ raised' \cup todo' = raised \cup todo
  BY <1>1 DEF _raise_alert
<1>3. TurnKnows' /\ CopyKnows' /\ WaitingIsOfTurn' /\ RestIsDone'
  BY <1>1, <1>2 DEF LoopInv, TurnKnows, CopyKnows, WaitingIsOfTurn, RestIsDone
<1>4. Raises'
  BY <1>2 DEF LoopInv, Raises, Ahead, RunnersOf, _check_image_readiness,
     _check_image_pin_divergence, _check_scan_state
<1>5. Answered'  BY <1>2 DEF LoopInv, Answered, ClassesOf
<1> QED BY <1>3, <1>4, <1>5 DEF LoopInv

\* When the log cannot be written, the repositories whose alerts go are lost.
LEMMA LogFailsKeeps ==
  ASSUME LoopInv, LogFails
  PROVE  LoopInv'
<1>1. /\ todo # {} /\ todo' = {} /\ turn' = NoTurn
      /\ lost' = lost \cup {k[1] : k \in todo}
      /\ UNCHANGED <<reg, phase, snap, left, raised, heard>>
  BY DEF LogFails
<1>2. TurnKnows' /\ CopyKnows' /\ WaitingIsOfTurn' /\ RestIsDone'
  BY <1>1 DEF LoopInv, TurnKnows, CopyKnows, WaitingIsOfTurn, RestIsDone, NoTurn
<1>3. turn # NoTurn => turn.repo \in lost'
  BY <1>1 DEF LoopInv, WaitingIsOfTurn
<1>4. Raises'
  <2> SUFFICES ASSUME NEW q \in Repo \ (lost' \cup left)
               PROVE  /\ _check_image_readiness(q) \subseteq raised
                      /\ _check_image_pin_divergence(q) \subseteq raised
                      /\ _check_scan_state(q) \subseteq raised
    BY <1>1 DEF Raises, _check_image_readiness, _check_image_pin_divergence,
       _check_scan_state, RunnersOf
  <2>1. ~Ahead(q, 10) /\ ~Ahead(q, 9) /\ ~Ahead(q, 8)
    <3>1. CASE turn = NoTurn
      <4>1. Len(turn.checks) = 0  BY <3>1 DEF NoTurn
      <4> QED BY <4>1 DEF Ahead
    <3>2. CASE turn # NoTurn  BY <3>2, <1>3 DEF Ahead
    <3> QED BY <3>1, <3>2
  <2>2. /\ _check_image_readiness(q) \subseteq raised \cup todo
        /\ _check_image_pin_divergence(q) \subseteq raised \cup todo
        /\ _check_scan_state(q) \subseteq raised \cup todo
    BY <2>1, <1>1 DEF LoopInv, Raises
  <2>3. \A k \in todo : k[1] # q  BY <1>1
  <2>4. \A k \in _check_image_readiness(q) : k[1] = q  BY DEF _check_image_readiness
  <2>5. \A k \in _check_image_pin_divergence(q) : k[1] = q  BY DEF _check_image_pin_divergence
  <2>6. \A k \in _check_scan_state(q) : k[1] = q  BY DEF _check_scan_state
  <2> QED BY <2>2, <2>3, <2>4, <2>5, <2>6
<1>5. Answered'
  <2> SUFFICES ASSUME NEW h \in heard
               PROVE  \/ h[1] \in lost' \/ h[2] = "drift"
                      \/ \E k \in raised : k[1] = h[1] /\ k[2] \in ClassesOf(h[2])
    BY <1>1 DEF Answered, ClassesOf
  <2> QED BY <1>1 DEF LoopInv, Answered
<1> QED BY <1>2, <1>4, <1>5 DEF LoopInv

\* Time moves the stamps, in the registry and in the copy, and no report.
LEMMA TimeKeeps ==
  ASSUME LoopInv, TimePasses
  PROVE  LoopInv'
<1> DEFINE older(rec) == [rec EXCEPT !.beat = IF @ < 2 THEN @ + 1 ELSE 2]
<1>1. /\ reg' = [r \in Runner |-> older(reg[r])]
      /\ snap' = [r \in DOMAIN snap |-> older(snap[r])]
      /\ UNCHANGED <<phase, left, turn, todo, raised, lost, heard>>
  BY DEF TimePasses
<1>2. \A rec \in RunnerRec : older(rec) \in RunnerRec /\ older(rec).host = rec.host
  BY DEF RunnerRec
<1> HIDE DEF older
<1>3. DOMAIN snap' = DOMAIN snap /\ \A r \in DOMAIN snap : snap'[r].host = snap[r].host
  BY <1>1, <1>2 DEF LoopInv, CopyKnows
<1>4. CopyKnows'  BY <1>1, <1>2, <1>3 DEF LoopInv, CopyKnows
<1>5. TurnKnows' /\ WaitingIsOfTurn' /\ RestIsDone'
  BY <1>1 DEF LoopInv, TurnKnows, WaitingIsOfTurn, RestIsDone
<1>6. Answered'  BY <1>1 DEF LoopInv, Answered, ClassesOf
<1>7. Raises'
  <2>1. ASSUME NEW p
        PROVE  /\ _check_image_readiness(p)' = _check_image_readiness(p)
               /\ _check_image_pin_divergence(p)' = _check_image_pin_divergence(p)
               /\ _check_scan_state(p)' = _check_scan_state(p)
    <3>1. RunnersOf(p)' = RunnersOf(p)  BY <1>3 DEF RunnersOf
    <3>2. RunnersOf(p) \subseteq DOMAIN snap  BY DEF RunnersOf
    <3> QED BY <1>3, <3>1, <3>2 DEF _check_image_readiness, _check_image_pin_divergence,
            _check_scan_state
  <2> QED BY <1>1, <2>1 DEF LoopInv, Raises, Ahead
<1> QED BY <1>4, <1>5, <1>6, <1>7 DEF LoopInv

\* Heartbeats and revocations change the registry, not the copy.
LEMMA RegistryMovesKeep ==
  ASSUME LoopInv, NEW r \in Runner, heartbeat(r) \/ revoke(r)
  PROVE  LoopInv'
<1>1. UNCHANGED loopVars  BY DEF heartbeat, revoke
<1>2. reg' \in [Runner -> RunnerRec]
  <2>1. reg[r] \in RunnerRec  BY DEF LoopInv, CopyKnows
  <2>2. CASE heartbeat(r)
    <3>1. PICK h \in Reports : reg' = [reg EXCEPT ![r].beat = 0, ![r].host = h]
      BY <2>2 DEF heartbeat
    <3>2. h \in HostReport  BY ReportsAssumption
    <3>3. reg' = [reg EXCEPT ![r] = [[reg[r] EXCEPT !.beat = 0] EXCEPT !.host = h]]
      BY <3>1 DEF LoopInv, CopyKnows
    <3>4. PICK rec : rec = [reg[r] EXCEPT !.beat = 0]  OBVIOUS
    <3>5. rec \in RunnerRec  BY <2>1, <3>4 DEF RunnerRec
    <3>6. [rec EXCEPT !.host = h] \in RunnerRec  BY <3>2, <3>5 DEF RunnerRec
    <3>7. reg' = [reg EXCEPT ![r] = [rec EXCEPT !.host = h]]  BY <3>3, <3>4
    <3> QED BY <3>6, <3>7 DEF LoopInv, CopyKnows
  <2>3. CASE revoke(r)
    <3>1. reg' = [reg EXCEPT ![r] = [reg[r] EXCEPT !.enrolled = FALSE]]
      BY <2>3 DEF revoke, LoopInv, CopyKnows
    <3>2. [reg[r] EXCEPT !.enrolled = FALSE] \in RunnerRec  BY <2>1 DEF RunnerRec
    <3> QED BY <3>1, <3>2 DEF LoopInv, CopyKnows
  <2> QED BY <2>2, <2>3
<1>3. CopyKnows'  BY <1>1, <1>2 DEF LoopInv, CopyKnows, loopVars
<1>4. TurnKnows' /\ WaitingIsOfTurn' /\ RestIsDone'
  BY <1>1 DEF LoopInv, TurnKnows, WaitingIsOfTurn, RestIsDone, loopVars
<1>5. Raises'
  BY <1>1 DEF LoopInv, Raises, Ahead, RunnersOf, _check_image_readiness,
     _check_image_pin_divergence, _check_scan_state, loopVars
<1>6. Answered'  BY <1>1 DEF LoopInv, Answered, ClassesOf, loopVars
<1> QED BY <1>3, <1>4, <1>5, <1>6 DEF LoopInv

\* Deliveries and what people do to issues are beside the loop.
LEMMA BesideTheLoop ==
  ASSUME LoopInv, UNCHANGED <<reg, loopVars>>
  PROVE  LoopInv'
<1>1. TurnKnows' /\ CopyKnows' /\ WaitingIsOfTurn' /\ RestIsDone'
  BY DEF LoopInv, TurnKnows, CopyKnows, WaitingIsOfTurn, RestIsDone, loopVars
<1>2. Raises'
  BY DEF LoopInv, Raises, Ahead, RunnersOf, _check_image_readiness,
     _check_image_pin_divergence, _check_scan_state, loopVars
<1>3. Answered'  BY DEF LoopInv, Answered, ClassesOf, loopVars
<1> QED BY <1>1, <1>2, <1>3 DEF LoopInv

LEMMA RestartKeeps ==
  ASSUME LoopInv, Restart
  PROVE  LoopInv'
<1>1. /\ phase' = "rest" /\ snap' = <<>> /\ left' = {} /\ turn' = NoTurn /\ todo' = {}
      /\ heard' = {} /\ reg' = reg
  BY DEF Restart
<1>2. DOMAIN snap' = {}  BY <1>1
<1>3. Raises'
  BY <1>2 DEF Raises, RunnersOf, _check_image_readiness, _check_image_pin_divergence,
     _check_scan_state
<1>4. CopyKnows'  BY <1>1, <1>2 DEF LoopInv, CopyKnows
<1>5. TurnKnows' /\ WaitingIsOfTurn' /\ RestIsDone' /\ Answered'
  BY <1>1 DEF TurnKnows, NoTurn, WaitingIsOfTurn, RestIsDone, Answered
<1> QED BY <1>3, <1>4, <1>5 DEF LoopInv

LEMMA LoopInvInductive == LoopInv /\ [Next]_vars => LoopInv'
<1> SUFFICES ASSUME LoopInv, [Next]_vars PROVE LoopInv'
  OBVIOUS
<1>1. CASE LoopStep
  <2>1. CASE StartCycle \/ StartRepo \/ EndCycle
    BY <2>1, StartCycleKeeps, StartRepoKeeps, EndCycleKeeps
  <2>2. ASSUME NEW p \in Repo,
               \/ RegistryChecks(p) \/ StatusCheck(p) \/ QueueCheck(p) \/ _watched_branches(p)
               \/ BranchChecks(p) \/ WorkflowChecks(p) \/ Silent(p) \/ PollFails(p)
        PROVE  LoopInv'
    BY <2>2, RegistryChecksKeep, StatusCheckKeeps, QueueCheckKeeps, WatchedBranchesKeep,
       BranchChecksKeep, WorkflowChecksKeep, SilentKeeps, PollFailsKeeps
  <2>3. CASE _raise_alert \/ LogFails  BY <2>3, RaiseKeeps, LogFailsKeeps
  <2>4. CASE DeliverAlert  BY <2>4, BesideTheLoop DEF DeliverAlert
  <2> QED BY <1>1, <2>1, <2>2, <2>3, <2>4 DEF LoopStep
<1>2. CASE World  BY <1>2, BesideTheLoop DEF World
<1>3. CASE TimePasses \/ Restart  BY <1>3, TimeKeeps, RestartKeeps
<1>4. CASE \E r \in Runner : heartbeat(r) \/ revoke(r)  BY <1>4, RegistryMovesKeep
<1>5. CASE UNCHANGED vars  BY <1>5, BesideTheLoop DEF vars
<1> QED BY <1>1, <1>2, <1>3, <1>4, <1>5 DEF Next

LEMMA LoopInvHolds == Spec => []LoopInv
BY LoopInvInit, LoopInvInductive, PTL DEF Spec

\* _poll_repo: what the registry alone knows about a host is raised in every
\* cycle that ends, whatever GitHub answers, for any fleet; only a repository
\* whose log line could not be written is excused.
THEOREM RegistryIsHeard == Spec => []RegistryAlarms
<1>1. LoopInv => RegistryAlarms
  <2> SUFFICES ASSUME LoopInv, phase = "rest", NEW r \in DOMAIN snap, RepoOf[r] \notin lost
               PROVE  LET p == RepoOf[r]
                          s == snap[r].host.scan
                      IN  /\ ~snap[r].host.image => <<p, "runner_image_missing", r>> \in raised
                          /\ snap[r].host.pin => <<p, "image_pin_divergence", "?">> \in raised
                          /\ "findings" \in s.states => <<p, "runner_scan_findings", r>> \in raised
                          /\ ~s.usable \/ "unscannable" \in s.states
                               => <<p, "runner_scan_unknown", r>> \in raised
    BY DEF RegistryAlarms
  <2> DEFINE p == RepoOf[r]
             s == snap[r].host.scan
  <2>1. p \in Repo /\ r \in RunnersOf(p)
    BY MonitorAssumption DEF LoopInv, CopyKnows, RunnersOf
  <2>2. left = {} /\ todo = {} /\ turn = NoTurn  BY DEF LoopInv, RestIsDone
  <2>3. ~Ahead(p, 10) /\ ~Ahead(p, 9) /\ ~Ahead(p, 8)
    <3>1. Len(turn.checks) = 0  BY <2>2 DEF NoTurn
    <3> QED BY <3>1 DEF Ahead
  <2>4. /\ _check_image_readiness(p) \subseteq raised
        /\ _check_image_pin_divergence(p) \subseteq raised
        /\ _check_scan_state(p) \subseteq raised
    BY <2>1, <2>2, <2>3 DEF LoopInv, Raises
  <2>5. s \in ScanType  BY DEF LoopInv, CopyKnows, RunnerRec, HostReport
  <2>6. ~snap[r].host.image => <<p, "runner_image_missing", r>> \in raised
    BY <2>1, <2>4 DEF _check_image_readiness
  <2>7. snap[r].host.pin => <<p, "image_pin_divergence", "?">> \in raised
    BY <2>1, <2>4 DEF _check_image_pin_divergence
  <2>8. \A c \in scan_alerts(s) : <<p, c, r>> \in raised
    <3>1. \A c \in scan_alerts(s) : <<p, c, r>> \in _check_scan_state(p)
      BY <2>1 DEF _check_scan_state
    <3> QED BY <3>1, <2>4
  <2>9. "findings" \in s.states => "runner_scan_findings" \in scan_alerts(s)
    BY <2>5 DEF scan_alerts, ScanType
  <2>10. ~s.usable \/ "unscannable" \in s.states => "runner_scan_unknown" \in scan_alerts(s)
    BY <2>5 DEF scan_alerts, ScanType
  <2> QED BY <2>6, <2>7, <2>8, <2>9, <2>10
<1> QED BY <1>1, LoopInvHolds, PTL

\* coh-int-05: when a cycle ends every answer that was not a pass has an alert
\* of its repository and of a class that names it, for any list of branches,
\* also when the turn broke off after it; the drift scan is the known exception.
THEOREM NothingIsAllowedByDefault == Spec => []NothingDefaultAllows
<1>1. LoopInv => NothingDefaultAllows
  BY DEF LoopInv, Answered, RestIsDone, NothingDefaultAllows, Surfaced, ClassesOf
<1> QED BY <1>1, LoopInvHolds, PTL

-----------------------------------------------------------------------------
(* The loop and the sink together.                                         *)

AlertClass ==
  {"runner_image_missing", "image_pin_divergence", "runner_scan_findings",
   "runner_scan_unknown", "runner_missing", "runner_offline", "queue_stall",
   "gate_failure", "drift_failed", "drift_overdue", "coherence_missing",
   "coherence_failure", "coherence_skipped", "coherence_overdue",
   "coherence_absent", "coherence_unconfigured"}
AlertKeys == Repo \X AlertClass \X (Runner \cup RunId \cup CheckName \cup {"?"})

\* What waits to be raised has a dedupe key.
Keyed == todo \subseteq AlertKeys

LEMMA AlertsAreKeyed ==
  ASSUME CopyKnows, NEW p \in Repo
  PROVE  /\ _check_image_readiness(p) \subseteq AlertKeys
         /\ _check_image_pin_divergence(p) \subseteq AlertKeys
         /\ _check_scan_state(p) \subseteq AlertKeys
         /\ \A status : _check_runner_status(p, status) \subseteq AlertKeys
         /\ \A stalled \in SUBSET RunId : _check_queue_drain(p, stalled) \subseteq AlertKeys
         /\ \A S \in SUBSET CheckName : \A runs \in [S -> Conclusion] :
              /\ _check_gate_results(p, runs) \subseteq AlertKeys
              /\ check_check_runs(p, runs) \subseteq AlertKeys
         /\ \A latest : /\ _check_drift_scan(p, latest) \subseteq AlertKeys
                        /\ check_workflow_runs(p, latest) \subseteq AlertKeys
         /\ CoherenceUnconfigured(p) \subseteq AlertKeys
<1>1. RunnersOf(p) \subseteq Runner  BY DEF CopyKnows, RunnersOf
<1>2. \A c \in AlertClass, x \in Runner \cup RunId \cup CheckName \cup {"?"} :
        <<p, c, x>> \in AlertKeys
  BY DEF AlertKeys
<1>3. _check_image_readiness(p) \subseteq AlertKeys
  BY <1>1, <1>2 DEF _check_image_readiness, AlertClass
<1>4. _check_image_pin_divergence(p) \subseteq AlertKeys
  BY <1>2 DEF _check_image_pin_divergence, AlertClass
<1>5. _check_scan_state(p) \subseteq AlertKeys
  <2>1. \A s : scan_alerts(s) \subseteq AlertClass  BY DEF scan_alerts, AlertClass
  <2> QED BY <1>1, <1>2, <2>1 DEF _check_scan_state
<1>6. ASSUME NEW status PROVE _check_runner_status(p, status) \subseteq AlertKeys
  BY <1>1, <1>2 DEF _check_runner_status, AlertClass
<1>7. ASSUME NEW stalled \in SUBSET RunId PROVE _check_queue_drain(p, stalled) \subseteq AlertKeys
  BY <1>2 DEF _check_queue_drain, AlertClass
<1>8. ASSUME NEW S \in SUBSET CheckName, NEW runs \in [S -> Conclusion]
      PROVE  /\ _check_gate_results(p, runs) \subseteq AlertKeys
             /\ check_check_runs(p, runs) \subseteq AlertKeys
  <2>1. Failing(runs) \subseteq CheckName  BY DEF Failing
  <2> QED BY <1>2, <2>1 DEF _check_gate_results, check_check_runs, AlertClass
<1>9. ASSUME NEW latest
      PROVE  /\ _check_drift_scan(p, latest) \subseteq AlertKeys
             /\ check_workflow_runs(p, latest) \subseteq AlertKeys
  <2>1. \A c \in AlertClass : <<p, c, "?">> \in AlertKeys  BY <1>2
  <2>2. _check_drift_scan(p, latest)
          \subseteq {<<p, "drift_overdue", "?">>, <<p, "drift_failed", "?">>}
    BY DEF _check_drift_scan
  <2>3. check_workflow_runs(p, latest)
          \subseteq {<<p, "coherence_missing", "?">>, <<p, "coherence_failure", "?">>,
                     <<p, "coherence_skipped", "?">>, <<p, "coherence_overdue", "?">>}
    BY DEF check_workflow_runs
  <2> QED BY <2>1, <2>2, <2>3 DEF AlertClass
<1>10. CoherenceUnconfigured(p) \subseteq AlertKeys
  BY <1>2 DEF CoherenceUnconfigured, AlertClass
<1> QED BY <1>3, <1>4, <1>5, <1>6, <1>7, <1>8, <1>9, <1>10

\* A check of a turn leaves the sink alone, and its alerts have keys.
LEMMA ChecksAreKeyed ==
  ASSUME LoopInv, Keyed, NEW p \in Repo,
         \/ RegistryChecks(p) \/ StatusCheck(p) \/ QueueCheck(p) \/ _watched_branches(p)
         \/ BranchChecks(p) \/ WorkflowChecks(p) \/ Silent(p) \/ PollFails(p)
  PROVE  Keyed' /\ UNCHANGED alertVars
<1>k. CopyKnows  BY DEF LoopInv
<1>1. CASE RegistryChecks(p)
  BY <1>1, <1>k, AlertsAreKeyed DEF RegistryChecks, Checked, Keyed
<1>2. CASE StatusCheck(p)
  BY <1>2, <1>k, AlertsAreKeyed DEF StatusCheck, Checked, Keyed
<1>3. CASE QueueCheck(p)
  BY <1>3, <1>k, AlertsAreKeyed DEF QueueCheck, Checked, Keyed
<1>4. CASE _watched_branches(p)
  BY <1>4 DEF _watched_branches, Keyed
<1>5. CASE BranchChecks(p)
  <2>1. PICK S \in SUBSET CheckName : \E runs \in [S -> Conclusion] :
          /\ todo' = _check_gate_results(p, runs) \/ todo' = check_check_runs(p, runs)
          /\ UNCHANGED alertVars
    BY <1>5 DEF BranchChecks, Checked
  <2> QED BY <2>1, <1>k, AlertsAreKeyed DEF Keyed
<1>6. CASE WorkflowChecks(p)
  <2>1. /\ \E latest \in Latest : \/ todo' = _check_drift_scan(p, latest)
                                  \/ todo' = CoherenceUnconfigured(p)
                                  \/ todo' = check_workflow_runs(p, latest)
        /\ UNCHANGED alertVars
    BY <1>6 DEF WorkflowChecks, Checked
  <2> QED BY <2>1, <1>k, AlertsAreKeyed DEF Keyed
<1>7. CASE Silent(p)  BY <1>7 DEF Silent, Checked, Keyed
<1>8. CASE PollFails(p)  BY <1>8 DEF PollFails, Keyed
<1> QED BY <1>1, <1>2, <1>3, <1>4, <1>5, <1>6, <1>7, <1>8

LEMMA StepsTheSink ==
  ASSUME LoopInv, Keyed, [Next]_vars, AlertKeys \subseteq Key,
         "restart" \in MonFaults => "restart" \in Faults
  PROVE  Keyed' /\ [AlertsNext]_alertVars
<1>1. CASE StartCycle \/ StartRepo \/ EndCycle
  BY <1>1 DEF StartCycle, StartRepo, EndCycle, Keyed
<1>2. CASE \E p \in Repo :
             \/ RegistryChecks(p) \/ StatusCheck(p) \/ QueueCheck(p) \/ _watched_branches(p)
             \/ BranchChecks(p) \/ WorkflowChecks(p) \/ Silent(p) \/ PollFails(p)
  BY <1>2, ChecksAreKeyed
<1>3. CASE _raise_alert
  <2>1. PICK k \in todo : raise_alert(k) /\ todo' = todo \ {k}  BY <1>3 DEF _raise_alert
  <2>2. k \in Key  BY DEF Keyed
  <2> QED BY <2>1, <2>2 DEF Keyed, AlertsNext
<1>4. CASE LogFails  BY <1>4 DEF LogFails, Keyed
<1>5. CASE DeliverAlert  BY <1>5 DEF DeliverAlert, AlertsNext, Keyed, loopVars
<1>6. CASE World  BY <1>6 DEF World, AlertsNext, Keyed, loopVars
<1>7. CASE TimePasses  BY <1>7 DEF TimePasses, Keyed
<1>8. CASE Restart  BY <1>8 DEF Restart, AlertsRestart, AlertsNext, Keyed
<1>9. CASE \E r \in Runner : heartbeat(r) \/ revoke(r)
  BY <1>9 DEF heartbeat, revoke, Keyed, loopVars
<1>10. CASE UNCHANGED vars  BY <1>10 DEF vars, Keyed, loopVars
<1> QED BY <1>1, <1>2, <1>3, <1>4, <1>5, <1>6, <1>7, <1>8, <1>9, <1>10 DEF Next, LoopStep

\* The loop uses the sink only through raise_alert, one call at a time: every
\* behaviour of the loop is one of the sink, if every alert has a dedupe key and
\* the sink may be restarted when the hub may.
THEOREM LoopImplementsSink ==
  ASSUME AlertKeys \subseteq Key, "restart" \in MonFaults => "restart" \in Faults
  PROVE  Spec => AlertsSpec
<1>1. MonitorInit => AlertsInit /\ Keyed  BY DEF MonitorInit, LoopInit, Keyed
<1>2. LoopInv /\ Keyed /\ [Next]_vars => Keyed' /\ [AlertsNext]_alertVars  BY StepsTheSink
<1> QED BY <1>1, <1>2, LoopInvHolds, PTL DEF Spec, AlertsSpec

\* One open issue per key and no silence that was not earned (alerts.py), of the
\* whole polling loop with its restarts.
THEOREM LoopKeepsOneIssue ==
  ASSUME AlertKeys \subseteq Key, "restart" \in MonFaults => "restart" \in Faults,
         "search_refused" \notin Faults
  PROVE  Spec => [](OneOpenIssue /\ SuppressionIsEarned)
<1>1. Spec => AlertsSpec  BY LoopImplementsSink
<1>2. AlertsSpec => []OneOpenIssue  BY Dedupe
<1> QED BY <1>1, <1>2, Suppression, PTL
=============================================================================

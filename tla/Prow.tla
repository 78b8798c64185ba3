-------------------------------- MODULE Prow --------------------------------
(***************************************************************************)
(* The Prow fetcher (pkg/prow/fetcher.go) and the analysis of what it      *)
(* fetched (pkg/prow/analyzer.go), as far as the Store and the pages see   *)
(* them.                                                                   *)
(*                                                                         *)
(* A job name is the sequence of the parts its dashes separate; a part is  *)
(* a version or a word.  A run's start is a time, 0 for one that is empty  *)
(* or does not parse.  The Prow API is external.                           *)
(***************************************************************************)
EXTENDS Integers, Sequences, FiniteSets, Functions

CONSTANTS
  Jobs,          \* job names, each a sequence of versions and words
  Words,         \* the parts that are not versions
  PeriodicJobs,  \* the jobs of type "periodic"
  VSphereJobs,   \* the jobs with "vsphere" in their name
  MaxTime,       \* bound on start times
  MaxRev,        \* bound on the changes at the API
  None           \* no version, no success

Versions == [major : Nat, minor : Nat]
States == {"pending", "success", "failure", "aborted"}
Runs == [id : Nat, job : Jobs, state : States, start : Nat]

ASSUME ProwAssumption ==
  /\ Jobs \subseteq Seq(Versions \cup Words)
  /\ Words \cap Versions = {}
  /\ None \notin Versions \cup Nat
  /\ MaxTime \in Nat
  /\ MaxRev \in Nat

-----------------------------------------------------------------------------
(* The version of a job                                                      *)

IsVersion(part) == part \in Versions

(* versionRE consumes the dash after a match, so that a version right after a *)
(* matched one is not matched: of versions in a row, every other one is.      *)
Matched(job) ==
  {i \in 1..Len(job) :
     \E k \in 1..i :
       /\ \A n \in k..i : IsVersion(job[n])
       /\ k = 1 \/ ~IsVersion(job[k - 1])
       /\ (i - k) % 2 = 0}

extractOCPVersion(job) ==
  IF Matched(job) = {} THEN None
  ELSE job[CHOOSE i \in Matched(job) : \A k \in Matched(job) : k <= i]

(* A number below 1000 as its decimal digits, and a version as text, in which *)
(* the dot comes before the digits.                                           *)
Digits(n) == IF n < 10 THEN <<n>>
             ELSE IF n < 100 THEN <<n \div 10, n % 10>>
             ELSE <<n \div 100, (n \div 10) % 10, n % 10>>
Dot == -1
Text(v) == Digits(v.major) \o <<Dot>> \o Digits(v.minor)

(* Go's < on strings: s is a proper prefix of t, or smaller where they first  *)
(* differ.                                                                    *)
TextLess(s, t) ==
  \E i \in 1..Len(t) :
    /\ \A k \in 1..(i - 1) : k <= Len(s) /\ s[k] = t[k]
    /\ i > Len(s) \/ s[i] < t[i]

MinOCPVersion == [major |-> 4, minor |-> 12]

-----------------------------------------------------------------------------
(* Analyze                                                                   *)

(* Mutant: the minimum version itself is left out. *)
WantedAboveMinimum(job) ==
  LET v == extractOCPVersion(job)
  IN  v # None => TextLess(Text(MinOCPVersion), Text(v))

(* extractVSpherePeriodicJobs: the version filter ...                        *)
Wanted(job) ==
  LET v == extractOCPVersion(job)
  IN  v # None => ~TextLess(Text(v), Text(MinOCPVersion))

(* Mutant: the filter on the job type is dropped. *)
WantedAnyType == {j \in VSphereJobs : Wanted(j)}

(* ... with those on type and name, none of which looks at the run ...       *)
WantedJobs == {j \in PeriodicJobs \cap VSphereJobs : Wanted(j)}

(* ... and the one on the run's start.                                       *)
Accepted(items) == {r \in items : r.job \in WantedJobs /\ r.start # 0}

Listings(R) == {s \in [1..Cardinality(R) -> R] : IsInjective(s)}

(* Mutant: the runs are sorted oldest first. *)
OrdersOldestFirst(R) ==
  {s \in Listings(R) : \A i, k \in DOMAIN s : i < k => s[i].start <= s[k].start}

(* sort.Slice is not stable: runs that start together come in any order.     *)
Orders(R) ==
  {s \in Listings(R) : \A i, k \in DOMAIN s : i < k => s[i].start >= s[k].start}

Where(s, state) == {i \in DOMAIN s : s[i].state = state}

(* Mutant: the success looked for is the oldest. *)
lastSuccessOldest(s) ==
  LET ok == Where(s, "success")
  IN  IF ok = {} THEN None
      ELSE s[CHOOSE i \in ok : \A k \in ok : k <= i].start

(* computeLastSuccessAge, as the start of the run its age is of.             *)
lastSuccess(s) ==
  LET ok == Where(s, "success")
  IN  IF ok = {} THEN None
      ELSE s[CHOOSE i \in ok : \A k \in ok : i <= k].start

(* Mutant: a run that is not a success is a failure. *)
SummaryStrict(s) ==
  [runs     |-> s,
   latest   |-> s[1].state,
   total    |-> Len(s),
   failures |-> Len(s) - Cardinality(Where(s, "success")),
   success  |-> lastSuccess(s)]

(* What aggregate computes for one job from its sorted runs.                 *)
Summary(s) ==
  [runs     |-> s,
   latest   |-> s[1].state,
   total    |-> Len(s),
   failures |-> Cardinality(Where(s, "failure")),
   success  |-> lastSuccess(s)]

(* What aggregate may compute for the runs of one job.                       *)
Summaries(R) == {Summary(s) : s \in Orders(R)}

OfJob(runs, j) == {r \in runs : r.job = j}

(* aggregate: the summaries by job it may return.  The order of the summaries *)
(* by name is left out.                                                       *)
aggregate(runs) ==
  LET J == {r.job : r \in runs} IN
  {f \in [J -> UNION {Summaries(OfJob(runs, j)) : j \in J}] :
     \A j \in J : f[j] \in Summaries(OfJob(runs, j))}

Analyze(items) == aggregate(Accepted(items))

-----------------------------------------------------------------------------
VARIABLES
  remote,     \* the runs at the Prow API
  rev,        \* number of changes of them so far
  pc,         \* where Run is
  body,       \* the response being analyzed: what remote was, and at which rev
  ticking,    \* the ticker exists: the initial fetch is over
  tick,       \* a tick waits in its channel
  cancelled,  \* the context is cancelled
  shown,      \* the Store's prowJobs
  source      \* the response shown was computed from

vars == <<remote, rev, pc, body, ticking, tick, cancelled, shown, source>>

Responses == [items : SUBSET Runs, rev : Nat]
NoResponse == [items |-> {}, rev |-> 0]

TypeOK ==
  /\ remote \in SUBSET Runs
  /\ rev \in Nat
  /\ pc \in {"fetching", "callback", "select", "returned"}
  /\ body \in Responses
  /\ {ticking, tick, cancelled} \subseteq BOOLEAN
  /\ DOMAIN shown \subseteq Jobs
  /\ source \in Responses

Init ==
  /\ remote = {}
  /\ rev = 0
  /\ pc = "fetching"
  /\ body = NoResponse
  /\ ticking = FALSE
  /\ tick = FALSE
  /\ cancelled = FALSE
  /\ shown = <<>>
  /\ source = NoResponse

(* The Prow API: runs start, end and are pruned.                             *)
Remote(items) ==
  /\ rev < MaxRev
  /\ rev' = rev + 1
  /\ remote' = items
  /\ UNCHANGED <<pc, body, ticking, tick, cancelled, shown, source>>

(* Between two fetches a run may start and succeed.                          *)
RunStarts ==
  \E j \in Jobs, t \in 0..MaxTime, st \in {"pending", "success"} :
    Remote(remote \cup {[id |-> rev, job |-> j, state |-> st, start |-> t]})

RunEnds ==
  \E r \in remote, st \in States \ {"pending"} :
    r.state = "pending" /\ Remote((remote \ {r}) \cup {[r EXCEPT !.state = st]})

RunPruned == \E r \in remote : Remote(remote \ {r})

-----------------------------------------------------------------------------
(* Run                                                                       *)

(* FetchOnce gets the whole of a response.                                   *)
FetchOk ==
  /\ pc = "fetching"
  /\ ~cancelled
  /\ body' = [items |-> remote, rev |-> rev]
  /\ pc' = "callback"
  /\ UNCHANGED <<remote, rev, ticking, tick, cancelled, shown, source>>

(* Mutant: the first fetch that fails ends the loop. *)
FetchFailsForGood ==
  /\ pc = "fetching"
  /\ ticking' = TRUE
  /\ pc' = "returned"
  /\ UNCHANGED <<remote, rev, body, tick, cancelled, shown, source>>

(* Mutant: a failed fetch calls back with no jobs. *)
FetchFailsEmpty ==
  /\ pc = "fetching"
  /\ ticking' = TRUE
  /\ body' = NoResponse
  /\ pc' = "callback"
  /\ UNCHANGED <<remote, rev, tick, cancelled, shown, source>>

(* An error, a status that is not 200, a body that does not parse, the        *)
(* timeout or the cancelled context: nothing is called back.                  *)
FetchFails ==
  /\ pc = "fetching"
  /\ ticking' = TRUE
  /\ pc' = "select"
  /\ UNCHANGED <<remote, rev, body, tick, cancelled, shown, source>>

(* callback: SetProwJobs                                                     *)
Callback ==
  /\ pc = "callback"
  /\ shown' \in Analyze(body.items)
  /\ source' = body
  /\ body' = NoResponse
  /\ ticking' = TRUE
  /\ pc' = "select"
  /\ UNCHANGED <<remote, rev, tick, cancelled>>

SelectTick ==
  /\ pc = "select"
  /\ tick
  /\ tick' = FALSE
  /\ pc' = "fetching"
  /\ UNCHANGED <<remote, rev, body, ticking, cancelled, shown, source>>

(* Mutant: the context is not looked at. *)
SelectNotDone == FALSE

SelectDone ==
  /\ pc = "select"
  /\ cancelled
  /\ pc' = "returned"
  /\ UNCHANGED <<remote, rev, body, ticking, tick, cancelled, shown, source>>

(* The ticker's channel holds one tick.                                      *)
Tick ==
  /\ ticking
  /\ ~tick
  /\ pc # "returned"
  /\ tick' = TRUE
  /\ UNCHANGED <<remote, rev, pc, body, ticking, cancelled, shown, source>>

Cancel ==
  /\ ~cancelled
  /\ cancelled' = TRUE
  /\ UNCHANGED <<remote, rev, pc, body, ticking, tick, shown, source>>

Api == RunStarts \/ RunEnds \/ RunPruned
Run == FetchOk \/ FetchFails \/ Callback \/ SelectTick \/ SelectDone

Next == Api \/ Run \/ Tick \/ Cancel

Spec == Init /\ [][Next]_vars

(* Run goes on: httpTimeout ends every fetch, and the select chooses at       *)
(* random when both of its channels are ready, so that neither is overlooked  *)
(* for ever.                                                                  *)
FairSpec ==
  /\ Spec
  /\ WF_vars(Run) /\ WF_vars(Tick)
  /\ SF_vars(SelectDone)

(* A Prow API that does not fail for ever.                                    *)
ApiAnswers == SF_vars(FetchOk)

-----------------------------------------------------------------------------
(* Properties                                                                *)

RunsOf(j) == {r \in source.items : r.job = j /\ r.start # 0}
Successes(j) == {r \in RunsOf(j) : r.state = "success"}

(* README.md:113, "Filtered to vSphere periodic jobs": a job shown is one, and *)
(* has a run in the response the summaries were computed from.                *)
OnlyVSpherePeriodics ==
  \A j \in DOMAIN shown :
    j \in PeriodicJobs /\ j \in VSphereJobs /\ RunsOf(j) # {}

(* analyzer.go:109: the latest state of a job is that of a run no other run    *)
(* of the job started after; the runs are listed each once.                   *)
LatestIsLatest ==
  \A j \in DOMAIN shown :
    LET top == shown[j].runs[1] IN
    /\ Range(shown[j].runs) = RunsOf(j)
    /\ shown[j].latest = top.state
    /\ \A r \in RunsOf(j) : r.start <= top.start

(* analyzer.go:128-135: the failure rate of a job is that of all of its runs, *)
(* of which each was counted once.                                            *)
CountsAddUp ==
  \A j \in DOMAIN shown :
    /\ shown[j].total = Cardinality(RunsOf(j))
    /\ shown[j].failures =
         Cardinality({r \in RunsOf(j) : r.state = "failure"})

(* analyzer.go:212-227: the age shown as that of the last success is of a     *)
(* success with none after it; "never" is shown only if there is none.        *)
LastSuccessIsLast ==
  \A j \in DOMAIN shown :
    LET ok == {r.start : r \in Successes(j)} IN
    IF ok = {} THEN shown[j].success = None
    ELSE shown[j].success \in ok /\ \A t \in ok : t <= shown[j].success

(* fetcher.go:86-91, 102-107: a fetch that fails leaves what is shown, and it  *)
(* is only replaced by what the API said later.                               *)
FailureKeepsData ==
  [][(source' # source \/ shown' # shown) =>
       pc = "callback" /\ source'.rev >= source.rev /\ source'.rev <= rev']_vars

(* analyzer.go:11: from 4.12 on a version is supported.                      *)
Supported(v) ==
  \/ v.major > MinOCPVersion.major
  \/ v.major = MinOCPVersion.major /\ v.minor >= MinOCPVersion.minor

(* The other half of README.md:113, "with OCP version >= 4.12": no such job   *)
(* with a run is left out, nor one without a version; of versions beyond 9 or *)
(* of minors beyond 99, which have no release, nothing is said.               *)
NothingMissing ==
  \A r \in source.items :
    LET v == extractOCPVersion(r.job) IN
    /\ r.job \in PeriodicJobs \cap VSphereJobs
    /\ r.start # 0
    /\ v # None => Supported(v) /\ v.major < 10 /\ v.minor < 100
    => r.job \in DOMAIN shown

(* A job of a version that is not supported is not shown.                     *)
NoOldVersions ==
  \A j \in DOMAIN shown :
    LET v == extractOCPVersion(j) IN v # None => Supported(v)

(* The last state of the API (changes are bounded) comes to be shown and       *)
(* stays, however many fetches fail before, unless the dashboard stops.        *)
EventuallyShown == ApiAnswers => <>[](source.rev = rev \/ cancelled)

(* Run ends after the context is cancelled, whatever the API does.             *)
CancelStopsRun == cancelled ~> pc = "returned"

=============================================================================

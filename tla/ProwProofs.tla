----------------------------- MODULE ProwProofs -----------------------------
(***************************************************************************)
(* Proofs about the Prow fetcher and the analysis, for any set of jobs and *)
(* any runs at the API: types, that what is shown is only replaced by what *)
(* the API said later, that it is exactly the jobs it should be, and that  *)
(* the summaries tell the truth about the response they come from.         *)
(***************************************************************************)
EXTENDS Prow, FiniteSetTheorems, FunctionTheorems, TLAPS

(* The response under analysis is newer than the one shown.                  *)
RevInv ==
  /\ source.rev <= rev
  /\ pc = "callback" => body.rev \in source.rev..rev

(* A response lists finitely many runs.                                      *)
FiniteInv ==
  /\ IsFiniteSet(remote)
  /\ IsFiniteSet(body.items)
  /\ IsFiniteSet(source.items)

(* What is shown was computed from the response it is said to be from.       *)
ShownInv ==
  \/ DOMAIN shown = {} /\ source = NoResponse
  \/ shown \in Analyze(source.items)

Inv == TypeOK /\ RevInv /\ FiniteInv /\ ShownInv

-----------------------------------------------------------------------------
(* Numbers                                                                   *)

(* A set of numbers that is not empty has a least one ...                    *)
LEMMA Least ==
  ASSUME NEW T, T \subseteq Nat, T # {}
  PROVE  \E x \in T : \A y \in T : x <= y
<1>1. \E x \in T : \A y \in T : ~(<<y, x>> \in OpToRel(<, Nat))
  BY NatLessThanWellFounded, WFMin, Zenon
<1>2. PICK x \in T : \A y \in T : ~(y < x)
  BY <1>1 DEF OpToRel
<1> QED BY <1>2

(* ... and, if it is bounded, a greatest one.                                *)
LEMMA Greatest ==
  ASSUME NEW n \in Nat, NEW T, T \subseteq 1..n, T # {}
  PROVE  \E x \in T : \A y \in T : y <= x
<1> DEFINE U == {n - x : x \in T}
<1>0. \A x \in T : x \in Nat /\ n - x \in Nat
  OBVIOUS
<1>1. U \subseteq Nat /\ U # {}
  BY <1>0
<1>2. PICK u \in U : \A y \in U : u <= y
  BY <1>1, Least
<1>3. PICK x \in T : u = n - x
  BY <1>2
<1>4. ASSUME NEW y \in T PROVE y <= x
  <2>1. n - y \in U /\ x \in 1..n /\ y \in 1..n
    OBVIOUS
  <2>2. n - x <= n - y
    BY <1>2, <1>3, <2>1
  <2> HIDE DEF U
  <2> QED BY <2>1, <2>2
<1> QED BY <1>4

-----------------------------------------------------------------------------
(* The version of a job                                                      *)

LEMMA VersionOfJob ==
  ASSUME NEW job \in Jobs, extractOCPVersion(job) # None
  PROVE  extractOCPVersion(job) \in Versions
<1> DEFINE M == Matched(job)
<1>1. M # {}
  BY DEF extractOCPVersion
<1>2. Len(job) \in Nat /\ M \subseteq 1..Len(job)
  BY ProwAssumption DEF Matched
<1>3. \A i \in M : job[i] \in Versions
  BY ProwAssumption DEF Matched, IsVersion
<1>4. \E i \in M : \A k \in M : k <= i
  BY <1>1, <1>2, Greatest
<1>5. (CHOOSE i \in M : \A k \in M : k <= i) \in M
  BY <1>4
<1> QED BY <1>1, <1>3, <1>5 DEF extractOCPVersion

(* As text, no supported version with one digit before the dot and at most   *)
(* two after it comes before the minimum.                                    *)
LEMMA SupportedNotLess ==
  ASSUME NEW v \in Versions, Supported(v), v.major < 10, v.minor < 100
  PROVE  ~TextLess(Text(v), Text(MinOCPVersion))
<1> DEFINE s == Text(v)
           t == Text(MinOCPVersion)
<1>1. v.major \in Nat /\ v.minor \in Nat
  BY DEF Versions
<1>2. Len(t) = 4 /\ t[1] = 4 /\ t[2] = -1 /\ t[3] = 1 /\ t[4] = 2
  <2>1. MinOCPVersion.major = 4 /\ MinOCPVersion.minor = 12
    BY DEF MinOCPVersion
  <2>2. Digits(4) = <<4>> /\ Digits(12) = <<1, 2>>
    BY DEF Digits
  <2>3. t = <<4>> \o <<-1>> \o <<1, 2>>
    BY <2>1, <2>2, Zenon DEF Text, Dot
  <2> HIDE DEF t
  <2> QED BY <2>3
<1>3. Digits(v.major) = <<v.major>>
  BY DEF Digits
<1>4. v.major > 4 \/ (v.major = 4 /\ v.minor >= 12)
  <2>1. MinOCPVersion.major = 4 /\ MinOCPVersion.minor = 12
    BY DEF MinOCPVersion
  <2> QED BY <1>1, <2>1 DEF Supported
<1>5. s[1] = v.major /\ Len(s) >= 1
  <2>1. CASE v.minor < 10
    BY <1>1, <1>3, <2>1 DEF Text, Dot, Digits
  <2>2. CASE v.minor >= 10
    BY <1>1, <1>3, <2>2 DEF Text, Dot, Digits
  <2> QED BY <1>1, <2>1, <2>2
<1>6. CASE v.major > 4
  BY <1>1, <1>2, <1>5, <1>6 DEF TextLess
<1>7. CASE v.major = 4 /\ v.minor >= 12
  <2> DEFINE d == v.minor \div 10
             u == v.minor % 10
  <2>1. Digits(v.minor) = <<d, u>>
    BY <1>1, <1>7 DEF Digits
  <2>2. s = <<4>> \o <<-1>> \o <<d, u>>
    BY <1>3, <1>7, <2>1, Zenon DEF Text, Dot
  <2>3. d \in Nat /\ u \in 0..9 /\ v.minor = 10 * d + u
    BY <1>1
  <2> HIDE DEF d, u
  <2>5. d >= 1 /\ (d = 1 => u >= 2)
    BY <1>1, <1>7, <2>3
  <2> HIDE DEF s, t
  <2>6. Len(s) = 4 /\ s[1] = 4 /\ s[2] = -1 /\ s[3] = d /\ s[4] = u
    BY <2>2, <2>3
  <2>7. ASSUME NEW i \in 1..4,
               \A k \in 1..(i - 1) : k <= Len(s) /\ s[k] = t[k],
               i > Len(s) \/ s[i] < t[i]
        PROVE  FALSE
    BY <1>2, <2>3, <2>5, <2>6, <2>7
  <2>8. ~TextLess(s, t)
    BY <1>2, <2>7 DEF TextLess
  <2> QED BY <2>8 DEF s, t
<1> QED BY <1>4, <1>6, <1>7

-----------------------------------------------------------------------------
(* The order of a job's runs and what is computed from it                    *)

(* A listing of a finite set is a sequence of its elements, each once.       *)
LEMMA OrderLists ==
  ASSUME NEW R, IsFiniteSet(R), NEW s \in Orders(R)
  PROVE  /\ Cardinality(R) \in Nat
         /\ s \in [1..Cardinality(R) -> R]
         /\ s \in Injection(1..Cardinality(R), R)
         /\ Range(s) = R
         /\ Len(s) = Cardinality(R)
         /\ \A i, k \in DOMAIN s : i < k => s[i].start >= s[k].start
<1> DEFINE n == Cardinality(R)
<1>1. n \in Nat
  BY FS_CardinalityType
<1>2. s \in [1..n -> R] /\ IsInjective(s)
  BY DEF Orders, Listings
<1>3. s \in Injection(1..n, R)
  BY <1>2 DEF Injection
<1>4. Cardinality(1..n) = n
  BY <1>1, FS_Interval
<1>5. s \in Surjection(1..n, R)
  BY <1>3, <1>4, FS_Injection
<1>6. Range(s) = R
  BY <1>5, Fun_SurjectionProperties
<1>7. Len(s) = n
  BY <1>1, <1>2
<1>8. \A i, k \in DOMAIN s : i < k => s[i].start >= s[k].start
  BY DEF Orders
<1> QED BY <1>1, <1>2, <1>3, <1>6, <1>7, <1>8

(* The positions of a state are as many as the runs in it.                   *)
LEMMA WhereCounts ==
  ASSUME NEW R, IsFiniteSet(R), NEW s \in Orders(R), NEW state
  PROVE  Cardinality(Where(s, state)) = Cardinality({r \in R : r.state = state})
<1> DEFINE S == Where(s, state)
           T == {r \in R : r.state = state}
           f == [i \in S |-> s[i]]
<1>1. /\ s \in [1..Cardinality(R) -> R]
      /\ s \in Injection(1..Cardinality(R), R)
      /\ Range(s) = R
  BY OrderLists
<1>2. DOMAIN s = 1..Cardinality(R) /\ \A i \in DOMAIN s : s[i] \in R
  BY <1>1
<1>3. \A i, k \in DOMAIN s : s[i] = s[k] => i = k
  BY <1>1 DEF Injection, IsInjective
<1>4. S \subseteq DOMAIN s /\ \A i \in S : s[i].state = state
  BY DEF Where
<1>5. f \in [S -> T]
  BY <1>2, <1>4
<1>6. f \in Injection(S, T)
  BY <1>3, <1>4, <1>5, Fun_IsInj
<1>7. \A t \in T : \E i \in S : f[i] = t
  BY <1>1 DEF Range, Where
<1>8. f \in Surjection(S, T)
  BY <1>5, <1>7, Fun_IsSurj
<1>9. IsFiniteSet(T)
  BY FS_Subset
<1> HIDE DEF S, T, f
<1>10. Cardinality(S) = Cardinality(T)
  BY <1>6, <1>8, <1>9, FS_Injection
<1> QED BY <1>10 DEF S, T

(* The success named is the first, so that none in the list started later.   *)
LEMMA FirstSuccess ==
  ASSUME NEW R, IsFiniteSet(R), NEW s \in Orders(R),
         \A r \in R : r.start \in Nat
  PROVE  LET ok == {r.start : r \in {x \in R : x.state = "success"}} IN
         IF ok = {} THEN lastSuccess(s) = None
         ELSE lastSuccess(s) \in ok /\ \A t \in ok : t <= lastSuccess(s)
<1> DEFINE W == Where(s, "success")
           succ == {x \in R : x.state = "success"}
           ok == {r.start : r \in succ}
<1>1. /\ s \in [1..Cardinality(R) -> R]
      /\ Range(s) = R
      /\ Cardinality(R) \in Nat
      /\ \A i, k \in DOMAIN s : i < k => s[i].start >= s[k].start
  BY OrderLists
<1>2. DOMAIN s = 1..Cardinality(R) /\ \A i \in DOMAIN s : s[i] \in R
  BY <1>1
<1>3. \A r \in R : \E i \in DOMAIN s : s[i] = r
  BY <1>1 DEF Range
<1>4. \A r \in succ : \E i \in W : s[i] = r
  BY <1>3 DEF Where
<1>5. \A i \in W : i \in DOMAIN s /\ s[i] \in succ
  BY <1>2 DEF Where
<1>6. CASE W = {}
  <2>1. ok = {}
    BY <1>4, <1>6
  <2>2. lastSuccess(s) = None
    BY <1>6 DEF lastSuccess
  <2> QED BY <2>1, <2>2
<1>7. CASE W # {}
  <2>1. W \subseteq Nat
    BY <1>2, <1>5
  <2>2. \E i \in W : \A k \in W : i <= k
    BY <1>7, <2>1, Least
  <2> DEFINE i == CHOOSE i \in W : \A k \in W : i <= k
  <2>3. i \in W /\ \A k \in W : i <= k
    BY <2>2
  <2>4. lastSuccess(s) = s[i].start
    BY <1>7 DEF lastSuccess
  <2> HIDE DEF i
  <2>5. s[i].start \in ok
    BY <1>5, <2>3
  <2>6. ASSUME NEW t \in ok PROVE t <= s[i].start
    <3>1. PICK r \in succ : t = r.start
      OBVIOUS
    <3>2. PICK k \in W : s[k] = r
      BY <1>4
    <3>3. i <= k /\ i \in DOMAIN s /\ k \in DOMAIN s
      BY <1>5, <2>3
    <3>4. i = k \/ i < k
      BY <1>2, <3>3
    <3>5. s[i].start \in Nat /\ s[k].start \in Nat
      BY <1>2, <3>3
    <3> QED BY <1>1, <3>1, <3>2, <3>3, <3>4, <3>5
  <2>7. ok # {}
    BY <2>5
  <2> QED BY <2>4, <2>5, <2>6, <2>7
<1> QED BY <1>6, <1>7

(* What aggregate returns: a summary of every job with an accepted run, and  *)
(* of no other.                                                              *)
LEMMA AnalyzeJobs ==
  ASSUME NEW items, NEW f \in Analyze(items)
  PROVE  /\ DOMAIN f = {r.job : r \in Accepted(items)}
         /\ \A j \in DOMAIN f :
              \E s \in Orders(OfJob(Accepted(items), j)) : f[j] = Summary(s)
<1> DEFINE R == Accepted(items)
           J == {r.job : r \in R}
<1>1. /\ f \in [J -> UNION {Summaries(OfJob(R, j)) : j \in J}]
      /\ \A j \in J : f[j] \in Summaries(OfJob(R, j))
  BY Zenon DEF Analyze, aggregate
<1> QED BY <1>1 DEF Summaries

(* What aggregate returns has a summary for known jobs only.                 *)
LEMMA AnalyzeDomain ==
  ASSUME NEW items \in SUBSET Runs, NEW f \in Analyze(items)
  PROVE  DOMAIN f \subseteq Jobs
<1>1. Accepted(items) \subseteq Runs
  BY DEF Accepted
<1>2. \A r \in Runs : r.job \in Jobs
  BY DEF Runs
<1>3. DOMAIN f = {r.job : r \in Accepted(items)}
  BY AnalyzeJobs
<1>4. QED BY <1>1, <1>2, <1>3

-----------------------------------------------------------------------------
(* The invariant                                                             *)

LEMMA ResponseFields ==
  ASSUME NEW r \in Responses
  PROVE  r.items \in SUBSET Runs /\ r.rev \in Nat
BY DEF Responses

LEMMA NoResponseType ==
  /\ NoResponse \in Responses
  /\ NoResponse.rev = 0
  /\ NoResponse.items = {}
  /\ IsFiniteSet(NoResponse.items)
<1>1. NoResponse.items = {}
  BY DEF NoResponse
<1>2. IsFiniteSet(NoResponse.items)
  BY <1>1, FS_EmptySet
<1> QED BY <1>1, <1>2 DEF NoResponse, Responses

LEMMA InitInv == Init => Inv
<1> SUFFICES ASSUME Init PROVE Inv
  OBVIOUS
<1>1. TypeOK
  <2>1. DOMAIN shown = {}
    BY DEF Init
  <2>2. {ticking, tick, cancelled} \subseteq BOOLEAN
    BY DEF Init
  <2>3. remote \in SUBSET Runs /\ rev \in Nat
    BY DEF Init
  <2>4. body \in Responses /\ source \in Responses
    BY NoResponseType DEF Init
  <2>5. pc \in {"fetching", "callback", "select", "returned"}
    BY DEF Init
  <2>6. QED BY <2>1, <2>2, <2>3, <2>4, <2>5 DEF TypeOK
<1>2. source.rev = 0 /\ rev = 0
  <2>1. source = NoResponse /\ rev = 0
    BY DEF Init
  <2>2. QED BY <2>1, NoResponseType
<1>3. pc # "callback"
  BY DEF Init
<1>4. RevInv
  BY <1>2, <1>3 DEF RevInv
<1>5. FiniteInv
  <2>1. remote = {} /\ body = NoResponse /\ source = NoResponse
    BY DEF Init
  <2>2. QED BY <2>1, NoResponseType, FS_EmptySet DEF FiniteInv
<1>6. ShownInv
  BY DEF Init, ShownInv
<1>7. QED BY <1>1, <1>4, <1>5, <1>6 DEF Inv

(* A change at the API, whichever it is, leaves finitely many runs there.    *)
LEMMA ApiChange ==
  ASSUME TypeOK, FiniteInv, Api
  PROVE  \E items \in SUBSET Runs : IsFiniteSet(items) /\ Remote(items)
<1>1. ASSUME NEW j \in Jobs, NEW t \in 0..MaxTime,
             NEW st \in {"pending", "success"}
      PROVE  [id |-> rev, job |-> j, state |-> st, start |-> t] \in Runs
  BY ProwAssumption DEF TypeOK, Runs, States
<1>2. ASSUME NEW r \in Runs, NEW st \in States
      PROVE  [r EXCEPT !.state = st] \in Runs
  BY DEF Runs
<1>3. ASSUME NEW r, NEW S, IsFiniteSet(S)
      PROVE  IsFiniteSet(S \cup {r}) /\ IsFiniteSet(S \ {r})
  BY <1>3, FS_AddElement, FS_RemoveElement
<1>4. IsFiniteSet(remote) /\ remote \in SUBSET Runs
  BY DEF TypeOK, FiniteInv
<1>5. CASE RunStarts
  <2>1. PICK j \in Jobs, t \in 0..MaxTime, st \in {"pending", "success"} :
          Remote(remote \cup {[id |-> rev, job |-> j, state |-> st, start |-> t]})
    BY <1>5 DEF RunStarts
  <2> DEFINE r == [id |-> rev, job |-> j, state |-> st, start |-> t]
  <2>2. r \in Runs
    BY <1>1
  <2> HIDE DEF r
  <2>3. remote \cup {r} \in SUBSET Runs /\ IsFiniteSet(remote \cup {r})
    BY <1>3, <1>4, <2>2
  <2> QED BY <2>1, <2>3 DEF r
<1>6. CASE RunEnds
  <2>1. PICK r \in remote, st \in States \ {"pending"} :
          Remote((remote \ {r}) \cup {[r EXCEPT !.state = st]})
    BY <1>6 DEF RunEnds
  <2> DEFINE items == (remote \ {r}) \cup {[r EXCEPT !.state = st]}
  <2>2. items \in SUBSET Runs
    BY <1>2, <1>4
  <2>3. IsFiniteSet(items)
    BY <1>3, <1>4
  <2> QED BY <2>1, <2>2, <2>3
<1>7. CASE RunPruned
  BY <1>3, <1>4, <1>7 DEF RunPruned
<1> QED BY <1>5, <1>6, <1>7 DEF Api

LEMMA NextInv == Inv /\ [Next]_vars => Inv'
<1> SUFFICES ASSUME Inv, [Next]_vars PROVE Inv'
  OBVIOUS
<1> USE DEF Inv, TypeOK, RevInv, FiniteInv, ShownInv
<1>0. source.rev \in Nat /\ body.rev \in Nat
  BY ResponseFields
<1>1. ASSUME NEW items \in SUBSET Runs, IsFiniteSet(items), Remote(items)
      PROVE  Inv'
  BY <1>0, <1>1 DEF Remote
<1>2. CASE FetchOk
  <2>1. [items |-> remote, rev |-> rev] \in Responses
    BY DEF Responses
  <2>2. body'.rev = rev /\ body' \in Responses /\ IsFiniteSet(body'.items)
    BY <1>2, <2>1 DEF FetchOk
  <2>3. QED BY <1>0, <1>2, <2>2 DEF FetchOk
<1>3. CASE FetchFails
  BY <1>3 DEF FetchFails
<1>4. CASE Callback
  <2>1. DOMAIN shown' \subseteq Jobs
    BY <1>4, AnalyzeDomain, ResponseFields DEF Callback
  <2>2. source' = body /\ body.rev <= rev
    BY <1>4 DEF Callback
  <2>3. QED BY <1>4, <2>1, <2>2, NoResponseType DEF Callback
<1>5. CASE SelectTick \/ SelectDone \/ Tick \/ Cancel
  BY <1>5 DEF SelectTick, SelectDone, Tick, Cancel
<1>6. CASE UNCHANGED vars
  BY <1>6 DEF vars
<1>7. QED BY <1>1, <1>2, <1>3, <1>4, <1>5, <1>6, ApiChange DEF Next, Run

(* Every variable of the fetcher keeps its type.                             *)
THEOREM TypeCorrect == Spec => []TypeOK
<1>1. Inv => TypeOK
  BY DEF Inv
<1>2. QED BY InitInv, NextInv, <1>1, PTL DEF Spec

(* fetcher.go:86-110: no failed fetch changes what is shown, and no response *)
(* is replaced by an older one, for any jobs and any order of changes,       *)
(* failures and ticks.                                                       *)
THEOREM KeepsData == Spec => FailureKeepsData
<1>1. Inv /\ [Next]_vars =>
        [(source' # source \/ shown' # shown) =>
           pc = "callback" /\ source'.rev >= source.rev /\ source'.rev <= rev']_vars
  <2> SUFFICES ASSUME Inv, [Next]_vars, source' # source \/ shown' # shown
               PROVE  /\ pc = "callback"
                      /\ source'.rev >= source.rev /\ source'.rev <= rev'
    OBVIOUS
  <2>1. Callback
    BY DEF Next, Api, Run, RunStarts, RunEnds, RunPruned, Remote, FetchOk,
           FetchFails, SelectTick, SelectDone, Tick, Cancel, vars
  <2>2. pc = "callback" /\ source' = body /\ rev' = rev
    BY <2>1 DEF Callback
  <2>3. source.rev \in Nat /\ body.rev \in Nat /\ rev \in Nat
    BY ResponseFields DEF Inv, TypeOK
  <2>4. QED BY <2>2, <2>3 DEF Inv, RevInv
<1>2. QED BY InitInv, NextInv, <1>1, PTL DEF Spec, FailureKeepsData

-----------------------------------------------------------------------------
(* What is shown                                                             *)

(* A job that is shown, and the order its summary was computed from.         *)
LEMMA ShownSummary ==
  ASSUME Inv, NEW j \in DOMAIN shown
  PROVE  /\ j \in WantedJobs
         /\ RunsOf(j) # {}
         /\ IsFiniteSet(RunsOf(j))
         /\ \A r \in RunsOf(j) : r.start \in Nat
         /\ \E s \in Orders(RunsOf(j)) : shown[j] = Summary(s)
<1>1. shown \in Analyze(source.items)
  BY DEF Inv, ShownInv
<1>2. /\ DOMAIN shown = {r.job : r \in Accepted(source.items)}
      /\ \E s \in Orders(OfJob(Accepted(source.items), j)) :
           shown[j] = Summary(s)
  BY <1>1, AnalyzeJobs
<1>3. PICK r \in Accepted(source.items) : r.job = j
  BY <1>2
<1>4. j \in WantedJobs
  BY <1>3 DEF Accepted
<1>5. r \in RunsOf(j)
  BY <1>3 DEF Accepted, RunsOf
<1>6. OfJob(Accepted(source.items), j) = RunsOf(j)
  BY <1>4 DEF OfJob, Accepted, RunsOf
<1>7. source.items \subseteq Runs /\ IsFiniteSet(source.items)
  BY ResponseFields DEF Inv, TypeOK, FiniteInv
<1>8. RunsOf(j) \subseteq source.items
  BY DEF RunsOf
<1>9. IsFiniteSet(RunsOf(j))
  BY <1>7, <1>8, FS_Subset
<1>10. \A x \in RunsOf(j) : x.start \in Nat
  BY <1>7, <1>8 DEF Runs
<1> QED BY <1>2, <1>4, <1>5, <1>6, <1>9, <1>10

(* analyzer.go:55-83 and README.md:113: only jobs that are periodics, run on  *)
(* vSphere and have a run that started in the response are shown, for any    *)
(* jobs and any response.                                                    *)
THEOREM OnlyVSphere == Spec => []OnlyVSpherePeriodics
<1>1. Inv => OnlyVSpherePeriodics
  BY ShownSummary DEF OnlyVSpherePeriodics, WantedJobs
<1>2. QED BY InitInv, NextInv, <1>1, PTL DEF Spec

(* analyzer.go:65-73 and README.md:113: the other half, for any jobs and any *)
(* response: no run that started of a vSphere periodic without a version, or *)
(* of one that is supported, is left out.                                    *)
THEOREM NoneMissing == Spec => []NothingMissing
<1>1. Inv => NothingMissing
  <2> SUFFICES ASSUME Inv, NEW r \in source.items,
                      r.job \in PeriodicJobs \cap VSphereJobs,
                      r.start # 0,
                      LET v == extractOCPVersion(r.job) IN
                      v # None => Supported(v) /\ v.major < 10 /\ v.minor < 100
               PROVE  r.job \in DOMAIN shown
    BY DEF NothingMissing
  <2>1. r \in Runs /\ r.job \in Jobs
    BY ResponseFields DEF Inv, TypeOK, Runs
  <2>2. Wanted(r.job)
    BY <2>1, VersionOfJob, SupportedNotLess DEF Wanted
  <2>3. r \in Accepted(source.items)
    BY <2>2 DEF Accepted, WantedJobs
  <2>4. source # NoResponse
    BY NoResponseType
  <2>5. shown \in Analyze(source.items)
    BY <2>4 DEF Inv, ShownInv
  <2>6. DOMAIN shown = {x.job : x \in Accepted(source.items)}
    BY <2>5, AnalyzeJobs
  <2>7. QED BY <2>3, <2>6
<1>2. QED BY InitInv, NextInv, <1>1, PTL DEF Spec

(* analyzer.go:96-110: the runs listed for a job are all of its runs that    *)
(* started, and the state shown as the latest is that of one no other        *)
(* started after, whatever order sort.Slice leaves ties in.                  *)
THEOREM LatestRun == Spec => []LatestIsLatest
<1>1. Inv => LatestIsLatest
  <2> SUFFICES ASSUME Inv, NEW j \in DOMAIN shown
               PROVE  LET top == shown[j].runs[1] IN
                      /\ Range(shown[j].runs) = RunsOf(j)
                      /\ shown[j].latest = top.state
                      /\ \A r \in RunsOf(j) : r.start <= top.start
    BY DEF LatestIsLatest
  <2>1. PICK s \in Orders(RunsOf(j)) : shown[j] = Summary(s)
    BY ShownSummary
  <2>2. shown[j].runs = s /\ shown[j].latest = s[1].state
    BY <2>1 DEF Summary
  <2>3. /\ Cardinality(RunsOf(j)) \in Nat
        /\ s \in [1..Cardinality(RunsOf(j)) -> RunsOf(j)]
        /\ Range(s) = RunsOf(j)
        /\ \A i, k \in DOMAIN s : i < k => s[i].start >= s[k].start
    BY ShownSummary, OrderLists
  <2>4. ASSUME NEW r \in RunsOf(j) PROVE r.start <= s[1].start
    <3>1. PICK i \in DOMAIN s : s[i] = r
      BY <2>3 DEF Range
    <3>2. 1 \in DOMAIN s /\ (i = 1 \/ 1 < i)
      BY <2>3
    <3>3. s[1] \in RunsOf(j) /\ s[i] \in RunsOf(j)
      BY <2>3, <3>2
    <3>4. s[1].start \in Nat /\ s[i].start \in Nat
      BY <3>3, ShownSummary
    <3>5. QED BY <2>3, <3>1, <3>2, <3>4
  <2>5. QED BY <2>2, <2>3, <2>4
<1>2. QED BY InitInv, NextInv, <1>1, PTL DEF Spec

(* analyzer.go:112 and 128-135: the total and the failures of a job are      *)
(* those of the set of its runs: none is counted twice and none is missed.   *)
THEOREM CountsCorrect == Spec => []CountsAddUp
<1>1. Inv => CountsAddUp
  <2> SUFFICES ASSUME Inv, NEW j \in DOMAIN shown
               PROVE  /\ shown[j].total = Cardinality(RunsOf(j))
                      /\ shown[j].failures =
                           Cardinality({r \in RunsOf(j) : r.state = "failure"})
    BY DEF CountsAddUp
  <2>1. PICK s \in Orders(RunsOf(j)) : shown[j] = Summary(s)
    BY ShownSummary
  <2>2. /\ shown[j].total = Len(s)
        /\ shown[j].failures = Cardinality(Where(s, "failure"))
    BY <2>1 DEF Summary
  <2>3. QED BY <2>2, ShownSummary, OrderLists, WhereCounts
<1>2. QED BY InitInv, NextInv, <1>1, PTL DEF Spec

(* analyzer.go:212-227: the success a job's age is of is one no other        *)
(* success started after, and "never" is shown only without one.             *)
THEOREM LastSuccessCorrect == Spec => []LastSuccessIsLast
<1>1. Inv => LastSuccessIsLast
  <2> SUFFICES ASSUME Inv, NEW j \in DOMAIN shown
               PROVE  LET ok == {r.start : r \in Successes(j)} IN
                      IF ok = {} THEN shown[j].success = None
                      ELSE /\ shown[j].success \in ok
                           /\ \A t \in ok : t <= shown[j].success
    BY DEF LastSuccessIsLast
  <2>1. PICK s \in Orders(RunsOf(j)) : shown[j] = Summary(s)
    BY ShownSummary
  <2>2. shown[j].success = lastSuccess(s)
    BY <2>1 DEF Summary
  <2>3. QED BY <2>2, ShownSummary, FirstSuccess DEF Successes
<1>2. QED BY InitInv, NextInv, <1>1, PTL DEF Spec
-----------------------------------------------------------------------------
(* A result for every response                                               *)

(* A finite set with a strict total order can be listed in that order: each  *)
(* element's position is how many come before it.                            *)
LEMMA Ranked ==
  ASSUME NEW S, IsFiniteSet(S), NEW L,
         \A x \in S : <<x, x>> \notin L,
         \A x, y \in S : x # y => <<x, y>> \in L \/ <<y, x>> \in L,
         \A x, y, z \in S : <<x, y>> \in L /\ <<y, z>> \in L => <<x, z>> \in L
  PROVE  \E s \in Listings(S) :
           \A i, k \in DOMAIN s : i < k => <<s[i], s[k]>> \in L
<1> DEFINE n == Cardinality(S)
           D == 1..n
           Below(x) == {y \in S : <<y, x>> \in L}
           rank == [x \in S |-> Cardinality(Below(x)) + 1]
           listing == Inverse(rank, S, D)
<1>1. /\ n \in Nat
      /\ IsFiniteSet(D) /\ Cardinality(D) = n
  BY FS_CardinalityType, FS_Interval
<1> HIDE DEF n
<1>2. ASSUME NEW x \in S
      PROVE  IsFiniteSet(Below(x)) /\ Cardinality(Below(x)) \in Nat
  <2>1. Below(x) \in SUBSET S
    OBVIOUS
  <2> HIDE DEF Below
  <2>2. IsFiniteSet(Below(x))
    BY <2>1, FS_Subset
  <2> QED BY <2>2, FS_CardinalityType
<1>3. ASSUME NEW x \in S, NEW T \in SUBSET S, Below(x) \cup {x} \subseteq T
      PROVE  Cardinality(Below(x)) + 1 <= Cardinality(T)
  <2>1. x \notin Below(x)
    OBVIOUS
  <2>2. /\ IsFiniteSet(Below(x) \cup {x})
        /\ Cardinality(Below(x) \cup {x}) = Cardinality(Below(x)) + 1
    BY <1>2, <2>1, FS_AddElement
  <2>3. IsFiniteSet(T)
    BY FS_Subset
  <2> HIDE DEF Below
  <2>4. Cardinality(Below(x) \cup {x}) <= Cardinality(T)
    BY <1>3, <2>3, FS_Subset
  <2> QED BY <2>2, <2>4
<1>4. rank \in [S -> D]
  <2> SUFFICES ASSUME NEW x \in S PROVE Cardinality(Below(x)) + 1 \in D
    OBVIOUS
  <2>1. Below(x) \cup {x} \subseteq S
    OBVIOUS
  <2>2. Cardinality(Below(x)) + 1 <= n
    BY <1>3, <2>1 DEF n
  <2> HIDE DEF Below
  <2> QED BY <1>1, <1>2, <2>2
<1>5. ASSUME NEW x \in S, NEW y \in S, <<x, y>> \in L
      PROVE  rank[x] < rank[y]
  <2>1. Below(x) \cup {x} \subseteq Below(y)
    BY <1>5
  <2>2. Below(y) \in SUBSET S
    OBVIOUS
  <2>3. Cardinality(Below(x)) + 1 <= Cardinality(Below(y))
    BY <1>3, <2>1, <2>2
  <2>4. Cardinality(Below(x)) \in Nat /\ Cardinality(Below(y)) \in Nat
    BY <1>2
  <2> HIDE DEF Below
  <2> QED BY <2>3, <2>4
<1>6. \A x, y \in S : rank[x] = rank[y] => x = y
  <2> SUFFICES ASSUME NEW x \in S, NEW y \in S, rank[x] = rank[y], x # y
               PROVE  FALSE
    OBVIOUS
  <2>1. rank[x] < rank[y] \/ rank[y] < rank[x]
    BY <1>5
  <2>2. rank[x] \in Nat /\ rank[y] \in Nat
    BY <1>1, <1>4
  <2> HIDE DEF rank
  <2> QED BY <2>1, <2>2
<1> HIDE DEF rank
<1>7. rank \in Injection(S, D)
  BY <1>4, <1>6, Fun_IsInj
<1>8. rank \in Surjection(S, D)
  BY <1>1, <1>7, FS_Injection DEF n
<1>9. rank \in Bijection(S, D)
  BY <1>7, <1>8 DEF Bijection
<1>10. listing \in Bijection(D, S) /\ listing \in [D -> S]
  <2> HIDE DEF D
  <2>1. Inverse(rank, S, D) \in Bijection(D, S)
    BY <1>9, Fun_BijInverse, Zenon
  <2> QED BY <2>1, Fun_BijectionProperties
<1>11. \A i \in D : rank[listing[i]] = i
  <2>1. Range(rank) = D
    BY <1>8, Fun_SurjectionProperties
  <2> QED BY <1>4, <2>1, Fun_InverseProperties
<1> HIDE DEF listing
<1>12. listing \in Listings(S)
  <2>1. \A i, k \in D : listing[i] = listing[k] => i = k
    BY <1>11
  <2>2. IsInjective(listing)
    BY <1>10, <2>1 DEF IsInjective
  <2> QED BY <1>10, <2>2 DEF Listings, n
<1>13. ASSUME NEW i \in D, NEW k \in D, i < k
       PROVE  <<listing[i], listing[k]>> \in L
  <2>1. listing[i] \in S /\ listing[k] \in S
    BY <1>10
  <2>2. listing[i] # listing[k]
    BY <1>1, <1>11, <1>13
  <2>3. ~(<<listing[k], listing[i]>> \in L)
    BY <1>1, <1>5, <1>11, <1>13, <2>1
  <2> QED BY <2>1, <2>2, <2>3
<1> QED BY <1>10, <1>12, <1>13

(* Runs can be sorted latest first, those that start together by any         *)
(* numbering of them.                                                        *)
LEMMA Sortable ==
  ASSUME NEW R \in SUBSET Runs, IsFiniteSet(R)
  PROVE  Orders(R) # {}
<1> DEFINE D == 1..Cardinality(R)
<1>0. D \subseteq Nat
  BY FS_CardinalityType
<1> HIDE DEF D
<1>1. PICK b \in Bijection(R, D) : TRUE
  <2>1. ExistsBijection(D, R)
    BY FS_CardinalityType DEF D
  <2>2. ExistsBijection(R, D)
    BY <2>1, Fun_ExistsBijSymmetric
  <2> QED BY <2>2, Fun_ExistsBij
<1> DEFINE L == {e \in R \X R :
                   \/ e[1].start > e[2].start
                   \/ e[1].start = e[2].start /\ b[e[1]] < b[e[2]]}
<1>2. \A x, y \in R : b[x] = b[y] => x = y
  BY <1>1, Fun_BijectionProperties
<1>3. \A x \in R : b[x] \in Nat /\ x.start \in Nat
  <2>1. \A x \in R : b[x] \in D
    BY <1>1, Fun_BijectionProperties
  <2>2. \A x \in R : x.start \in Nat
    BY DEF Runs
  <2> QED BY <1>0, <2>1, <2>2
<1>4. \A x, y \in R : <<x, y>> \in L <=>
        \/ x.start > y.start
        \/ x.start = y.start /\ b[x] < b[y]
  OBVIOUS
<1> HIDE DEF L
<1>5. /\ \A x \in R : <<x, x>> \notin L
      /\ \A x, y \in R : x # y => <<x, y>> \in L \/ <<y, x>> \in L
      /\ \A x, y, z \in R :
           <<x, y>> \in L /\ <<y, z>> \in L => <<x, z>> \in L
  BY <1>2, <1>3, <1>4
<1>6. PICK s \in Listings(R) :
        \A i, k \in DOMAIN s : i < k => <<s[i], s[k]>> \in L
  BY <1>5, Ranked
<1>7. \A i \in DOMAIN s : s[i] \in R
  BY DEF Listings
<1>8. ASSUME NEW i \in DOMAIN s, NEW k \in DOMAIN s, i < k
      PROVE  s[i].start >= s[k].start
  <2>1. s[i] \in R /\ s[k] \in R /\ <<s[i], s[k]>> \in L
    BY <1>6, <1>7, <1>8
  <2>2. s[i].start > s[k].start \/ s[i].start = s[k].start
    BY <1>4, <2>1
  <2>3. s[i].start \in Nat /\ s[k].start \in Nat
    BY <1>3, <2>1
  <2> QED BY <2>2, <2>3
<1>9. s \in Orders(R)
  BY <1>8, Zenon DEF Orders
<1> QED BY <1>9

(* Whatever the API returns, the analysis has a result, a summary of every   *)
(* job with an accepted run.                                                 *)
LEMMA AnalysisHasResult ==
  ASSUME NEW items \in SUBSET Runs, IsFiniteSet(items)
  PROVE  Analyze(items) # {}
<1> DEFINE R == Accepted(items)
           J == {r.job : r \in R}
           f == [j \in J |-> CHOOSE y : y \in Summaries(OfJob(R, j))]
<1>1. ASSUME NEW j \in J PROVE f[j] \in Summaries(OfJob(R, j))
  <2>1. OfJob(R, j) \subseteq items
    BY DEF OfJob, Accepted
  <2>2. OfJob(R, j) \in SUBSET Runs /\ IsFiniteSet(OfJob(R, j))
    BY <2>1, FS_Subset
  <2>3. Orders(OfJob(R, j)) # {}
    BY <2>2, Sortable
  <2>4. \E y : y \in Summaries(OfJob(R, j))
    BY <2>3 DEF Summaries
  <2> HIDE DEF R
  <2>5. (CHOOSE y : y \in Summaries(OfJob(R, j))) \in Summaries(OfJob(R, j))
    BY <2>4, Zenon
  <2> QED BY <2>5, Zenon
<1> HIDE DEF R
<1>2. f \in [J -> UNION {Summaries(OfJob(R, j)) : j \in J}]
  <2>1. \A j \in J :
          f[j] \in UNION {Summaries(OfJob(R, k)) : k \in J}
    BY <1>1
  <2> QED BY <2>1, Zenon
<1>3. f \in aggregate(R)
  BY <1>1, <1>2, Zenon DEF aggregate
<1> QED BY <1>3 DEF Analyze, R

(* fetcher.go:86-90, 102-107: whatever the API returned and however many    *)
(* runs start together, there is a result for Callback to store, so that     *)
(* what is proved of what is shown is not about a step that is never taken.  *)
THEOREM CallbackHasResult ==
  Spec => [](pc = "callback" => Analyze(body.items) # {})
<1>1. Inv => (pc = "callback" => Analyze(body.items) # {})
  <2> SUFFICES ASSUME Inv PROVE Analyze(body.items) # {}
    OBVIOUS
  <2>1. body.items \in SUBSET Runs /\ IsFiniteSet(body.items)
    BY ResponseFields DEF Inv, TypeOK, FiniteInv
  <2> QED BY <2>1, AnalysisHasResult
<1>2. QED BY InitInv, NextInv, <1>1, PTL DEF Spec

-----------------------------------------------------------------------------
(* The store as a view of the Prow API.                                      *)
Fetched == [x \in {"store"} |-> [s \in {"prow"} |-> source.rev]]

View == INSTANCE LiveView WITH Sections <- {"prow"}, Tabs <- {"store"},
                               ver <- [s \in {"prow"} |-> rev],
                               view <- Fetched
ViewRefined == View!Spec

(* fetcher.go:84-111: what LiveView promises of a tab holds of the store     *)
(* towards the Prow API: what it has is a state that was, and only advances. *)
THEOREM Implements == Spec => ViewRefined
<1>1. Init => View!Init
  BY NoResponseType DEF Init, Fetched, View!Init
<1>2. ASSUME Inv, [Next]_vars
      PROVE  [View!Next]_(View!viewVars)
  <2>1. /\ rev \in Nat /\ source.rev \in Nat /\ body.rev \in Nat
        /\ source.rev <= rev
    BY <1>2, ResponseFields DEF Inv, TypeOK, RevInv
  <2>2. CASE Api
    <3>1. rev' = rev + 1 /\ source' = source
      BY <2>2 DEF Api, RunStarts, RunEnds, RunPruned, Remote
    <3>2. View!Update("prow")
      BY <3>1 DEF View!Update, Fetched
    <3> QED BY <3>2 DEF View!Next
  <2>3. CASE Callback
    <3>1. rev' = rev /\ source' = body /\ body.rev \in source.rev..rev
      BY <1>2, <2>3 DEF Callback, Inv, RevInv
    <3>2. /\ Fetched' = [x \in {"store"} |-> [s \in {"prow"} |-> body.rev]]
          /\ Fetched'["store"] = [s \in {"prow"} |-> body.rev]
          /\ Fetched["store"] = [s \in {"prow"} |-> source.rev]
      BY <3>1 DEF Fetched
    <3>3. Fetched' = [Fetched EXCEPT !["store"] = Fetched'["store"]]
      BY <3>2 DEF Fetched
    <3>4. View!Refresh("store")
      BY <2>1, <3>1, <3>2, <3>3 DEF View!Refresh
    <3> QED BY <3>4 DEF View!Next
  <2>4. CASE UNCHANGED <<rev, source>>
    BY <2>4 DEF Fetched, View!viewVars
  <2> QED
    BY <1>2, <2>2, <2>3, <2>4 DEF Next, Run, FetchOk, FetchFails, SelectTick,
       SelectDone, Tick, Cancel, vars
<1>3. QED
  BY InitInv, NextInv, <1>1, <1>2, PTL DEF Spec, ViewRefined, View!Spec

=============================================================================

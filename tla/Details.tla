------------------------------- MODULE Details -------------------------------
(***************************************************************************)
(* The pages (pkg/server/server.go) and the queries of the Store they are  *)
(* built from (pkg/store/store.go).                                        *)
(*                                                                         *)
(* A handler makes several queries, each under a read lock of its own, and *)
(* the writers change the Store between them.  One request is followed at  *)
(* a time: handlers only read, so that they do not disturb each other.     *)
(*                                                                         *)
(* A VM name or a namespace is the sequence of the parts its dashes        *)
(* separate; the empty namespace is <<>>.                                  *)
(***************************************************************************)
EXTENDS Naturals, Sequences, FiniteSets, SequencesExt

CONSTANTS
  Pools,       \* names of pools
  PoolSpecs,   \* what a pool may say of its scheduling
  Leases,      \* names of leases
  Contents,    \* what a lease may say
  Jobs,        \* names of Prow jobs
  Namespaces,  \* namespaces asked for
  Servers,     \* vCenters
  Names,       \* names of VMs
  MaxChanges,  \* bound on the changes of the Store during one request
  None         \* no label, no annotation, no request

Specs == [exclude : BOOLEAN, noSchedule : BOOLEAN]
Phases == {"Fulfilled", "Pending", "Failed", ""}

(* ns: the label lease-namespace; pools: the owner references of kind Pool;  *)
(* job: the annotation prow-job-name.                                        *)
LeaseType == [ns : Seq(STRING) \cup {None}, pools : SUBSET Pools,
              job : Jobs \cup {None}, phase : Phases]

ASSUME DetailsAssumption ==
  /\ PoolSpecs \subseteq Specs
  /\ Contents \subseteq LeaseType
  /\ Namespaces \subseteq Seq(STRING) \ {<<>>}
  /\ Names \subseteq Seq(STRING)
  /\ MaxChanges \in Nat
  /\ None \notin Jobs \cup Leases \cup Pools \cup Contents \cup PoolSpecs

-----------------------------------------------------------------------------
(* What collectVMs makes of the names of a vCenter's VMs                     *)

Lower(part) == IF part = "CI" THEN "ci" ELSE part

isCIVM(name) == Len(name) > 1 /\ Lower(name[1]) = "ci"

CIOp(name, parts) == Len(name) >= parts /\ name[1] = "ci" /\ name[2] = "op"

(* The infra ID of a VM.  Mutant: it is taken for the namespace. *)
extractClusterID(name) ==
  IF CIOp(name, 4) THEN SubSeq(name, 1, 4) ELSE <<>>

extractNamespace(name) ==
  IF CIOp(name, 3) THEN SubSeq(name, 1, 3) ELSE <<>>

collectVMs(found) == {n \in found : isCIVM(n)}

-----------------------------------------------------------------------------
VARIABLES
  pools,    \* the Store's pools, None where there is none
  leases,   \* the Store's leases, None where there is none
  jobs,     \* the jobs that have a summary
  vms,      \* vms[s]: the names of the VMs collected from s
  page,     \* the request being served, and what its page shows so far
  todo,     \* the queries the handler still has to make, in order
  kept,     \* history: what was in the Store ever since the request began
  changes   \* number of changes since then

storeVars == <<pools, leases, jobs, vms>>
vars == <<pools, leases, jobs, vms, page, todo, kept, changes>>

Lists == {"overview", "pools", "leases", "jobs", "vcenter"}
Kinds == {"lease", "pool", "cluster", "prow"} \cup Lists

(* rows[<<s, n>>]: how often VM n of s is listed.                            *)
Blank == [kind |-> None, key |-> None, status |-> "none", leases |-> {},
          pools |-> {}, rows |-> [v \in Servers \X Names |-> 0], jobs |-> {},
          counts |-> None]

(* A query: what is asked for, and its key.                                  *)
Whats == {"overview", "lease", "pool", "pools", "job", "vms", "leasesOn",
          "leaseIn", "leasesFor", "each", "allPools", "allLeases", "allJobs",
          "allVMs"}
Query(what, key) == [what |-> what, key |-> key]

Existing(f) == {x \in DOMAIN f : f[x] # None}

(* What is in the Store.                                                     *)
Facts ==
  [pools  |-> {<<p, pools[p]>> : p \in Existing(pools)},
   leases |-> {<<l, leases[l]>> : l \in Existing(leases)},
   jobs   |-> jobs,
   vms    |-> {v \in Servers \X Names : v[2] \in vms[v[1]]}]

Both(f, g) ==
  [pools  |-> f.pools \cap g.pools,
   leases |-> f.leases \cap g.leases,
   jobs   |-> f.jobs \cap g.jobs,
   vms    |-> f.vms \cap g.vms]

NoFacts == [pools |-> {}, leases |-> {}, jobs |-> {}, vms |-> {}]

Counts == [total : Nat, excluded : Nat, cordoned : Nat, active : Nat,
           leases : Nat, fulfilled : Nat, pending : Nat, failed : Nat]

Pages == [kind   : Kinds \cup {None},
          key    : Leases \cup Pools \cup Jobs \cup Namespaces \cup {None},
          status : {"none", "reading", "ok", "notFound"},
          leases : SUBSET (Leases \X Contents),
          pools  : SUBSET (Pools \X PoolSpecs),
          rows   : [Servers \X Names -> Nat],
          jobs   : SUBSET Jobs,
          counts : Counts \cup {None}]

TypeOK ==
  /\ pools \in [Pools -> PoolSpecs \cup {None}]
  /\ leases \in [Leases -> Contents \cup {None}]
  /\ jobs \subseteq Jobs
  /\ vms \in [Servers -> SUBSET Names]
  /\ page \in Pages
  /\ \A i \in DOMAIN todo : todo[i].what \in Whats
  /\ changes \in 0..MaxChanges

(* A new Store is empty.                                                     *)
Init ==
  /\ pools = [p \in Pools |-> None]
  /\ leases = [l \in Leases |-> None]
  /\ jobs = {}
  /\ vms = [s \in Servers |-> {}]
  /\ page = Blank
  /\ todo = <<>>
  /\ kept = NoFacts
  /\ changes = 0

-----------------------------------------------------------------------------
(* The writers.  While no request is served there is no bound on them.       *)

Write ==
  /\ kept' = Both(kept, Facts')
  /\ IF page.status = "reading"
     THEN changes < MaxChanges /\ changes' = changes + 1
     ELSE changes' = changes
  /\ page.status \in {"none", "reading"}
  /\ UNCHANGED <<page, todo>>

(* SetPool, DeletePool                                                       *)
SetPool(p, spec) ==
  /\ pools[p] # spec
  /\ pools' = [pools EXCEPT ![p] = spec]
  /\ UNCHANGED <<leases, jobs, vms>>
  /\ Write

(* SetLease, DeleteLease                                                     *)
SetLease(l, content) ==
  /\ leases[l] # content
  /\ leases' = [leases EXCEPT ![l] = content]
  /\ UNCHANGED <<pools, jobs, vms>>
  /\ Write

(* SetProwJobs                                                               *)
SetProwJobs(new) ==
  /\ jobs # new
  /\ jobs' = new
  /\ UNCHANGED <<pools, leases, vms>>
  /\ Write

(* SetVCenterData: a collection that failed comes with no VMs.               *)
SetVCenterData(s, found) ==
  /\ vms[s] # collectVMs(found)
  /\ vms' = [vms EXCEPT ![s] = collectVMs(found)]
  /\ UNCHANGED <<pools, leases, jobs>>
  /\ Write

Writers ==
  \/ \E p \in Pools, spec \in PoolSpecs \cup {None} : SetPool(p, spec)
  \/ \E l \in Leases, c \in Contents \cup {None} : SetLease(l, c)
  \/ \E new \in SUBSET Jobs : SetProwJobs(new)
  \/ \E s \in Servers, found \in SUBSET Names : SetVCenterData(s, found)

-----------------------------------------------------------------------------
(* Queries of the Store                                                      *)

GetVMsByNamespace(ns) ==
  {v \in Servers \X Names : v[2] \in vms[v[1]] /\ extractNamespace(v[2]) = ns}

(* Any of them: the iteration over the map has no order.                     *)
GetLeaseByNamespace(ns) ==
  LET match == {l \in Existing(leases) : leases[l].ns = ns}
  IN  IF match = {} THEN {None} ELSE match

GetLeasesByJobName(job) == {l \in Existing(leases) : leases[l].job = job}

(* Mutant: a pool that is excluded and cordoned is counted twice. *)
GetOverviewTwice ==
  LET P == Existing(pools)
      L == Existing(leases)
  IN  [total     |-> Cardinality(P),
       excluded  |-> Cardinality({p \in P : pools[p].exclude}),
       cordoned  |-> Cardinality({p \in P : pools[p].noSchedule}),
       active    |-> Cardinality({p \in P : ~pools[p].exclude /\ ~pools[p].noSchedule}),
       leases    |-> Cardinality(L),
       fulfilled |-> Cardinality({l \in L : leases[l].phase = "Fulfilled"}),
       pending   |-> Cardinality({l \in L : leases[l].phase = "Pending"}),
       failed    |-> Cardinality({l \in L : leases[l].phase = "Failed"})]

GetOverview ==
  LET P == Existing(pools)
      L == Existing(leases)
  IN  [total     |-> Cardinality(P),
       excluded  |-> Cardinality({p \in P : pools[p].exclude}),
       cordoned  |-> Cardinality({p \in P : ~pools[p].exclude /\ pools[p].noSchedule}),
       active    |-> Cardinality({p \in P : ~pools[p].exclude /\ ~pools[p].noSchedule}),
       leases    |-> Cardinality(L),
       fulfilled |-> Cardinality({l \in L : leases[l].phase = "Fulfilled"}),
       pending   |-> Cardinality({l \in L : leases[l].phase = "Pending"}),
       failed    |-> Cardinality({l \in L : leases[l].phase = "Failed"})]

-----------------------------------------------------------------------------
(* The handlers                                                              *)

Open(kind, key, queries) ==
  /\ page.status = "none"
  /\ page' = [Blank EXCEPT !.kind = kind, !.key = key, !.status = "reading"]
  /\ todo' = queries
  /\ kept' = Facts
  /\ UNCHANGED <<storeVars, changes>>

handleLeaseDetail == \E l \in Leases : Open("lease", l, <<Query("lease", l)>>)

handlePoolDetail ==
  \E p \in Pools : Open("pool", p, <<Query("pool", p), Query("leasesOn", p)>>)

handleClusterDetail ==
  \E ns \in Namespaces :
    Open("cluster", ns, <<Query("vms", ns), Query("leaseIn", ns)>>)

handleProwDetail ==
  \E j \in Jobs : Open("prow", j, <<Query("job", j), Query("leasesFor", j)>>)

handleList(kind, whats) ==
  Open(kind, None, [i \in DOMAIN whats |-> Query(whats[i], None)])

(* The page of each section, and the fragment of the same content.           *)
handleOverview == handleList("overview", <<"overview">>)
handlePools == handleList("pools", <<"allPools", "allLeases">>)
handleLeases == handleList("leases", <<"allLeases">>)
handleProw == handleList("jobs", <<"allJobs", "allLeases">>)
handleVCenter == handleList("vcenter", <<"allVMs">>)

(* One query is made; more, in this order, come before what is left.         *)
Asks(what) == page.status = "reading" /\ todo[1].what = what

Continue(show, more) ==
  LET left == more \o Tail(todo) IN
  /\ page' = [show EXCEPT !.status = IF left = <<>> THEN "ok" ELSE "reading"]
  /\ todo' = left
  /\ UNCHANGED <<storeVars, kept, changes>>

NotFound ==
  /\ page' = [page EXCEPT !.status = "notFound"]
  /\ todo' = <<>>
  /\ UNCHANGED <<storeVars, kept, changes>>

(* The queries for the VMs of a lease, its pools and its job.                *)

(* Mutant: an empty label is taken for a namespace. *)
VMsOfLabel(c) == IF c.ns = None THEN <<>> ELSE <<Query("vms", c.ns)>>

VMsOf(c) == IF c.ns \in {None, <<>>} THEN <<>> ELSE <<Query("vms", c.ns)>>

(* The loop over the owner references: the pools that are left.              *)
PoolsLeft(refs) == IF refs = {} THEN <<>> ELSE <<Query("pools", refs)>>

(* Mutant: the VMs are read again with the pools. *)
PoolsAndVMsOf(c) ==
  PoolsLeft(c.pools) \o (IF c.pools = {} THEN <<>> ELSE VMsOf(c))

PoolsOf(c) == PoolsLeft(c.pools)

JobOf(c) == IF c.job = None THEN <<>> ELSE <<Query("job", c.job)>>

(* The loop over the leases of a job: those that are left.                   *)
LeasesLeft(found) == IF found = {} THEN <<>> ELSE <<Query("each", found)>>

(* Mutant: a pool that is not there is shown like one that is. *)
AskPoolNil ==
  /\ Asks("pool")
  /\ LET p == todo[1].key
     IN  Continue([page EXCEPT !.pools = {<<p, pools[p]>>}], <<>>)

(* GetPool, by the page of the pool.                                         *)
AskPool ==
  /\ Asks("pool")
  /\ LET p == todo[1].key
     IN  IF pools[p] # None
         THEN Continue([page EXCEPT !.pools = {<<p, pools[p]>>}], <<>>)
         ELSE NotFound

(* GetPool, for the pools a lease names, in any order; the prow page asks     *)
(* once for one that several leases name, unless it did not find it.          *)
AskPoolOf ==
  /\ Asks("pools")
  /\ \E p \in todo[1].key :
       LET known == \E f \in page.pools : f[1] = p
           found == IF known \/ pools[p] = None THEN {} ELSE {<<p, pools[p]>>}
       IN  Continue([page EXCEPT !.pools = @ \cup found],
                    PoolsLeft(todo[1].key \ {p}))

(* Mutant: the cluster page gives up without VMs. *)
AskVMsOrGiveUp ==
  /\ Asks("vms")
  /\ LET found == GetVMsByNamespace(todo[1].key)
     IN  IF page.kind = "cluster" /\ found = {} THEN NotFound
         ELSE Continue([page EXCEPT !.rows =
                [v \in DOMAIN @ |-> IF v \in found THEN @[v] + 1 ELSE @[v]]],
                <<>>)

AskVMs ==
  /\ Asks("vms")
  /\ LET found == GetVMsByNamespace(todo[1].key)
     IN  Continue([page EXCEPT !.rows =
           [v \in DOMAIN @ |-> IF v \in found THEN @[v] + 1 ELSE @[v]]], <<>>)

(* GetProwJobSummary, by the page of the job itself or for a lease.          *)
AskJob ==
  /\ Asks("job")
  /\ LET j == todo[1].key
     IN  IF j \in jobs
         THEN Continue([page EXCEPT !.jobs = @ \cup {j}], <<>>)
         ELSE IF page.kind = "prow" THEN NotFound
         ELSE Continue(page, <<>>)

(* The lease page.                                                           *)
AskLease ==
  /\ Asks("lease")
  /\ LET l == todo[1].key
         c == leases[l]
     IN  IF c = None THEN NotFound
         ELSE Continue([page EXCEPT !.leases = {<<l, c>>}],
                       PoolsOf(c) \o VMsOf(c) \o JobOf(c))

(* The pool page filters all the leases.                                     *)
AskLeasesOn ==
  /\ Asks("leasesOn")
  /\ LET on == {l \in Existing(leases) : todo[1].key \in leases[l].pools}
     IN  Continue([page EXCEPT !.leases = {<<l, leases[l]>> : l \in on}], <<>>)

(* The cluster page, with the VMs of the namespace read before.              *)
AskLeaseIn ==
  /\ Asks("leaseIn")
  /\ \E l \in GetLeaseByNamespace(todo[1].key) :
       IF l # None
       THEN Continue([page EXCEPT !.leases = {<<l, leases[l]>>}],
                     PoolsOf(leases[l]) \o JobOf(leases[l]))
       ELSE IF \A v \in DOMAIN page.rows : page.rows[v] = 0 THEN NotFound
       ELSE Continue(page, <<>>)

(* The prow page: the leases of the job ...                                  *)
AskLeasesFor ==
  /\ Asks("leasesFor")
  /\ LET found == {<<l, leases[l]>> : l \in GetLeasesByJobName(todo[1].key)}
     IN  Continue([page EXCEPT !.leases = found], LeasesLeft(found))

(* ... in some order, each with its VMs and its pools.                        *)
NextLease ==
  /\ Asks("each")
  /\ \E f \in todo[1].key :
       Continue(page,
         VMsOf(f[2]) \o PoolsOf(f[2]) \o LeasesLeft(todo[1].key \ {f}))

(* The lists.                                                                *)
AskPools ==
  /\ Asks("allPools")
  /\ Continue([page EXCEPT !.pools = Facts.pools], <<>>)

AskLeases ==
  /\ Asks("allLeases")
  /\ Continue([page EXCEPT !.leases = Facts.leases], <<>>)

AskJobs ==
  /\ Asks("allJobs")
  /\ Continue([page EXCEPT !.jobs = jobs], <<>>)

AskAllVMs ==
  /\ Asks("allVMs")
  /\ Continue([page EXCEPT !.rows =
       [v \in DOMAIN @ |-> IF v \in Facts.vms THEN 1 ELSE 0]], <<>>)

AskOverview ==
  /\ Asks("overview")
  /\ Continue([page EXCEPT !.counts = GetOverview], <<>>)

(* The page is written and the request is over.                              *)
Close ==
  /\ page.status \in {"ok", "notFound"}
  /\ page' = Blank
  /\ kept' = NoFacts
  /\ changes' = 0
  /\ UNCHANGED <<storeVars, todo>>

Handlers ==
  \/ handleLeaseDetail \/ handlePoolDetail \/ handleClusterDetail
  \/ handleProwDetail
  \/ handleOverview \/ handlePools \/ handleLeases \/ handleProw \/ handleVCenter
  \/ AskPool \/ AskPoolOf \/ AskVMs \/ AskJob
  \/ AskLease \/ AskLeasesOn \/ AskLeaseIn \/ AskLeasesFor \/ NextLease
  \/ AskOverview \/ AskPools \/ AskLeases \/ AskJobs \/ AskAllVMs
  \/ Close

Next == Writers \/ Handlers

Spec == Init /\ [][Next]_vars

-----------------------------------------------------------------------------
(* Properties                                                                *)

Ready == page.status = "ok"

(* A VM belongs to the namespace of a CI job, ci-op-<hash>, if its name begins *)
(* with the parts of it.                                                      *)
BelongsTo(name, ns) ==
  /\ Len(ns) = 3 /\ ns[1] = "ci" /\ ns[2] = "op"
  /\ IsPrefix(ns, name)

(* The namespaces whose VMs a page lists.                                     *)
NamespacesShown ==
  (IF page.kind = "cluster" THEN {page.key} ELSE {})
    \cup (IF page.kind \in {"lease", "prow"}
          THEN {f[2].ns : f \in page.leases} \ {None} ELSE {})

VMsShown == {v \in DOMAIN page.rows : page.rows[v] > 0}

(* The pools that the leases on the page name.                                *)
PoolsNamed == UNION {f[2].pools : f \in page.leases}

(* server.go:429-453, 505-533, 559-587: what a page shows of a lease belongs   *)
(* to it: VMs of its namespace, its pools, its job, although each was read     *)
(* later than the lease.                                                      *)
OnlyRelated ==
  Ready /\ page.kind \notin Lists =>
    /\ \A v \in VMsShown : \E ns \in NamespacesShown : BelongsTo(v[2], ns)
    /\ page.kind # "pool" => \A f \in page.pools : f[1] \in PoolsNamed
    /\ page.kind # "prow" => page.jobs \subseteq {f[2].job : f \in page.leases}

(* The leases that a page is about, among those in the Store all the time.     *)
LeasesExpected ==
  {f \in kept.leases :
     CASE page.kind = "lease" -> f[1] = page.key
       [] page.kind = "pool" -> page.key \in f[2].pools
       [] page.kind = "prow" -> f[2].job = page.key
       [] OTHER -> page.kind \in {"pools", "leases", "jobs"}}

(* What was in the Store during all of the request, and belongs on the page,   *)
(* is on it, whatever else came and went between the handler's reads.         *)
NothingMissing ==
  Ready =>
    /\ LeasesExpected \subseteq page.leases
    /\ page.kind \in {"lease", "cluster", "prow"} =>
         \A f \in kept.pools : f[1] \in PoolsNamed => f \in page.pools
    /\ page.kind = "pools" => kept.pools \subseteq page.pools
    /\ \A v \in kept.vms :
         \/ page.kind = "vcenter"
         \/ \E ns \in NamespacesShown : BelongsTo(v[2], ns)
         => v \in VMsShown
    /\ page.kind = "jobs" => kept.jobs \subseteq page.jobs
    /\ page.kind \in {"lease", "cluster"} =>
         kept.jobs \cap {f[2].job : f \in page.leases} \subseteq page.jobs
    /\ page.kind = "cluster" /\ (\E f \in kept.leases : f[2].ns = page.key) =>
         \E f \in page.leases : f[2].ns = page.key

(* server.go:511, "Return 404 only when we have neither VMs nor a lease": a    *)
(* page is not found only if what it is about was not there all the time; the  *)
(* cluster page only if the VMs and each lease of the namespace were not.      *)
NotFoundIsTrue ==
  page.status = "notFound" =>
    CASE page.kind = "lease" -> \A f \in kept.leases : f[1] # page.key
      [] page.kind = "pool" -> \A f \in kept.pools : f[1] # page.key
      [] page.kind = "prow" -> page.key \notin kept.jobs
      [] page.kind = "cluster" ->
           /\ \A v \in kept.vms : ~BelongsTo(v[2], page.key)
           /\ \A f \in kept.leases : f[2].ns # page.key

(* A VM is listed once, on the prow page once for each lease in its namespace *)
(* (server.go:565-571 appends the VMs of every lease).                        *)
RowsPerLease ==
  Ready =>
    \A v \in VMsShown :
      IF page.kind = "prow"
      THEN page.rows[v] <= Cardinality({f \in page.leases :
             f[2].ns # None /\ BelongsTo(v[2], f[2].ns)})
      ELSE page.rows[v] = 1

(* store.go:349-357: every pool is counted as one of active, excluded and     *)
(* cordoned, and no lease in two phases, although the watcher changes both.   *)
OverviewAddsUp ==
  Ready /\ page.kind = "overview" =>
    LET o == page.counts IN
    /\ o.active + o.excluded + o.cordoned = o.total
    /\ o.fulfilled + o.pending + o.failed <= o.leases

=============================================================================

---------------------------- MODULE DetailsProofs ----------------------------
(***************************************************************************)
(* Proofs about the pages, for any pools, leases, jobs, vCenters, VMs and  *)
(* contents and any number of changes between the reads of a handler.      *)
(***************************************************************************)
EXTENDS Details, FiniteSetTheorems, FunctionTheorems, TLAPS

Keys ==
  Leases \cup Pools \cup Jobs \cup Seq(STRING) \cup {None}
    \cup (SUBSET Pools) \cup (SUBSET (Leases \X Contents))
Queries == [what : Whats, key : Keys]

(* The queries still to be made, of some kinds.                              *)
Todo == Range(todo)
Pending(whats) == \E q \in Todo : q.what \in whats

JobsNamed == {f[2].job : f \in page.leases}

(* A page is of one of the kinds, and is asked for by a key of that kind; a  *)
(* request is over when no query is left.                                    *)
RequestInv ==
  /\ page.status = "reading" <=> todo # <<>>
  /\ page.status # "none" =>
       /\ page.kind \in Kinds
       /\ page.kind = "lease" => page.key \in Leases
       /\ page.kind = "pool" => page.key \in Pools
       /\ page.kind = "cluster" => page.key \in Namespaces
       /\ page.kind = "prow" => page.key \in Jobs

(* A query belongs to the page being made, and to a lease that is on it.     *)
Sensible(q) ==
  /\ q.what = "lease" => page.kind = "lease" /\ q.key = page.key
  /\ q.what \in {"pool", "leasesOn"} => page.kind = "pool" /\ q.key = page.key
  /\ q.what = "leaseIn" => page.kind = "cluster" /\ q.key = page.key
  /\ q.what = "leasesFor" => page.kind = "prow" /\ q.key = page.key
  /\ q.what = "each" =>
       page.kind = "prow" /\ q.key # {} /\ q.key \subseteq page.leases
  /\ q.what = "pools" =>
       /\ page.kind \in {"lease", "cluster", "prow"}
       /\ q.key # {} /\ q.key \subseteq PoolsNamed
  /\ q.what = "vms" => q.key # <<>> /\ q.key \in NamespacesShown
  /\ q.what = "job" =>
       \/ page.kind = "prow" /\ q.key = page.key
       \/ page.kind \in {"lease", "cluster"} /\ q.key \in JobsNamed
  /\ q.what = "allPools" => page.kind = "pools"
  /\ q.what = "allLeases" => page.kind \in {"pools", "leases", "jobs"}
  /\ q.what = "allJobs" => page.kind = "jobs"
  /\ q.what = "allVMs" => page.kind = "vcenter"
  /\ q.what = "overview" => page.kind = "overview"

(* The order of a handler's queries: each is made once at a time.            *)
MayFollow(kind, a, b) ==
  \/ kind = "lease" /\
       <<a, b>> \in {<<"pools", "vms">>, <<"pools", "job">>, <<"vms", "job">>}
  \/ kind = "pool" /\ <<a, b>> = <<"pool", "leasesOn">>
  \/ kind = "cluster" /\
       <<a, b>> \in {<<"vms", "leaseIn">>, <<"pools", "job">>}
  \/ kind = "prow" /\
       <<a, b>> \in {<<"job", "leasesFor">>, <<"vms", "pools">>,
                     <<"vms", "each">>, <<"pools", "each">>}
  \/ kind = "pools" /\ <<a, b>> = <<"allPools", "allLeases">>
  \/ kind = "jobs" /\ <<a, b>> = <<"allJobs", "allLeases">>

InOrder(kind, s) ==
  \A i, k \in DOMAIN s : i < k => MayFollow(kind, s[i].what, s[k].what)

QueriesInv ==
  /\ \A q \in Todo : Sensible(q)
  /\ InOrder(page.kind, todo)
  /\ Pending({"lease", "leaseIn", "leasesFor", "leasesOn"}) => page.leases = {}

(* What was in the Store all the time is in it.                              *)
KeptInv ==
  /\ kept.pools \subseteq Facts.pools
  /\ kept.leases \subseteq Facts.leases
  /\ kept.jobs \subseteq Facts.jobs
  /\ kept.vms \subseteq Facts.vms

(* What is on a page is related to its leases, however far it has come.      *)
VMsRelated ==
  page.kind \notin Lists =>
    \A v \in VMsShown : \E ns \in NamespacesShown : BelongsTo(v[2], ns)

PoolsRelated ==
  page.kind \notin Lists \cup {"pool"} => \A f \in page.pools : f[1] \in PoolsNamed

JobsRelated ==
  page.kind \notin Lists \cup {"prow"} => page.jobs \subseteq JobsNamed

RelatedInv == VMsRelated /\ PoolsRelated /\ JobsRelated

(* A query that will read a pool, or a VM.                                   *)
Reads(q, p) ==
  \/ q.what = "pools" /\ p \in q.key
  \/ q.what = "each" /\ \E f \in q.key : p \in f[2].pools

Shows(q, v) ==
  \/ q.what = "vms" /\ BelongsTo(v[2], q.key)
  \/ q.what = "each" /\ \E f \in q.key : f[2].ns # None /\ BelongsTo(v[2], f[2].ns)

(* What was in the Store all the time and belongs on the page is on it or is  *)
(* still asked for.                                                          *)
LeasesFound ==
  \/ LeasesExpected \subseteq page.leases
  \/ Pending({"lease", "leasesOn", "leasesFor", "allLeases"})

LeaseOfCluster ==
  page.kind = "cluster" /\ (\E f \in kept.leases : f[2].ns = page.key) =>
    (\E f \in page.leases : f[2].ns = page.key) \/ Pending({"leaseIn"})

PoolsFound ==
  /\ \A f \in page.pools, g \in kept.pools : f[1] = g[1] => f = g
  /\ page.kind \in {"lease", "cluster", "prow"} =>
       \A f \in kept.pools : f[1] \in PoolsNamed =>
         f \in page.pools \/ \E q \in Todo : Reads(q, f[1])
  /\ page.kind = "pools" =>
       kept.pools \subseteq page.pools \/ Pending({"allPools"})

VMsFound ==
  /\ \A v \in kept.vms :
       (\E ns \in NamespacesShown : BelongsTo(v[2], ns)) =>
         v \in VMsShown \/ \E q \in Todo : Shows(q, v)
  /\ page.kind = "vcenter" =>
       kept.vms \subseteq VMsShown \/ Pending({"allVMs"})

JobsFound ==
  /\ page.kind = "jobs" => kept.jobs \subseteq page.jobs \/ Pending({"allJobs"})
  /\ page.kind \in {"lease", "cluster"} =>
       \A j \in kept.jobs \cap JobsNamed :
         j \in page.jobs \/ \E q \in Todo : q.what = "job" /\ q.key = j

FoundInv ==
  page.status \in {"reading", "ok"} =>
    LeasesFound /\ LeaseOfCluster /\ PoolsFound /\ VMsFound /\ JobsFound

(* How often a VM is listed.                                                 *)
With(v, F) == {f \in F : f[2].ns # None /\ BelongsTo(v[2], f[2].ns)}
Left == UNION {q.key : q \in {x \in Todo : x.what = "each"}}
Asking(v) == \E q \in Todo : q.what = "vms" /\ q.key = extractNamespace(v[2])

RowsInv ==
  \A v \in Servers \X Names :
    IF page.kind = "prow"
    THEN page.rows[v] + (IF Asking(v) THEN 1 ELSE 0) + Cardinality(With(v, Left))
           <= Cardinality(With(v, page.leases))
    ELSE page.rows[v] <= 1 /\ (Pending({"vms"}) => page.rows[v] = 0)

FiniteInv ==
  /\ IsFiniteSet(Existing(pools))
  /\ IsFiniteSet(Existing(leases))
  /\ IsFiniteSet(page.leases)

AddsUp(o) ==
  /\ o.active + o.excluded + o.cordoned = o.total
  /\ o.fulfilled + o.pending + o.failed <= o.leases

CountsInv ==
  page.kind = "overview" /\ page.status = "ok" => AddsUp(page.counts)

Inv ==
  /\ TypeOK /\ todo \in Seq(Queries)
  /\ RequestInv /\ QueriesInv /\ KeptInv /\ RelatedInv /\ FoundInv
  /\ RowsInv /\ FiniteInv /\ CountsInv /\ NotFoundIsTrue

-----------------------------------------------------------------------------
(* Sequences of queries                                                      *)

LEMMA Concat ==
  ASSUME NEW S, NEW s \in Seq(S), NEW t \in Seq(S)
  PROVE  /\ s \o t \in Seq(S)
         /\ Range(s \o t) = Range(s) \cup Range(t)
         /\ s \o t = <<>> <=> s = <<>> /\ t = <<>>
<1> DEFINE u == s \o t
<1>1. /\ u \in Seq(S) /\ Len(u) = Len(s) + Len(t)
      /\ Len(s) \in Nat /\ Len(t) \in Nat
      /\ DOMAIN s = 1..Len(s) /\ DOMAIN t = 1..Len(t) /\ DOMAIN u = 1..Len(u)
  OBVIOUS
<1>2. /\ \A i \in DOMAIN s : i \in DOMAIN u /\ u[i] = s[i]
      /\ \A i \in DOMAIN t : Len(s) + i \in DOMAIN u /\ u[Len(s) + i] = t[i]
  OBVIOUS
<1>3. \A i \in DOMAIN u :
        \/ i \in DOMAIN s /\ u[i] = s[i]
        \/ i - Len(s) \in DOMAIN t /\ u[i] = t[i - Len(s)]
  OBVIOUS
<1> HIDE DEF u
<1>4. Range(u) = Range(s) \cup Range(t)
  BY <1>2, <1>3 DEF Range
<1>5. s \o t = <<>> <=> s = <<>> /\ t = <<>>
  OBVIOUS
<1> QED BY <1>1, <1>4, <1>5 DEF u

LEMMA ConcatOrder ==
  ASSUME NEW S, NEW s \in Seq(S), NEW t \in Seq(S), NEW kind,
         InOrder(kind, s), InOrder(kind, t),
         \A a \in Range(s), b \in Range(t) : MayFollow(kind, a.what, b.what)
  PROVE  InOrder(kind, s \o t)
<1> DEFINE u == s \o t
<1>1. /\ DOMAIN u = 1..(Len(s) + Len(t))
      /\ Len(s) \in Nat /\ Len(t) \in Nat
      /\ DOMAIN s = 1..Len(s) /\ DOMAIN t = 1..Len(t)
  OBVIOUS
<1>2. \A i \in DOMAIN u :
        \/ i \in DOMAIN s /\ u[i] = s[i]
        \/ i > Len(s) /\ i - Len(s) \in DOMAIN t /\ u[i] = t[i - Len(s)]
  OBVIOUS
<1>3. /\ \A i \in DOMAIN s : s[i] \in Range(s)
      /\ \A i \in DOMAIN t : t[i] \in Range(t)
  BY DEF Range
<1> HIDE DEF u
<1>4. ASSUME NEW i \in DOMAIN u, NEW k \in DOMAIN u, i < k
      PROVE  MayFollow(kind, u[i].what, u[k].what)
  <2>1. CASE i \in DOMAIN s /\ u[i] = s[i] /\ k \in DOMAIN s /\ u[k] = s[k]
    BY <1>4, <2>1 DEF InOrder
  <2>2. CASE /\ i \in DOMAIN s /\ u[i] = s[i]
             /\ k - Len(s) \in DOMAIN t /\ u[k] = t[k - Len(s)]
    BY <1>3, <2>2
  <2>3. CASE /\ i > Len(s) /\ i - Len(s) \in DOMAIN t /\ u[i] = t[i - Len(s)]
             /\ k - Len(s) \in DOMAIN t /\ u[k] = t[k - Len(s)]
    <3>1. i - Len(s) < k - Len(s)
      BY <1>1, <1>4
    <3> QED BY <2>3, <3>1 DEF InOrder
  <2> QED BY <1>1, <1>2, <1>4, <2>1, <2>2, <2>3
<1> QED BY <1>4 DEF InOrder, u

LEMMA HeadAndTail ==
  ASSUME NEW S, NEW t \in Seq(S), t # <<>>, NEW kind, InOrder(kind, t)
  PROVE  /\ t[1] \in S
         /\ Tail(t) \in Seq(S)
         /\ Range(t) = {t[1]} \cup Range(Tail(t))
         /\ InOrder(kind, Tail(t))
         /\ \A q \in Range(Tail(t)) : MayFollow(kind, t[1].what, q.what)
<1> DEFINE r == Tail(t)
<1>1. /\ r \in Seq(S) /\ Len(t) \in Nat /\ Len(t) > 0
      /\ DOMAIN t = 1..Len(t) /\ DOMAIN r = 1..(Len(t) - 1)
      /\ \A i \in DOMAIN r : r[i] = t[i + 1]
  OBVIOUS
<1>2. t[1] \in S
  BY <1>1
<1> HIDE DEF r
<1>3. Range(t) = {t[1]} \cup Range(r)
  <2>1. \A i \in DOMAIN t : i = 1 \/ (i - 1 \in DOMAIN r /\ r[i - 1] = t[i])
    BY <1>1
  <2>2. 1 \in DOMAIN t /\ \A i \in DOMAIN r : i + 1 \in DOMAIN t
    BY <1>1
  <2> QED BY <1>1, <2>1, <2>2 DEF Range
<1>4. ASSUME NEW i \in DOMAIN r, NEW k \in DOMAIN r, i < k
      PROVE  MayFollow(kind, r[i].what, r[k].what)
  <2>1. i + 1 \in DOMAIN t /\ k + 1 \in DOMAIN t /\ i + 1 < k + 1
    BY <1>1, <1>4
  <2> QED BY <1>1, <2>1 DEF InOrder
<1>5. ASSUME NEW q \in Range(r) PROVE MayFollow(kind, t[1].what, q.what)
  <2>1. PICK i \in DOMAIN r : q = r[i]
    BY DEF Range
  <2>2. 1 \in DOMAIN t /\ i + 1 \in DOMAIN t /\ 1 < i + 1 /\ r[i] = t[i + 1]
    BY <1>1
  <2> QED BY <2>1, <2>2 DEF InOrder
<1> QED BY <1>1, <1>2, <1>3, <1>4, <1>5 DEF InOrder, r

(* Sequences of one query and of none.                                       *)
LEMMA One ==
  ASSUME NEW q \in Queries, NEW kind
  PROVE  /\ <<q>> \in Seq(Queries) /\ <<q>> # <<>>
         /\ Range(<<q>>) = {q}
         /\ InOrder(kind, <<q>>)
<1>1. DOMAIN <<q>> = {1} /\ <<q>>[1] = q
  OBVIOUS
<1> QED BY <1>1 DEF Range, InOrder

LEMMA Nothing ==
  ASSUME NEW kind
  PROVE  /\ <<>> \in Seq(Queries)
         /\ Range(<<>>) = {}
         /\ InOrder(kind, <<>>)
<1>1. DOMAIN <<>> = {}
  OBVIOUS
<1> QED BY <1>1 DEF Range, InOrder

-----------------------------------------------------------------------------
(* Namespaces                                                                *)

LEMMA NamespaceOf ==
  ASSUME NEW name \in Seq(STRING), extractNamespace(name) # <<>>
  PROVE  BelongsTo(name, extractNamespace(name))
<1> DEFINE ns == SubSeq(name, 1, 3)
<1>1. /\ extractNamespace(name) = ns
      /\ Len(name) >= 3 /\ name[1] = "ci" /\ name[2] = "op"
  BY DEF extractNamespace, CIOp
<1>2. Len(ns) = 3 /\ ns[1] = "ci" /\ ns[2] = "op"
  BY <1>1
<1>3. SubSeq(ns, 1, 3) = ns
  BY <1>1
<1> HIDE DEF ns
<1>4. IsPrefix(ns, name)
  BY <1>1, <1>2, <1>3 DEF IsPrefix, ns
<1> QED BY <1>1, <1>2, <1>4 DEF BelongsTo

LEMMA NamespaceUnique ==
  ASSUME NEW name \in Seq(STRING), NEW ns \in Seq(STRING), BelongsTo(name, ns)
  PROVE  extractNamespace(name) = ns
<1>1. /\ Len(ns) = 3 /\ ns[1] = "ci" /\ ns[2] = "op"
      /\ Len(name) >= 3 /\ SubSeq(ns, 1, 3) = SubSeq(name, 1, 3)
  BY DEF BelongsTo, IsPrefix
<1>2. ns = SubSeq(ns, 1, 3)
  BY <1>1
<1>3. ns = SubSeq(name, 1, 3)
  BY <1>1, <1>2
<1>4. name[1] = "ci" /\ name[2] = "op"
  BY <1>1, <1>3
<1> QED BY <1>1, <1>3, <1>4 DEF extractNamespace, CIOp

-----------------------------------------------------------------------------
(* A query is answered                                                       *)

Rest == Range(Tail(todo))

LEMMA HeadFacts ==
  ASSUME Inv, page.status = "reading"
  PROVE  /\ todo # <<>> /\ todo \in Seq(Queries)
         /\ todo[1] \in Queries /\ todo[1] \in Todo
         /\ Todo = {todo[1]} \cup Rest
         /\ \A q \in Todo : Sensible(q)
         /\ \A q \in Rest : MayFollow(page.kind, todo[1].what, q.what)
         /\ Tail(todo) \in Seq(Queries)
         /\ InOrder(page.kind, Tail(todo))
<1>1. todo # <<>> /\ todo \in Seq(Queries) /\ InOrder(page.kind, todo)
  BY DEF Inv, RequestInv, QueriesInv
<1>2. \A q \in Todo : Sensible(q)
  BY DEF Inv, QueriesInv
<1>3. /\ todo[1] \in Queries
      /\ Tail(todo) \in Seq(Queries)
      /\ Range(todo) = {todo[1]} \cup Range(Tail(todo))
      /\ InOrder(page.kind, Tail(todo))
      /\ \A q \in Range(Tail(todo)) : MayFollow(page.kind, todo[1].what, q.what)
  BY <1>1, HeadAndTail
<1> QED BY <1>1, <1>2, <1>3 DEF Todo, Rest

(* A query is answered, and the handler goes on: the queries M come first.   *)
Moves(M) ==
  /\ page.status = "reading" /\ page \in Pages
  /\ page' \in Pages
  /\ page'.kind = page.kind /\ page'.key = page.key
  /\ page'.status \in {"reading", "ok"}
  /\ page'.status = "reading" <=> todo' # <<>>
  /\ page'.status = "ok" <=> Todo' = {}
  /\ todo[1] \in Queries
  /\ Todo = {todo[1]} \cup Rest /\ Todo' = M \cup Rest
  /\ todo' \in Seq(Queries) /\ InOrder(page.kind, todo')
  /\ \A q \in Todo : Sensible(q)
  /\ \A q \in Rest : MayFollow(page.kind, todo[1].what, q.what)
  /\ UNCHANGED <<pools, leases, jobs, vms, kept, changes>>

LEMMA Continued ==
  ASSUME Inv, page.status = "reading", NEW show \in Pages,
         show.kind = page.kind, show.key = page.key,
         NEW more \in Seq(Queries), InOrder(page.kind, more),
         \A a \in Range(more), b \in Rest : MayFollow(page.kind, a.what, b.what),
         Continue(show, more)
  PROVE  /\ Moves(Range(more))
         /\ page'.leases = show.leases /\ page'.pools = show.pools
         /\ page'.rows = show.rows /\ page'.jobs = show.jobs
         /\ page'.counts = show.counts
<1> DEFINE left == more \o Tail(todo)
           st == IF left = <<>> THEN "ok" ELSE "reading"
<1>1. /\ page' = [show EXCEPT !.status = st]
      /\ todo' = left
      /\ UNCHANGED <<pools, leases, jobs, vms, kept, changes>>
  BY DEF Continue, storeVars
<1>2. /\ left \in Seq(Queries)
      /\ Range(left) = Range(more) \cup Rest
  <2> DEFINE rest == Tail(todo)
  <2>1. rest \in Seq(Queries)
    BY HeadFacts
  <2> HIDE DEF rest
  <2>2. /\ more \o rest \in Seq(Queries)
        /\ Range(more \o rest) = Range(more) \cup Range(rest)
    BY <2>1, Concat
  <2> QED BY <2>2 DEF Rest, rest
<1>3. InOrder(page.kind, left)
  <2>1. Tail(todo) \in Seq(Queries) /\ InOrder(page.kind, Tail(todo))
    BY HeadFacts
  <2> QED BY <2>1, ConcatOrder DEF Rest
<1>4. left = <<>> <=> Range(left) = {}
  <2>1. Range(<<>>) = {}
    BY Nothing
  <2> HIDE DEF left
  <2>2. left # <<>> => left[1] \in Range(left)
    <3>1. left # <<>> => 1 \in DOMAIN left
      BY <1>2
    <3> QED BY <3>1 DEF Range
  <2> QED BY <2>1, <2>2
<1> HIDE DEF left
<1>5. st \in {"reading", "ok"} /\ (st = "reading" <=> left # <<>>)
  OBVIOUS
<1> HIDE DEF st
<1>6. /\ page' \in Pages
      /\ page'.kind = show.kind /\ page'.key = show.key
      /\ page'.leases = show.leases /\ page'.pools = show.pools
      /\ page'.rows = show.rows /\ page'.jobs = show.jobs
      /\ page'.counts = show.counts
      /\ page'.status = st
  BY <1>1, <1>5 DEF Pages
<1>7. Todo' = Range(left)
  BY <1>1 DEF Todo
<1>8. page'.status = "ok" <=> Todo' = {}
  BY <1>4, <1>5, <1>6, <1>7
<1>9. page \in Pages
  BY DEF Inv, TypeOK
<1> QED BY <1>1, <1>2, <1>3, <1>5, <1>6, <1>7, <1>8, <1>9, HeadFacts DEF Moves

LEMMA MoreQueries ==
  ASSUME NEW c \in Contents, NEW kind
  PROVE  /\ VMsOf(c) \in Seq(Queries)
         /\ PoolsOf(c) \in Seq(Queries)
         /\ JobOf(c) \in Seq(Queries)
         /\ InOrder(kind, VMsOf(c))
         /\ InOrder(kind, PoolsOf(c))
         /\ InOrder(kind, JobOf(c))
         /\ Range(VMsOf(c)) =
              IF c.ns \in {None, <<>>} THEN {} ELSE {Query("vms", c.ns)}
         /\ Range(PoolsOf(c)) =
              IF c.pools = {} THEN {} ELSE {Query("pools", c.pools)}
         /\ Range(JobOf(c)) = IF c.job = None THEN {} ELSE {Query("job", c.job)}
<1>1. /\ c.ns \in Seq(STRING) \cup {None} /\ c.pools \subseteq Pools
      /\ c.job \in Jobs \cup {None}
  BY DetailsAssumption DEF LeaseType
<1>2. /\ c.ns \notin {None, <<>>} => Query("vms", c.ns) \in Queries
      /\ Query("pools", c.pools) \in Queries
      /\ c.job # None => Query("job", c.job) \in Queries
  BY <1>1 DEF Query, Queries, Keys, Whats
<1>3. CASE c.ns \in {None, <<>>}
  BY <1>2, <1>3, One, Nothing DEF VMsOf, PoolsOf, PoolsLeft, JobOf
<1>4. CASE c.ns \notin {None, <<>>}
  BY <1>2, <1>4, One, Nothing DEF VMsOf, PoolsOf, PoolsLeft, JobOf
<1> QED BY <1>3, <1>4

LEMMA LoopQueries ==
  ASSUME NEW kind
  PROVE  /\ \A S \in SUBSET Pools :
              /\ PoolsLeft(S) \in Seq(Queries)
              /\ InOrder(kind, PoolsLeft(S))
              /\ Range(PoolsLeft(S)) =
                   IF S = {} THEN {} ELSE {Query("pools", S)}
         /\ \A F \in SUBSET (Leases \X Contents) :
              /\ LeasesLeft(F) \in Seq(Queries)
              /\ InOrder(kind, LeasesLeft(F))
              /\ Range(LeasesLeft(F)) =
                   IF F = {} THEN {} ELSE {Query("each", F)}
<1>1. ASSUME NEW S \in SUBSET Pools
      PROVE  /\ PoolsLeft(S) \in Seq(Queries)
             /\ InOrder(kind, PoolsLeft(S))
             /\ Range(PoolsLeft(S)) =
                  IF S = {} THEN {} ELSE {Query("pools", S)}
  <2>1. Query("pools", S) \in Queries
    BY DEF Query, Queries, Keys, Whats
  <2> QED BY <2>1, One, Nothing DEF PoolsLeft
<1>2. ASSUME NEW F \in SUBSET (Leases \X Contents)
      PROVE  /\ LeasesLeft(F) \in Seq(Queries)
             /\ InOrder(kind, LeasesLeft(F))
             /\ Range(LeasesLeft(F)) =
                  IF F = {} THEN {} ELSE {Query("each", F)}
  <2>1. F \in Keys
    BY Zenon DEF Keys
  <2>2. Query("each", F) \in Queries
    <3>1. \A k \in Keys : [what |-> "each", key |-> k] \in [what : Whats, key : Keys]
      BY DEF Whats
    <3> QED BY <2>1, <3>1, Zenon DEF Query, Queries
  <2> QED BY <2>2, One, Nothing DEF LeasesLeft
<1> QED BY <1>1, <1>2

(* A page whose leases stay the same, or do not matter for what it shows.    *)
LEMMA SameLeases ==
  ASSUME NEW M, Moves(M), page'.leases = page.leases
  PROVE  /\ NamespacesShown' = NamespacesShown
         /\ PoolsNamed' = PoolsNamed
         /\ JobsNamed' = JobsNamed
         /\ LeasesExpected' = LeasesExpected
         /\ \A q : Sensible(q)' <=> Sensible(q)
<1>1. /\ page'.kind = page.kind /\ page'.key = page.key
      /\ page'.leases = page.leases /\ kept' = kept
  BY DEF Moves
<1>2. NamespacesShown' = NamespacesShown
  BY <1>1 DEF NamespacesShown
<1>3. PoolsNamed' = PoolsNamed /\ JobsNamed' = JobsNamed
  BY <1>1 DEF PoolsNamed, JobsNamed
<1>4. LeasesExpected' = LeasesExpected
  BY <1>1 DEF LeasesExpected
<1>5. \A q : Sensible(q)' <=> Sensible(q)
  BY <1>1, <1>2, <1>3 DEF Sensible
<1> QED BY <1>2, <1>3, <1>4, <1>5

LEMMA MoreLeases ==
  ASSUME NEW M, Moves(M), page.leases \subseteq page'.leases
  PROVE  /\ NamespacesShown \subseteq NamespacesShown'
         /\ PoolsNamed \subseteq PoolsNamed'
         /\ JobsNamed \subseteq JobsNamed'
         /\ LeasesExpected' = LeasesExpected
         /\ \A q : Sensible(q) => Sensible(q)'
<1>1. /\ page'.kind = page.kind /\ page'.key = page.key
      /\ page.leases \subseteq page'.leases /\ kept' = kept
  BY DEF Moves
<1>2. NamespacesShown \subseteq NamespacesShown'
  BY <1>1 DEF NamespacesShown
<1>3. PoolsNamed \subseteq PoolsNamed'
  BY <1>1 DEF PoolsNamed
<1>4. JobsNamed \subseteq JobsNamed'
  BY <1>1 DEF JobsNamed
<1>5. LeasesExpected' = LeasesExpected
  BY <1>1 DEF LeasesExpected
<1>6. ASSUME NEW q, Sensible(q) PROVE Sensible(q)'
  BY <1>1, <1>2, <1>3, <1>4, <1>6 DEF Sensible
<1> QED BY <1>2, <1>3, <1>4, <1>5, <1>6

(* The invariant after an answer, part by part.                              *)
LEMMA Answered ==
  ASSUME Inv, NEW M, Moves(M),
         \A q \in M \cup Rest : Sensible(q)',
         (Pending({"lease", "leaseIn", "leasesFor", "leasesOn"})
           => page.leases = {})',
         RelatedInv', LeasesFound', LeaseOfCluster', PoolsFound', VMsFound',
         JobsFound', RowsInv', IsFiniteSet(page'.leases),
         page.kind # "overview" \/ AddsUp(page'.counts)
  PROVE  Inv'
<1>1. TypeOK' /\ (todo \in Seq(Queries))'
  <2>1. todo' \in Seq(Queries) /\ page' \in Pages
        /\ UNCHANGED <<pools, leases, jobs, vms, changes>>
    BY DEF Moves
  <2>2. \A i \in DOMAIN todo' : todo'[i] \in Queries
    BY <2>1
  <2>3. \A i \in DOMAIN todo' : todo'[i].what \in Whats
    BY <2>2 DEF Queries
  <2> QED BY <2>1, <2>3 DEF Inv, TypeOK
<1>2. RequestInv'
  BY DEF Inv, RequestInv, Moves
<1>3. QueriesInv'
  <2>1. (\A q \in Todo : Sensible(q))'
    BY DEF Moves
  <2>2. InOrder(page.kind, todo)'
    BY DEF Moves, InOrder
  <2> QED BY <2>1, <2>2 DEF QueriesInv
<1>4. KeptInv'
  BY DEF Inv, KeptInv, Moves, Facts, Existing
<1>5. FoundInv'
  BY DEF FoundInv
<1>6. FiniteInv'
  BY DEF Inv, FiniteInv, Moves, Existing
<1>7. CountsInv' /\ NotFoundIsTrue'
  BY DEF Moves, CountsInv, NotFoundIsTrue
<1> QED BY <1>1, <1>2, <1>3, <1>4, <1>5, <1>6, <1>7 DEF Inv

-----------------------------------------------------------------------------
(* What an answer that is about something else leaves as it is               *)

Unrelated == Lists \cup {"pool"}

LEMMA KeepsLeases ==
  ASSUME Inv, NEW M, Moves(M), page'.leases = page.leases,
         todo[1].what \notin {"lease", "leaseIn", "leasesFor", "leasesOn", "allLeases"},
         \A q \in M : q.what \notin {"lease", "leaseIn", "leasesFor", "leasesOn"}
  PROVE  /\ (Pending({"lease", "leaseIn", "leasesFor", "leasesOn"})
              => page.leases = {})'
         /\ LeasesFound' /\ LeaseOfCluster' /\ IsFiniteSet(page'.leases)
<1>1. /\ Todo = {todo[1]} \cup Rest /\ Todo' = M \cup Rest
      /\ page'.kind = page.kind /\ page'.key = page.key /\ kept' = kept
      /\ page.status = "reading"
  BY DEF Moves
<1>2. Pending({"lease", "leaseIn", "leasesFor", "leasesOn"})' =>
        Pending({"lease", "leaseIn", "leasesFor", "leasesOn"})
  BY <1>1 DEF Pending
<1>3. Pending({"lease", "leasesOn", "leasesFor", "allLeases"}) =>
        Pending({"lease", "leasesOn", "leasesFor", "allLeases"})'
  BY <1>1 DEF Pending
<1>4. Pending({"leaseIn"}) => Pending({"leaseIn"})'
  BY <1>1 DEF Pending
<1>5. LeasesFound'
  <2>1. LeasesExpected' = LeasesExpected
    BY SameLeases
  <2> QED BY <1>1, <1>3, <2>1 DEF LeasesFound, Inv, FoundInv
<1>6. LeaseOfCluster'
  BY <1>1, <1>4 DEF LeaseOfCluster, Inv, FoundInv
<1> QED BY <1>1, <1>2, <1>5, <1>6 DEF Inv, QueriesInv, FiniteInv

LEMMA KeepsPools ==
  ASSUME Inv, NEW M, Moves(M),
         page'.leases = page.leases \/ page.kind \in Unrelated,
         page'.pools = page.pools,
         todo[1].what \notin {"pools", "each", "allPools"}
  PROVE  PoolsRelated' /\ PoolsFound'
<1>1. /\ Todo = {todo[1]} \cup Rest /\ Todo' = M \cup Rest
      /\ page'.kind = page.kind /\ kept' = kept
      /\ page.status = "reading"
  BY DEF Moves
<1>2. PoolsRelated'
  <2>1. CASE page'.leases = page.leases
    BY <1>1, <2>1, SameLeases DEF PoolsRelated, Inv, RelatedInv
  <2>2. CASE page.kind \in Unrelated
    BY <1>1, <2>2 DEF PoolsRelated, Unrelated
  <2> QED BY <2>1, <2>2
<1>3. PoolsFound
  BY <1>1 DEF Inv, FoundInv
<1>4. \A p : (\E q \in Todo : Reads(q, p)) => \E q \in Todo' : Reads(q, p)
  BY <1>1 DEF Reads
<1>5. Pending({"allPools"}) => Pending({"allPools"})'
  BY <1>1 DEF Pending
<1>6. PoolsFound'
  <2>1. \A f \in page'.pools, g \in kept'.pools : f[1] = g[1] => f = g
    BY <1>1, <1>3 DEF PoolsFound
  <2>2. page'.kind \in {"lease", "cluster", "prow"} =>
          \A f \in kept'.pools : f[1] \in PoolsNamed' =>
            f \in page'.pools \/ \E q \in Todo' : Reads(q, f[1])
    <3>1. CASE page'.leases = page.leases
      <4>1. PoolsNamed' = PoolsNamed
        BY <3>1, SameLeases
      <4> QED BY <1>1, <1>3, <1>4, <4>1 DEF PoolsFound
    <3>2. CASE page.kind \in Unrelated
      BY <1>1, <3>2 DEF Unrelated, Lists
    <3> QED BY <3>1, <3>2
  <2>3. page'.kind = "pools" =>
          kept'.pools \subseteq page'.pools \/ Pending({"allPools"})'
    BY <1>1, <1>3, <1>5 DEF PoolsFound
  <2>4. \A q, p : Reads(q, p)' <=> Reads(q, p)
    BY DEF Reads
  <2> QED BY <2>1, <2>2, <2>3, <2>4 DEF PoolsFound
<1> QED BY <1>2, <1>6

LEMMA KeepsJobs ==
  ASSUME Inv, NEW M, Moves(M),
         page'.leases = page.leases \/ page.kind \in Unrelated,
         page.kind = "pool" => page.leases \subseteq page'.leases,
         page'.jobs = page.jobs,
         todo[1].what \notin {"job", "allJobs"}
  PROVE  JobsRelated' /\ JobsFound'
<1>1. /\ Todo = {todo[1]} \cup Rest /\ Todo' = M \cup Rest
      /\ page'.kind = page.kind /\ kept' = kept
      /\ page.status = "reading"
  BY DEF Moves
<1>2. JobsRelated'
  <2>1. CASE page'.leases = page.leases
    BY <1>1, <2>1, SameLeases DEF JobsRelated, Inv, RelatedInv
  <2>2. CASE page.kind \in Unrelated
    <3>1. CASE page.kind = "pool"
      <4>1. JobsNamed \subseteq JobsNamed'
        BY <3>1, MoreLeases
      <4> QED BY <1>1, <3>1, <4>1 DEF Inv, RelatedInv, JobsRelated
    <3> QED BY <1>1, <2>2, <3>1 DEF JobsRelated, Unrelated
  <2> QED BY <2>1, <2>2
<1>3. JobsFound
  BY <1>1 DEF Inv, FoundInv
<1>4. Pending({"allJobs"}) => Pending({"allJobs"})'
  BY <1>1 DEF Pending
<1>5. JobsFound'
  <2>1. CASE page'.leases = page.leases
    <3>1. JobsNamed' = JobsNamed
      BY <2>1, SameLeases
    <3> QED BY <1>1, <1>3, <1>4, <3>1 DEF JobsFound
  <2>2. CASE page.kind \in Unrelated
    BY <1>1, <1>3, <1>4, <2>2 DEF Unrelated, Lists, JobsFound
  <2> QED BY <2>1, <2>2
<1> QED BY <1>2, <1>5

(* The queries of the VMs still to be made.                                  *)
LEMMA KeepsVMs ==
  ASSUME Inv, NEW M, Moves(M),
         page'.leases = page.leases \/ page.kind \in Unrelated \cup {"cluster"},
         page'.rows = page.rows,
         todo[1].what \notin {"vms", "each", "allVMs"},
         \A q \in M : q.what \notin {"vms", "each"}
  PROVE  VMsRelated' /\ VMsFound' /\ RowsInv'
<1>1. /\ Todo = {todo[1]} \cup Rest /\ Todo' = M \cup Rest
      /\ page'.kind = page.kind /\ page'.key = page.key /\ kept' = kept
      /\ page.status = "reading"
      /\ page'.rows = page.rows
  BY DEF Moves
<1>2. VMsShown' = VMsShown
  BY <1>1 DEF VMsShown
<1>3. NamespacesShown' = NamespacesShown
  <2>1. CASE page'.leases = page.leases
    BY <2>1, SameLeases
  <2>2. CASE page.kind \in Unrelated \cup {"cluster"}
    BY <1>1, <2>2 DEF Unrelated, Lists, NamespacesShown
  <2> QED BY <2>1, <2>2
<1>4. VMsRelated'
  BY <1>1, <1>2, <1>3 DEF VMsRelated, Inv, RelatedInv
<1>5. VMsFound'
  <2>1. VMsFound
    BY <1>1 DEF Inv, FoundInv
  <2>2. \A v : (\E q \in Todo : Shows(q, v)) => \E q \in Todo' : Shows(q, v)
    BY <1>1 DEF Shows
  <2>3. Pending({"allVMs"}) => Pending({"allVMs"})'
    BY <1>1 DEF Pending
  <2>4. \A q, v : Shows(q, v)' <=> Shows(q, v)
    BY DEF Shows
  <2> QED BY <1>1, <1>2, <1>3, <2>1, <2>2, <2>3, <2>4 DEF VMsFound
<1>6. RowsInv'
  <2>1. RowsInv
    BY DEF Inv
  <2>2. Pending({"vms"})' => Pending({"vms"})
    BY <1>1 DEF Pending
  <2>3. \A v : Asking(v)' <=> Asking(v)
    BY <1>1 DEF Asking
  <2>4. {x \in Todo' : x.what = "each"} = {x \in Todo : x.what = "each"}
    BY <1>1
  <2>5. Left' = Left
    BY <2>4 DEF Left
  <2>6. ASSUME NEW v \in Servers \X Names
        PROVE  IF page'.kind = "prow"
               THEN page'.rows[v] + (IF Asking(v)' THEN 1 ELSE 0)
                        + Cardinality(With(v, Left'))
                      <= Cardinality(With(v, page'.leases))
               ELSE page'.rows[v] <= 1 /\ (Pending({"vms"})' => page'.rows[v] = 0)
    <3>1. CASE page.kind = "prow"
      <4>1. page'.leases = page.leases
        BY <3>1 DEF Unrelated, Lists
      <4> QED BY <1>1, <2>1, <2>3, <2>5, <3>1, <4>1 DEF RowsInv
    <3>2. CASE page.kind # "prow"
      BY <1>1, <2>1, <2>2, <3>2 DEF RowsInv
    <3> QED BY <3>1, <3>2
  <2>7. \A v, F : With(v, F)' = With(v, F')
    BY DEF With
  <2> QED BY <2>6, <2>7 DEF RowsInv, With
<1> QED BY <1>4, <1>5, <1>6

LEMMA NoMore ==
  ASSUME Inv, page.status = "reading", NEW show \in Pages,
         show.kind = page.kind, show.key = page.key, Continue(show, <<>>)
  PROVE  /\ Moves({})
         /\ page'.leases = show.leases /\ page'.pools = show.pools
         /\ page'.rows = show.rows /\ page'.jobs = show.jobs
         /\ page'.counts = show.counts
<1>1. <<>> \in Seq(Queries) /\ Range(<<>>) = {} /\ InOrder(page.kind, <<>>)
  BY Nothing
<1>2. \A a \in Range(<<>>), b \in Rest : MayFollow(page.kind, a.what, b.what)
  BY <1>1
<1>3. Moves(Range(<<>>))
  BY <1>1, <1>2, Continued
<1> QED BY <1>1, <1>2, <1>3, Continued

(* The leases that a loop has left are on the page, and can be counted.      *)
LEMMA LeftOnPage ==
  ASSUME Inv
  PROVE  /\ Left \subseteq page.leases
         /\ \A v : Cardinality(With(v, Left)) \in Nat
         /\ \A v : Cardinality(With(v, page.leases)) \in Nat
<1>1. \A q \in Todo : q.what = "each" => q.key \subseteq page.leases
  BY DEF Inv, QueriesInv, Sensible
<1>2. Left \subseteq page.leases
  BY <1>1 DEF Left
<1>3. IsFiniteSet(page.leases)
  BY DEF Inv, FiniteInv
<1>4. \A v : With(v, Left) \subseteq page.leases /\ With(v, page.leases) \subseteq page.leases
  BY <1>2 DEF With
<1>5. \A v : IsFiniteSet(With(v, Left)) /\ IsFiniteSet(With(v, page.leases))
  BY <1>3, <1>4, FS_Subset
<1> QED BY <1>2, <1>5, FS_CardinalityType

LEMMA GivenUp ==
  ASSUME Inv, page.status = "reading", NotFound, NotFoundIsTrue'
  PROVE  Inv'
<1>1. /\ page' = [page EXCEPT !.status = "notFound"] /\ page \in Pages
      /\ todo' = <<>>
      /\ UNCHANGED <<pools, leases, jobs, vms, kept, changes>>
  BY DEF NotFound, storeVars, Inv, TypeOK
<1>2. /\ page' \in Pages /\ page'.status = "notFound"
      /\ page'.kind = page.kind /\ page'.key = page.key
      /\ page'.leases = page.leases /\ page'.pools = page.pools
      /\ page'.rows = page.rows /\ page'.jobs = page.jobs
  BY <1>1 DEF Pages
<1>3. Todo' = {} /\ todo' \in Seq(Queries) /\ \A kind : InOrder(kind, todo')
  BY <1>1, Nothing DEF Todo
<1>4. DOMAIN todo' = {}
  BY <1>1
<1>5. TypeOK' /\ RequestInv' /\ QueriesInv'
  <2>1. TypeOK'
    BY <1>1, <1>2, <1>4 DEF Inv, TypeOK
  <2>2. RequestInv'
    BY <1>1, <1>2 DEF Inv, RequestInv
  <2>3. QueriesInv'
    BY <1>2, <1>3 DEF QueriesInv, Pending, InOrder
  <2> QED BY <2>1, <2>2, <2>3
<1>6. KeptInv' /\ FoundInv' /\ FiniteInv' /\ CountsInv'
  BY <1>1, <1>2 DEF Inv, KeptInv, Facts, Existing, FoundInv, FiniteInv, CountsInv
<1>7. RelatedInv'
  BY <1>2 DEF Inv, RelatedInv, VMsRelated, PoolsRelated, JobsRelated, VMsShown,
     NamespacesShown, PoolsNamed, JobsNamed
<1>8. RowsInv'
  <2>1. (Left = {})' /\ (~Pending({"vms"}))' /\ \A v : ~Asking(v)'
    BY <1>3 DEF Left, Pending, Asking
  <2>2. \A v : With(v, Left)' = {} /\ With(v, page.leases)' = With(v, page.leases)
    BY <1>2, <2>1 DEF With
  <2>3. Cardinality({}) = 0
    BY FS_EmptySet
  <2>4. ASSUME NEW v \in Servers \X Names
        PROVE  IF page'.kind = "prow"
               THEN page'.rows[v] + (IF Asking(v)' THEN 1 ELSE 0)
                        + Cardinality(With(v, Left)')
                      <= Cardinality(With(v, page.leases)')
               ELSE page'.rows[v] <= 1 /\ (Pending({"vms"})' => page'.rows[v] = 0)
    <3>1. page.rows[v] \in Nat
      BY <1>1 DEF Pages
    <3>2. /\ Cardinality(With(v, Left)) \in Nat
          /\ Cardinality(With(v, page.leases)) \in Nat
      BY LeftOnPage
    <3>3. CASE page.kind = "prow"
      <4>1. page.rows[v] + (IF Asking(v) THEN 1 ELSE 0) + Cardinality(With(v, Left))
              <= Cardinality(With(v, page.leases))
        BY <3>3 DEF Inv, RowsInv
      <4>2. page.rows[v] <= Cardinality(With(v, page.leases))
        BY <3>1, <3>2, <4>1
      <4>3. Cardinality(With(v, Left)') = 0
        BY <2>2, <2>3
      <4>4. With(v, page.leases)' = With(v, page.leases)
        BY <2>2
      <4>5. page'.rows[v] + 0 + 0 <= Cardinality(With(v, page.leases)')
        BY <1>2, <3>1, <4>2, <4>4
      <4> QED BY <1>2, <2>1, <3>3, <4>3, <4>5
    <3>4. CASE page.kind # "prow"
      BY <1>2, <2>1, <3>4 DEF Inv, RowsInv
    <3> QED BY <3>3, <3>4
  <2> QED BY <2>4 DEF RowsInv
<1> QED BY <1>3, <1>5, <1>6, <1>7, <1>8 DEF Inv

-----------------------------------------------------------------------------
(* The queries, one by one                                                   *)

LEMMA AskPoolKeeps ==
  ASSUME Inv, AskPool
  PROVE  Inv'
<1> DEFINE p == todo[1].key
           show == [page EXCEPT !.pools = {<<p, pools[p]>>}]
<1>1. page.status = "reading" /\ todo[1].what = "pool"
  BY DEF AskPool, Asks
<1>2. page.kind = "pool" /\ p = page.key /\ p \in Pools
  BY <1>1, HeadFacts DEF Inv, RequestInv, Sensible
<1>3. page \in Pages /\ pools[p] \in PoolSpecs \cup {None}
  BY <1>2 DEF Inv, TypeOK
<1>4. CASE pools[p] # None
  <2>1. Continue(show, <<>>)
    BY <1>1, <1>4 DEF AskPool
  <2>2. show \in Pages /\ show.kind = page.kind /\ show.key = page.key
        /\ show.leases = page.leases /\ show.rows = page.rows
        /\ show.jobs = page.jobs /\ show.pools = {<<p, pools[p]>>}
    BY <1>2, <1>3, <1>4 DEF Pages
  <2>3. Moves({}) /\ page'.leases = page.leases /\ page'.rows = page.rows
        /\ page'.jobs = page.jobs /\ page'.pools = {<<p, pools[p]>>}
    BY <1>1, <2>1, <2>2, NoMore
  <2>4. PoolsRelated' /\ PoolsFound'
    <3>1. page'.kind = "pool" /\ kept' = kept
      BY <1>2, <2>3 DEF Moves
    <3>2. \A g \in kept.pools : g[2] = pools[g[1]] /\ g = <<g[1], g[2]>>
      BY DEF Inv, KeptInv, Facts
    <3> QED BY <2>3, <3>1, <3>2 DEF PoolsRelated, PoolsFound
  <2>5. \A q \in Rest : Sensible(q)'
    BY <2>3, SameLeases DEF Moves
  <2> QED BY <1>1, <1>2, <2>3, <2>4, <2>5, KeepsLeases, KeepsVMs, KeepsJobs,
             Answered DEF RelatedInv
<1>5. CASE pools[p] = None
  <2>1. NotFound
    BY <1>1, <1>5 DEF AskPool
  <2>2. \A f \in kept.pools : pools[f[1]] # None
    BY DEF Inv, KeptInv, Facts, Existing
  <2>3. page'.kind = "pool" /\ page'.key = p /\ kept' = kept
    BY <1>2, <1>3, <2>1 DEF NotFound, Pages
  <2>4. NotFoundIsTrue'
    BY <1>5, <2>2, <2>3 DEF NotFoundIsTrue
  <2> QED BY <1>1, <2>1, <2>4, GivenUp
<1> QED BY <1>4, <1>5

LEMMA AskPoolOfKeeps ==
  ASSUME Inv, AskPoolOf
  PROVE  Inv'
<1>1. page.status = "reading" /\ todo[1].what = "pools"
  BY DEF AskPoolOf, Asks
<1> DEFINE S == todo[1].key
<1>2. /\ page.kind \in {"lease", "cluster", "prow"}
      /\ S \subseteq PoolsNamed
  BY <1>1, HeadFacts DEF Sensible
<1>3. /\ page \in Pages /\ pools \in [Pools -> PoolSpecs \cup {None}]
      /\ page.leases \subseteq Leases \X Contents
  BY DEF Inv, TypeOK, Pages
<1>4. PoolsNamed \subseteq Pools
  BY <1>3, DetailsAssumption DEF PoolsNamed, LeaseType
<1> DEFINE found(p) ==
             IF (\E f \in page.pools : f[1] = p) \/ pools[p] = None THEN {}
             ELSE {<<p, pools[p]>>}
           show(p) == [page EXCEPT !.pools = @ \cup found(p)]
<1>5. PICK p \in S : Continue(show(p), PoolsLeft(S \ {p}))
  BY DEF AskPoolOf
<1>6. p \in Pools /\ S \ {p} \in SUBSET Pools
  BY <1>2, <1>4
<1> DEFINE more == PoolsLeft(S \ {p})
           M == IF S \ {p} = {} THEN {} ELSE {Query("pools", S \ {p})}
<1>7. more \in Seq(Queries) /\ InOrder(page.kind, more) /\ Range(more) = M
  BY <1>6, LoopQueries
<1>8. /\ show(p) \in Pages /\ show(p).kind = page.kind /\ show(p).key = page.key
      /\ show(p).leases = page.leases /\ show(p).rows = page.rows
      /\ show(p).jobs = page.jobs /\ show(p).pools = page.pools \cup found(p)
  BY <1>3, <1>6 DEF Pages
<1>9. \A q \in M : q.what = "pools" /\ q.key = S \ {p} /\ S \ {p} # {}
  BY DEF Query
<1>10. \A a \in M, b \in Rest : MayFollow(page.kind, a.what, b.what)
  BY <1>1, <1>9, HeadFacts
<1>11. Moves(M) /\ page'.leases = page.leases /\ page'.rows = page.rows
       /\ page'.jobs = page.jobs /\ page'.pools = page.pools \cup found(p)
  <2> HIDE DEF M, more, show, found
  <2>1. Continue(show(p), more)
    BY <1>5 DEF more
  <2>2. Range(more) = M
    BY <1>7
  <2>3. /\ Moves(Range(more))
        /\ page'.leases = show(p).leases /\ page'.pools = show(p).pools
        /\ page'.rows = show(p).rows /\ page'.jobs = show(p).jobs
    BY <1>1, <1>7, <1>8, <1>10, <2>1, <2>2, Continued
  <2> QED BY <1>8, <2>2, <2>3
<1> HIDE DEF M, more, show
<1>12. \A q \in M \cup Rest : Sensible(q)'
  <2>1. \A q \in M : Sensible(q)
    BY <1>2, <1>9 DEF Sensible
  <2> QED BY <1>11, <2>1, SameLeases DEF Moves
<1>13. PoolsRelated'
  <2>1. PoolsNamed' = PoolsNamed
    BY <1>11, SameLeases
  <2>2. \A f \in page.pools : f[1] \in PoolsNamed
    BY <1>2 DEF Inv, RelatedInv, PoolsRelated, Lists
  <2>3. \A f \in page.pools \cup found(p) : f[1] \in PoolsNamed
    BY <1>2, <2>2
  <2> QED BY <1>11, <2>1, <2>3 DEF PoolsRelated
<1>14. PoolsFound'
  <2>1. PoolsNamed' = PoolsNamed
    BY <1>11, SameLeases
  <2>2. PoolsFound /\ kept' = kept /\ page'.kind = page.kind
    BY <1>1, <1>11 DEF Inv, FoundInv, Moves
  <2>3. \A g \in kept.pools : /\ g[2] = pools[g[1]] /\ g = <<g[1], g[2]>>
                              /\ pools[g[1]] # None
    BY DEF Inv, KeptInv, Facts, Existing
  <2>4. \A f \in page.pools \cup found(p), g \in kept.pools : f[1] = g[1] => f = g
    BY <2>2, <2>3 DEF PoolsFound
  <2>5. ASSUME NEW f \in kept.pools, f[1] \in PoolsNamed
        PROVE  f \in page'.pools \/ \E q \in Todo' : Reads(q, f[1])
    <3>1. CASE f \in page.pools
      BY <1>11, <3>1
    <3>2. CASE f \notin page.pools
      <4>1. PICK q \in Todo : Reads(q, f[1])
        BY <1>2, <2>2, <2>5, <3>2 DEF PoolsFound
      <4>2. Todo = {todo[1]} \cup Rest /\ Todo' = M \cup Rest
        BY <1>11 DEF Moves
      <4>3. CASE q \in Rest
        BY <4>1, <4>2, <4>3
      <4>4. CASE q = todo[1]
        <5>1. f[1] \in S
          BY <1>1, <4>1, <4>4 DEF Reads
        <5>2. CASE f[1] = p
          BY <1>11, <2>2, <2>3, <3>2, <5>2 DEF PoolsFound
        <5>3. CASE f[1] # p
          <6>1. Query("pools", S \ {p}) \in M
            BY <5>1, <5>3 DEF M
          <6> QED BY <4>2, <5>1, <5>3, <6>1 DEF Reads, Query
        <5> QED BY <5>2, <5>3
      <4> QED BY <4>1, <4>2, <4>3, <4>4
    <3> QED BY <3>1, <3>2
  <2> QED BY <1>2, <1>11, <2>1, <2>2, <2>4, <2>5 DEF PoolsFound, Reads
<1> QED BY <1>1, <1>2, <1>9, <1>11, <1>12, <1>13, <1>14, KeepsLeases, KeepsVMs,
           KeepsJobs, Answered DEF RelatedInv

(* The namespaces whose VMs are read are names, none of them empty.          *)
LEMMA NamespacesAreNames ==
  ASSUME Inv, page.status = "reading"
  PROVE  NamespacesShown \subseteq Seq(STRING)
<1>1. \A f \in page.leases : f[2].ns \in Seq(STRING) \cup {None}
  BY DetailsAssumption DEF Inv, TypeOK, Pages, LeaseType
<1>2. page.kind = "cluster" => page.key \in Seq(STRING)
  BY DetailsAssumption DEF Inv, RequestInv
<1> QED BY <1>1, <1>2 DEF NamespacesShown

LEMMA AskVMsKeeps ==
  ASSUME Inv, AskVMs
  PROVE  Inv'
<1> DEFINE ns == todo[1].key
           found == GetVMsByNamespace(ns)
           counted == [v \in DOMAIN page.rows |->
                         IF v \in found THEN page.rows[v] + 1 ELSE page.rows[v]]
           show == [page EXCEPT !.rows = counted]
<1>1. page.status = "reading" /\ todo[1].what = "vms"
  BY DEF AskVMs, Asks
<1>2. /\ Sensible(todo[1])
      /\ \A q \in Rest : MayFollow(page.kind, "vms", q.what)
      /\ todo[1] \in Todo /\ Todo = {todo[1]} \cup Rest
  BY <1>1, HeadFacts
<1>3. ns # <<>> /\ ns \in NamespacesShown
  BY <1>1, <1>2 DEF Sensible
<1>4. page.kind \in {"cluster", "lease", "prow"} /\ ns \in Seq(STRING)
  BY <1>1, <1>3, NamespacesAreNames DEF NamespacesShown
<1>5. page \in Pages /\ page.rows \in [Servers \X Names -> Nat]
      /\ Names \subseteq Seq(STRING)
  BY DetailsAssumption DEF Inv, TypeOK, Pages
<1>6. Continue(show, <<>>)
  BY DEF AskVMs
<1>7. show \in Pages /\ show.kind = page.kind /\ show.key = page.key
      /\ show.leases = page.leases /\ show.pools = page.pools
      /\ show.jobs = page.jobs /\ show.rows = counted
  <2>1. counted \in [Servers \X Names -> Nat]
    BY <1>5
  <2> HIDE DEF counted
  <2> QED BY <1>5, <2>1 DEF Pages
<1>8. Moves({}) /\ page'.leases = page.leases /\ page'.pools = page.pools
      /\ page'.jobs = page.jobs /\ page'.rows = counted
  <2> HIDE DEF show, counted
  <2> QED BY <1>1, <1>6, <1>7, NoMore
<1> HIDE DEF show
<1>9. \A v \in Servers \X Names :
        /\ v \in found <=> v[2] \in vms[v[1]] /\ extractNamespace(v[2]) = ns
        /\ v[2] \in Seq(STRING)
  BY <1>5 DEF GetVMsByNamespace
<1> HIDE DEF found
<1>10. \A q \in Rest : Sensible(q)'
  BY <1>8, SameLeases DEF Moves
<1>11. /\ NamespacesShown' = NamespacesShown
       /\ page'.kind = page.kind /\ kept' = kept
       /\ Todo' = Rest
  BY <1>8, SameLeases DEF Moves
<1>12. \A v \in Servers \X Names :
         /\ counted[v] \in Nat /\ page.rows[v] \in Nat
         /\ v \in found => counted[v] = page.rows[v] + 1
         /\ v \notin found => counted[v] = page.rows[v]
  BY <1>5
<1> HIDE DEF counted
<1>13. /\ VMsShown = {v \in Servers \X Names : page.rows[v] > 0}
       /\ VMsShown' = {v \in Servers \X Names : counted[v] > 0}
  BY <1>5, <1>7, <1>8 DEF VMsShown, Pages
<1>14. VMsRelated'
  <2>1. ASSUME NEW v \in VMsShown' PROVE \E k \in NamespacesShown : BelongsTo(v[2], k)
    <3>1. v \in Servers \X Names /\ counted[v] > 0
      BY <1>13, <2>1
    <3>2. CASE v \in found
      <4>1. extractNamespace(v[2]) = ns /\ v[2] \in Seq(STRING)
        BY <1>9, <3>1, <3>2
      <4>2. BelongsTo(v[2], ns)
        BY <1>3, <4>1, NamespaceOf
      <4> QED BY <1>3, <4>2
    <3>3. CASE v \notin found
      <4>1. v \in VMsShown
        BY <1>12, <1>13, <3>1, <3>3
      <4> QED BY <1>4, <4>1 DEF Inv, RelatedInv, VMsRelated, Lists
    <3> QED BY <3>2, <3>3
  <2> QED BY <1>11, <2>1 DEF VMsRelated
<1>15. VMsFound'
  <2>1. VMsFound
    BY <1>1 DEF Inv, FoundInv
  <2>2. VMsShown \subseteq VMsShown'
    BY <1>12, <1>13
  <2>3. ASSUME NEW v \in kept.vms, \E k \in NamespacesShown : BelongsTo(v[2], k)
        PROVE  v \in VMsShown' \/ \E q \in Rest : Shows(q, v)
    <3>1. v \in VMsShown \/ \E q \in Todo : Shows(q, v)
      BY <2>1, <2>3 DEF VMsFound
    <3>2. CASE Shows(todo[1], v)
      <4>1. v \in Servers \X Names /\ v[2] \in vms[v[1]]
        BY DEF Inv, KeptInv, Facts
      <4>2. BelongsTo(v[2], ns)
        BY <1>1, <3>2 DEF Shows
      <4>3. extractNamespace(v[2]) = ns
        BY <1>4, <1>9, <4>1, <4>2, NamespaceUnique
      <4>4. v \in found
        BY <1>9, <4>1, <4>3
      <4>5. counted[v] > 0
        BY <1>12, <4>1, <4>4
      <4> QED BY <1>13, <4>1, <4>5
    <3> QED BY <1>2, <2>2, <3>1, <3>2
  <2> QED BY <1>4, <1>11, <2>3 DEF VMsFound, Shows
<1>16. RowsInv'
  <2>1. \A q \in Rest : q.what # "vms"
    BY <1>2, <1>4 DEF MayFollow
  <2>2. (~Pending({"vms"}))' /\ \A v : ~Asking(v)'
    BY <1>11, <2>1 DEF Pending, Asking
  <2>3. {x \in Rest : x.what = "each"} = {x \in Todo : x.what = "each"}
    BY <1>1, <1>2
  <2>4. Left' = Left
    BY <1>11, <2>3 DEF Left
  <2>5. \A v : With(v, Left)' = With(v, Left) /\ With(v, page.leases)' = With(v, page.leases)
    BY <1>8, <2>4 DEF With
  <2>6. ASSUME NEW v \in Servers \X Names, page.kind = "prow"
        PROVE  counted[v] + 0 + Cardinality(With(v, Left))
                 <= Cardinality(With(v, page.leases))
    <3>1. /\ Cardinality(With(v, Left)) \in Nat
          /\ Cardinality(With(v, page.leases)) \in Nat
      BY LeftOnPage
    <3>2. page.rows[v] + (IF Asking(v) THEN 1 ELSE 0) + Cardinality(With(v, Left))
            <= Cardinality(With(v, page.leases))
      BY <2>6 DEF Inv, RowsInv
    <3>3. v \in found => Asking(v)
      BY <1>1, <1>2, <1>9 DEF Asking
    <3> QED BY <1>12, <3>1, <3>2, <3>3
  <2>7. ASSUME NEW v \in Servers \X Names, page.kind # "prow"
        PROVE  counted[v] <= 1
    <3>1. page.rows[v] = 0
      BY <1>1, <1>2, <2>7 DEF Inv, RowsInv, Pending
    <3> QED BY <1>12, <3>1
  <2>8. ASSUME NEW v \in Servers \X Names
        PROVE  IF page'.kind = "prow"
               THEN page'.rows[v] + (IF Asking(v)' THEN 1 ELSE 0)
                        + Cardinality(With(v, Left)')
                      <= Cardinality(With(v, page.leases)')
               ELSE page'.rows[v] <= 1 /\ (Pending({"vms"})' => page'.rows[v] = 0)
    BY <1>8, <1>11, <2>2, <2>5, <2>6, <2>7
  <2> QED BY <2>8 DEF RowsInv
<1> QED BY <1>1, <1>4, <1>8, <1>10, <1>14, <1>15, <1>16, KeepsLeases, KeepsPools,
           KeepsJobs, Answered DEF RelatedInv

LEMMA AskJobKeeps ==
  ASSUME Inv, AskJob
  PROVE  Inv'
<1> DEFINE j == todo[1].key
           show == IF j \in jobs THEN [page EXCEPT !.jobs = @ \cup {j}] ELSE page
<1>1. page.status = "reading" /\ todo[1].what = "job"
  BY DEF AskJob, Asks
<1>2. /\ Sensible(todo[1]) /\ todo[1] \in Todo /\ Todo = {todo[1]} \cup Rest
  BY <1>1, HeadFacts
<1>3. \/ page.kind = "prow" /\ j = page.key
      \/ page.kind \in {"lease", "cluster"} /\ j \in JobsNamed
  BY <1>1, <1>2 DEF Sensible
<1>4. page \in Pages /\ jobs \subseteq Jobs
  BY DEF Inv, TypeOK
<1>5. CASE j \in jobs \/ page.kind # "prow"
  <2>1. Continue(show, <<>>)
    BY <1>5 DEF AskJob
  <2>2. show \in Pages /\ show.kind = page.kind /\ show.key = page.key
        /\ show.leases = page.leases /\ show.pools = page.pools
        /\ show.rows = page.rows
        /\ show.jobs = page.jobs \cup (IF j \in jobs THEN {j} ELSE {})
    BY <1>4 DEF Pages
  <2> HIDE DEF show
  <2>3. Moves({}) /\ page'.leases = page.leases /\ page'.pools = page.pools
        /\ page'.rows = page.rows /\ page'.jobs = show.jobs
    BY <1>1, <2>1, <2>2, NoMore
  <2>4. \A q \in Rest : Sensible(q)'
    BY <2>3, SameLeases DEF Moves
  <2>5. /\ JobsNamed' = JobsNamed /\ page'.kind = page.kind
        /\ kept' = kept /\ Todo' = Rest
    BY <2>3, SameLeases DEF Moves
  <2>6. JobsRelated'
    BY <1>3, <2>2, <2>3, <2>5 DEF JobsRelated, Inv, RelatedInv, Lists
  <2>7. JobsFound'
    <3>1. JobsFound /\ kept.jobs \subseteq jobs
      BY <1>1 DEF Inv, FoundInv, KeptInv, Facts
    <3> QED BY <1>2, <1>3, <2>2, <2>3, <2>5, <3>1 DEF JobsFound
  <2> QED BY <1>1, <1>3, <2>3, <2>4, <2>6, <2>7, KeepsLeases, KeepsPools, KeepsVMs,
             Answered DEF RelatedInv
<1>6. CASE j \notin jobs /\ page.kind = "prow"
  <2>1. NotFound
    BY <1>6 DEF AskJob
  <2>2. page'.kind = "prow" /\ page'.key = j /\ kept' = kept
    BY <1>3, <1>4, <1>6, <2>1 DEF NotFound, Pages
  <2>3. NotFoundIsTrue'
    BY <1>6, <2>2 DEF NotFoundIsTrue, Inv, KeptInv, Facts
  <2> QED BY <1>1, <2>1, <2>3, GivenUp
<1> QED BY <1>5, <1>6

(* The loop over the leases of a job goes on to the lease f.                 *)
LEMMA NextLeaseKeeps ==
  ASSUME Inv, NextLease
  PROVE  Inv'
<1> DEFINE F == todo[1].key
           more(f) == VMsOf(f[2]) \o PoolsOf(f[2]) \o LeasesLeft(F \ {f})
<1>1. page.status = "reading" /\ todo[1].what = "each"
  BY DEF NextLease, Asks
<1>2. /\ Sensible(todo[1]) /\ todo[1] \in Todo /\ Todo = {todo[1]} \cup Rest
      /\ \A q \in Rest : MayFollow(page.kind, "each", q.what)
  BY <1>1, HeadFacts
<1>3. page.kind = "prow" /\ F \subseteq page.leases
  BY <1>1, <1>2 DEF Sensible
<1>4. Rest = {}
  BY <1>2, <1>3 DEF MayFollow
<1>5. page \in Pages /\ page.leases \subseteq Leases \X Contents
  BY DEF Inv, TypeOK, Pages
<1>6. PICK f \in F : Continue(page, more(f))
  BY DEF NextLease
<1> DEFINE c == f[2]
           G == F \ {f}
           V == IF c.ns \in {None, <<>>} THEN {} ELSE {Query("vms", c.ns)}
           P == IF c.pools = {} THEN {} ELSE {Query("pools", c.pools)}
           E == IF G = {} THEN {} ELSE {Query("each", G)}
<1>7. f \in page.leases /\ c \in Contents /\ G \in SUBSET (Leases \X Contents)
  BY <1>3, <1>5, <1>6
<1>8. /\ VMsOf(c) \in Seq(Queries) /\ PoolsOf(c) \in Seq(Queries)
      /\ InOrder("prow", VMsOf(c)) /\ InOrder("prow", PoolsOf(c))
      /\ Range(VMsOf(c)) = V /\ Range(PoolsOf(c)) = P
  <2> HIDE DEF c
  <2> QED BY <1>7, MoreQueries
<1>9. /\ LeasesLeft(G) \in Seq(Queries) /\ InOrder("prow", LeasesLeft(G))
      /\ Range(LeasesLeft(G)) = E
  <2> HIDE DEF G
  <2> QED BY <1>7, LoopQueries
<1>10. /\ \A q \in V : q.what = "vms" /\ q.key = c.ns /\ c.ns \notin {None, <<>>}
       /\ \A q \in P : q.what = "pools" /\ q.key = c.pools /\ c.pools # {}
       /\ \A q \in E : q.what = "each" /\ q.key = G /\ G # {}
  BY DEF Query
<1> DEFINE vp == VMsOf(c) \o PoolsOf(c)
<1>11. vp \in Seq(Queries) /\ InOrder("prow", vp) /\ Range(vp) = V \cup P
  <2>1. \A a \in V, b \in P : MayFollow("prow", a.what, b.what)
    BY <1>10 DEF MayFollow
  <2> HIDE DEF V, P, c
  <2> QED BY <1>8, <2>1, Concat, ConcatOrder
<1>12. /\ more(f) \in Seq(Queries) /\ InOrder("prow", more(f))
       /\ Range(more(f)) = V \cup P \cup E
  <2>1. \A a \in V \cup P, b \in E : MayFollow("prow", a.what, b.what)
    BY <1>10 DEF MayFollow
  <2>2. more(f) = vp \o LeasesLeft(G)
    OBVIOUS
  <2> HIDE DEF vp, V, P, E, c, G, more
  <2> QED BY <1>9, <1>11, <2>1, <2>2, Concat, ConcatOrder
<1> DEFINE M == V \cup P \cup E
<1> HIDE DEF more, vp
<1>13. /\ Moves(M) /\ page'.leases = page.leases /\ page'.pools = page.pools
       /\ page'.jobs = page.jobs /\ page'.rows = page.rows
  <2> HIDE DEF M
  <2>1. Range(more(f)) = M
    BY <1>12 DEF M
  <2> QED BY <1>1, <1>3, <1>4, <1>5, <1>6, <1>12, <2>1, Continued
<1>14. /\ NamespacesShown' = NamespacesShown /\ PoolsNamed' = PoolsNamed
       /\ page'.kind = page.kind /\ kept' = kept
       /\ Todo' = M
  BY <1>4, <1>13, SameLeases DEF Moves
<1>15. \A q \in M \cup Rest : Sensible(q)'
  <2>1. \A q \in V : Sensible(q)
    BY <1>3, <1>7, <1>10 DEF Sensible, NamespacesShown
  <2>2. \A q \in P : Sensible(q)
    BY <1>3, <1>7, <1>10 DEF Sensible, PoolsNamed
  <2>3. \A q \in E : Sensible(q)
    BY <1>3, <1>10 DEF Sensible
  <2> QED BY <1>4, <1>13, <2>1, <2>2, <2>3, SameLeases
<1>16. PoolsRelated' /\ PoolsFound'
  <2>1. PoolsFound /\ PoolsRelated
    BY <1>1 DEF Inv, FoundInv, RelatedInv
  <2>2. PoolsRelated'
    BY <1>13, <1>14, <2>1 DEF PoolsRelated
  <2>3. ASSUME NEW p, Reads(todo[1], p) PROVE \E q \in M : Reads(q, p)
    <3>1. PICK g \in F : p \in g[2].pools
      BY <1>1, <2>3 DEF Reads
    <3>2. CASE g = f
      <4>1. Query("pools", c.pools) \in M
        BY <3>1, <3>2
      <4> QED BY <3>1, <3>2, <4>1 DEF Reads, Query
    <3>3. CASE g # f
      <4>1. g \in G /\ Query("each", G) \in M
        BY <3>1, <3>3
      <4> HIDE DEF G, M
      <4> QED BY <3>1, <4>1 DEF Reads, Query
    <3> QED BY <3>2, <3>3
  <2>4. \A p : (\E q \in Todo : Reads(q, p)) => \E q \in Todo' : Reads(q, p)
    BY <1>2, <1>4, <1>14, <2>3
  <2> HIDE DEF M
  <2>5. PoolsFound'
    BY <1>3, <1>13, <1>14, <2>1, <2>4 DEF PoolsFound, Reads
  <2> QED BY <2>2, <2>5
<1>17. VMsRelated' /\ VMsFound'
  <2>1. VMsShown' = VMsShown
    BY <1>13 DEF VMsShown
  <2>2. VMsFound /\ VMsRelated
    BY <1>1 DEF Inv, FoundInv, RelatedInv
  <2>3. VMsRelated'
    BY <1>14, <2>1, <2>2 DEF VMsRelated
  <2>4. ASSUME NEW v, Shows(todo[1], v) PROVE \E q \in M : Shows(q, v)
    <3>1. PICK g \in F : g[2].ns # None /\ BelongsTo(v[2], g[2].ns)
      BY <1>1, <2>4 DEF Shows
    <3>2. CASE g = f
      <4>1. c.ns # <<>>
        BY <3>1, <3>2 DEF BelongsTo
      <4>2. Query("vms", c.ns) \in M
        BY <3>1, <3>2, <4>1
      <4> QED BY <3>1, <3>2, <4>2 DEF Shows, Query
    <3>3. CASE g # f
      <4>1. g \in G /\ Query("each", G) \in M
        BY <3>1, <3>3
      <4> HIDE DEF G, M
      <4> QED BY <3>1, <4>1 DEF Shows, Query
    <3> QED BY <3>2, <3>3
  <2>5. \A v : (\E q \in Todo : Shows(q, v)) => \E q \in Todo' : Shows(q, v)
    BY <1>2, <1>4, <1>14, <2>4
  <2> HIDE DEF M
  <2>6. VMsFound'
    BY <1>3, <1>14, <2>1, <2>2, <2>5 DEF VMsFound, Shows
  <2> QED BY <2>3, <2>6
<1>18. RowsInv'
  <2>1. Left = F /\ Left' = G
    <3>1. {x \in Todo : x.what = "each"} = {todo[1]}
      BY <1>1, <1>2, <1>4
    <3>2. UNION {q.key : q \in {x \in M : x.what = "each"}} = G
      <4>1. CASE G = {}
        <5>1. {x \in M : x.what = "each"} = {}
          BY <1>10, <4>1
        <5> HIDE DEF M, G
        <5> QED BY <4>1, <5>1
      <4>2. CASE G # {}
        <5>1. E = {Query("each", G)}
          BY <4>2
        <5> HIDE DEF G
        <5>2. {x \in M : x.what = "each"} = {Query("each", G)}
          BY <1>10, <5>1 DEF Query
        <5>3. Query("each", G).key = G
          BY DEF Query
        <5>4. {q.key : q \in {Query("each", G)}} = {G}
          BY <5>3
        <5> HIDE DEF M
        <5> QED BY <5>2, <5>4
      <4> QED BY <4>1, <4>2
    <3>3. Left = F
      BY <3>1 DEF Left
    <3>4. Left' = UNION {q.key : q \in {x \in Todo' : x.what = "each"}}
      BY DEF Left
    <3> HIDE DEF M, G
    <3> QED BY <1>14, <3>2, <3>3, <3>4
  <2>2. ASSUME NEW v \in Servers \X Names
        PROVE  page.rows[v] + (IF Asking(v)' THEN 1 ELSE 0) + Cardinality(With(v, G))
                 <= Cardinality(With(v, page.leases))
    <3>1. page.rows[v] + (IF Asking(v) THEN 1 ELSE 0) + Cardinality(With(v, F))
            <= Cardinality(With(v, page.leases))
      BY <1>3, <2>1 DEF Inv, RowsInv
    <3>2. page.rows[v] \in Nat /\ v[2] \in Seq(STRING)
      BY <1>5, DetailsAssumption DEF Pages
    <3>3. IsFiniteSet(With(v, F)) /\ Cardinality(With(v, F)) \in Nat
          /\ Cardinality(With(v, page.leases)) \in Nat
      <4>1. IsFiniteSet(page.leases)
        BY DEF Inv, FiniteInv
      <4>2. With(v, F) \subseteq page.leases /\ With(v, page.leases) \subseteq page.leases
        BY <1>3 DEF With
      <4> QED BY <4>1, <4>2, FS_Subset, FS_CardinalityType
    <3>4. With(v, G) = With(v, F) \ {f}
      BY DEF With
    <3>5. CASE f \in With(v, F)
      <4>1. Cardinality(With(v, G)) = Cardinality(With(v, F)) - 1
        BY <3>3, <3>4, <3>5, FS_RemoveElement
      <4> QED BY <3>1, <3>2, <3>3, <4>1
    <3>6. CASE f \notin With(v, F)
      <4>1. With(v, G) = With(v, F)
        BY <3>4, <3>6
      <4>2. ~Asking(v)'
        <5>1. SUFFICES ASSUME Asking(v)' PROVE FALSE
          OBVIOUS
        <5>2. PICK q \in M : q.what = "vms" /\ q.key = extractNamespace(v[2])
          BY <1>14, <5>1 DEF Asking
        <5>3. c.ns = extractNamespace(v[2]) /\ c.ns \notin {None, <<>>}
          BY <1>10, <5>2
        <5>4. BelongsTo(v[2], c.ns)
          BY <3>2, <5>3, NamespaceOf
        <5> QED BY <1>6, <3>6, <5>3, <5>4 DEF With
      <4> QED BY <3>1, <3>2, <3>3, <4>1, <4>2
    <3> QED BY <3>5, <3>6
  <2>3. \A v : With(v, page.leases)' = With(v, page.leases)
    BY <1>13 DEF With
  <2>4. \A v : With(v, Left)' = With(v, G)
    BY <2>1 DEF With
  <2>5. ASSUME NEW v \in Servers \X Names
        PROVE  page'.rows[v] + (IF Asking(v)' THEN 1 ELSE 0) + Cardinality(With(v, Left)')
                 <= Cardinality(With(v, page.leases)')
    BY <1>13, <2>2, <2>3, <2>4
  <2>6. page'.kind = "prow"
    BY <1>3, <1>14
  <2> QED BY <2>5, <2>6 DEF RowsInv
<1> HIDE DEF M
<1>19. \A q \in M : q.what \in {"vms", "pools", "each"}
  BY <1>10 DEF M
<1> QED BY <1>1, <1>3, <1>13, <1>15, <1>16, <1>17, <1>18, <1>19, KeepsLeases,
           KeepsJobs, Answered DEF RelatedInv

LEMMA PairsFinite ==
  ASSUME NEW X, IsFiniteSet(X)
  PROVE  IsFiniteSet({<<l, leases[l]>> : l \in X})
<1> DEFINE T == {<<l, leases[l]>> : l \in X}
           g == [l \in X |-> <<l, leases[l]>>]
<1>1. g \in Surjection(X, T)
  <2>1. g \in [X -> T] /\ \A t \in T : \E l \in X : g[l] = t
    OBVIOUS
  <2> HIDE DEF g, T
  <2> QED BY <2>1, Fun_IsSurj
<1> HIDE DEF g
<1> QED BY <1>1, FS_Surjection

(* Before the leases are read, the page of a lease, a cluster or a job shows *)
(* nothing that depends on them.                                             *)
LEMMA NoLeasesYet ==
  ASSUME Inv, page.leases = {}
  PROVE  /\ PoolsNamed = {} /\ JobsNamed = {}
         /\ page.kind \in {"lease", "cluster", "prow"} => page.pools = {}
         /\ page.kind \in {"lease", "cluster"} => page.jobs = {}
         /\ page.kind \in {"lease", "prow"} =>
              \A v \in Servers \X Names : page.rows[v] = 0
<1>1. PoolsNamed = {} /\ JobsNamed = {}
  BY DEF PoolsNamed, JobsNamed
<1>2. page.kind \in {"lease", "prow"} => NamespacesShown = {}
  BY DEF NamespacesShown
<1>3. page.kind \in {"lease", "prow"} => VMsShown = {}
  BY <1>2 DEF Inv, RelatedInv, VMsRelated, Lists
<1>4. page.rows \in [Servers \X Names -> Nat]
  BY DEF Inv, TypeOK, Pages
<1>5. page.kind \in {"lease", "prow"} => \A v \in Servers \X Names : page.rows[v] = 0
  BY <1>3, <1>4 DEF VMsShown
<1> QED BY <1>1, <1>5 DEF Inv, RelatedInv, PoolsRelated, JobsRelated, Lists

LEMMA AskLeasesOnKeeps ==
  ASSUME Inv, AskLeasesOn
  PROVE  Inv'
<1> DEFINE p == todo[1].key
           on == {l \in Existing(leases) : p \in leases[l].pools}
           found == {<<l, leases[l]>> : l \in on}
           show == [page EXCEPT !.leases = found]
<1>1. page.status = "reading" /\ todo[1].what = "leasesOn"
  BY DEF AskLeasesOn, Asks
<1>2. /\ Sensible(todo[1]) /\ todo[1] \in Todo
      /\ \A q \in Rest : MayFollow(page.kind, "leasesOn", q.what)
  BY <1>1, HeadFacts
<1>3. page.kind = "pool" /\ p = page.key
  BY <1>1, <1>2 DEF Sensible
<1>4. Rest = {}
  BY <1>2, <1>3 DEF MayFollow
<1>5. page.leases = {}
  BY <1>1, <1>2 DEF Inv, QueriesInv, Pending
<1>6. page \in Pages /\ leases \in [Leases -> Contents \cup {None}]
  BY DEF Inv, TypeOK
<1>7. Continue(show, <<>>)
  BY DEF AskLeasesOn
<1>8. show \in Pages /\ show.kind = page.kind /\ show.key = page.key
      /\ show.leases = found /\ show.pools = page.pools
      /\ show.jobs = page.jobs /\ show.rows = page.rows
  <2>1. found \in SUBSET (Leases \X Contents)
    BY <1>6 DEF Existing
  <2> HIDE DEF found
  <2> QED BY <1>6, <2>1 DEF Pages
<1>9. Moves({}) /\ page'.leases = found /\ page'.pools = page.pools
      /\ page'.jobs = page.jobs /\ page'.rows = page.rows
  <2> HIDE DEF show, found
  <2> QED BY <1>1, <1>7, <1>8, NoMore
<1>10. Todo' = {} /\ page'.kind = page.kind /\ page'.key = page.key /\ kept' = kept
  BY <1>4, <1>9 DEF Moves
<1>11. LeasesFound'
  <2>1. LeasesExpected' = {f \in kept.leases : p \in f[2].pools}
    BY <1>3, <1>10 DEF LeasesExpected
  <2>2. kept.leases \subseteq {<<l, leases[l]>> : l \in Existing(leases)}
    BY DEF Inv, KeptInv, Facts
  <2> QED BY <1>9, <2>1, <2>2 DEF LeasesFound
<1>12. LeaseOfCluster'
  BY <1>3, <1>10 DEF LeaseOfCluster
<1>13. IsFiniteSet(found)
  <2>1. IsFiniteSet(on)
    BY FS_Subset DEF Inv, FiniteInv
  <2> HIDE DEF on
  <2> QED BY <2>1, PairsFinite
<1>14. (Pending({"lease", "leaseIn", "leasesFor", "leasesOn"}) => page.leases = {})'
  BY <1>10 DEF Pending
<1> HIDE DEF found, on, p, show
<1>15. /\ page.kind \in Unrelated
       /\ page.leases \subseteq page'.leases
  BY <1>3, <1>5 DEF Unrelated
<1> QED BY <1>1, <1>3, <1>4, <1>9, <1>11, <1>12, <1>13, <1>14, <1>15, KeepsPools,
           KeepsVMs, KeepsJobs, Answered DEF RelatedInv

LEMMA AskLeasesKeeps ==
  ASSUME Inv, AskLeases
  PROVE  Inv'
<1> DEFINE show == [page EXCEPT !.leases = Facts.leases]
<1>1. page.status = "reading" /\ todo[1].what = "allLeases"
  BY DEF AskLeases, Asks
<1>2. /\ Sensible(todo[1])
      /\ \A q \in Rest : MayFollow(page.kind, "allLeases", q.what)
  BY <1>1, HeadFacts
<1>3. page.kind \in {"pools", "leases", "jobs"}
  BY <1>1, <1>2 DEF Sensible
<1>4. Rest = {}
  BY <1>2, <1>3 DEF MayFollow
<1>5. page \in Pages /\ leases \in [Leases -> Contents \cup {None}]
  BY DEF Inv, TypeOK
<1>6. Facts.leases = {<<l, leases[l]>> : l \in Existing(leases)}
  BY DEF Facts
<1>7. Continue(show, <<>>)
  BY DEF AskLeases
<1>8. show \in Pages /\ show.kind = page.kind /\ show.key = page.key
      /\ show.leases = Facts.leases /\ show.pools = page.pools
      /\ show.jobs = page.jobs /\ show.rows = page.rows
  <2>1. Facts.leases \in SUBSET (Leases \X Contents)
    BY <1>5, <1>6 DEF Existing
  <2> QED BY <1>5, <2>1 DEF Pages
<1>9. Moves({}) /\ page'.leases = Facts.leases /\ page'.pools = page.pools
      /\ page'.jobs = page.jobs /\ page'.rows = page.rows
  <2> HIDE DEF show
  <2> QED BY <1>1, <1>7, <1>8, NoMore
<1>10. Todo' = {} /\ page'.kind = page.kind /\ page'.key = page.key /\ kept' = kept
  BY <1>4, <1>9 DEF Moves
<1>11. LeasesFound'
  <2>1. LeasesExpected' \subseteq kept.leases
    BY <1>10 DEF LeasesExpected
  <2> QED BY <1>9, <2>1 DEF LeasesFound, Inv, KeptInv
<1>12. LeaseOfCluster'
  BY <1>3, <1>10 DEF LeaseOfCluster
<1>13. IsFiniteSet(Facts.leases)
  BY <1>6, PairsFinite DEF Inv, FiniteInv
<1>14. (Pending({"lease", "leaseIn", "leasesFor", "leasesOn"}) => page.leases = {})'
  BY <1>10 DEF Pending
<1>15. page.kind \in Unrelated
  BY <1>3 DEF Unrelated, Lists
<1> HIDE DEF show
<1> QED BY <1>1, <1>3, <1>4, <1>9, <1>11, <1>12, <1>13, <1>14, <1>15, KeepsPools,
           KeepsVMs, KeepsJobs, Answered DEF RelatedInv

(* The lease is read; its pools, VMs and job are to be asked for.            *)
LEMMA AskLeaseKeeps ==
  ASSUME Inv, AskLease
  PROVE  Inv'
<1> DEFINE l == todo[1].key
           c == leases[l]
           f == <<l, c>>
           show == [page EXCEPT !.leases = {f}]
           more == PoolsOf(c) \o VMsOf(c) \o JobOf(c)
           P == IF c.pools = {} THEN {} ELSE {Query("pools", c.pools)}
           V == IF c.ns \in {None, <<>>} THEN {} ELSE {Query("vms", c.ns)}
           J == IF c.job = None THEN {} ELSE {Query("job", c.job)}
           M == P \cup V \cup J
<1>1. page.status = "reading" /\ todo[1].what = "lease"
  BY DEF AskLease, Asks
<1>2. /\ Sensible(todo[1]) /\ todo[1] \in Todo
      /\ \A q \in Rest : MayFollow(page.kind, "lease", q.what)
  BY <1>1, HeadFacts
<1>3. page.kind = "lease" /\ l = page.key /\ l \in Leases
  BY <1>1, <1>2 DEF Sensible, Inv, RequestInv
<1>4. Rest = {}
  BY <1>2, <1>3 DEF MayFollow
<1>5. page.leases = {}
  BY <1>1, <1>2 DEF Inv, QueriesInv, Pending
<1>6. page \in Pages /\ c \in Contents \cup {None}
  BY <1>3 DEF Inv, TypeOK
<1>7. \A g \in kept.leases : g[2] = leases[g[1]] /\ g = <<g[1], g[2]>> /\ g[2] # None
  BY DEF Inv, KeptInv, Facts, Existing
<1>8. CASE c = None
  <2>1. NotFound
    BY <1>8 DEF AskLease
  <2>2. page'.kind = "lease" /\ page'.key = l /\ kept' = kept
    BY <1>3, <1>6, <2>1 DEF NotFound, Pages
  <2>3. NotFoundIsTrue'
    BY <1>7, <1>8, <2>2 DEF NotFoundIsTrue
  <2> QED BY <1>1, <2>1, <2>3, GivenUp
<1>9. CASE c # None
  <2>1. Continue(show, more)
    BY <1>9 DEF AskLease
  <2>2. c \in Contents /\ f \in Leases \X Contents
    BY <1>3, <1>6, <1>9
  <2>3. show \in Pages /\ show.kind = page.kind /\ show.key = page.key
        /\ show.leases = {f} /\ show.pools = page.pools
        /\ show.jobs = page.jobs /\ show.rows = page.rows
    <3> HIDE DEF f
    <3> QED BY <1>6, <2>2 DEF Pages
  <2>4. /\ PoolsOf(c) \in Seq(Queries) /\ VMsOf(c) \in Seq(Queries)
        /\ JobOf(c) \in Seq(Queries) /\ InOrder("lease", JobOf(c))
        /\ InOrder("lease", PoolsOf(c)) /\ InOrder("lease", VMsOf(c))
        /\ Range(PoolsOf(c)) = P /\ Range(VMsOf(c)) = V /\ Range(JobOf(c)) = J
    <3> HIDE DEF c
    <3> QED BY <2>2, MoreQueries
  <2>5. /\ \A q \in V : q.what = "vms" /\ q.key = c.ns /\ c.ns \notin {None, <<>>}
        /\ \A q \in P : q.what = "pools" /\ q.key = c.pools /\ c.pools # {}
        /\ \A q \in J : q.what = "job" /\ q.key = c.job /\ c.job # None
    BY DEF Query
  <2> DEFINE pv == PoolsOf(c) \o VMsOf(c)
  <2>6. pv \in Seq(Queries) /\ InOrder("lease", pv) /\ Range(pv) = P \cup V
    <3>1. \A a \in P, b \in V : MayFollow("lease", a.what, b.what)
      BY <2>5 DEF MayFollow
    <3> HIDE DEF V, P, c
    <3> QED BY <2>4, <3>1, Concat, ConcatOrder
  <2>7. more \in Seq(Queries) /\ InOrder("lease", more) /\ Range(more) = M
    <3>1. \A a \in P \cup V, b \in J : MayFollow("lease", a.what, b.what)
      BY <2>5 DEF MayFollow
    <3>2. more = pv \o JobOf(c)
      OBVIOUS
    <3> HIDE DEF pv, V, P, J, c, more
    <3> QED BY <2>4, <2>6, <3>1, <3>2, Concat, ConcatOrder
  <2> HIDE DEF more, pv, show
  <2>8. /\ Moves(M) /\ page'.leases = {f} /\ page'.pools = page.pools
        /\ page'.jobs = page.jobs /\ page'.rows = page.rows
    <3> HIDE DEF M, f
    <3> QED BY <1>1, <1>3, <1>4, <2>1, <2>3, <2>7, Continued
  <2>9. Todo' = M /\ page'.kind = "lease" /\ page'.key = l /\ kept' = kept
    BY <1>3, <1>4, <2>8 DEF Moves
  <2>10. /\ NamespacesShown' = {c.ns} \ {None}
         /\ PoolsNamed' = c.pools /\ JobsNamed' = {c.job}
    <3>1. page'.leases = {f} /\ f[2] = c
      BY <2>8
    <3> HIDE DEF f, c
    <3> QED BY <2>9, <3>1 DEF NamespacesShown, PoolsNamed, JobsNamed
  <2>11. /\ page.pools = {} /\ page.jobs = {}
         /\ \A v \in Servers \X Names : page.rows[v] = 0
    BY <1>3, <1>5, NoLeasesYet
  <2>12. \A q \in M \cup Rest : Sensible(q)'
    <3>1. \A q \in V : Sensible(q)'
      BY <2>5, <2>10 DEF Sensible
    <3>2. \A q \in P : Sensible(q)'
      BY <2>5, <2>9, <2>10 DEF Sensible
    <3>3. \A q \in J : Sensible(q)'
      BY <2>5, <2>9, <2>10 DEF Sensible
    <3> QED BY <1>4, <3>1, <3>2, <3>3
  <2>13. \A q \in M : q.what \in {"vms", "pools", "job"}
    BY <2>5
  <2>14. (Pending({"lease", "leaseIn", "leasesFor", "leasesOn"}) => page.leases = {})'
    <3> HIDE DEF M
    <3> QED BY <2>9, <2>13 DEF Pending
  <2>15. VMsShown' = {}
    BY <1>6, <2>8, <2>11 DEF VMsShown, Pages
  <2>16. RelatedInv'
    BY <2>8, <2>11, <2>15 DEF RelatedInv, VMsRelated, PoolsRelated, JobsRelated
  <2>17. LeasesFound' /\ LeaseOfCluster'
    <3>1. LeasesExpected' \subseteq {f}
      BY <1>7, <2>9 DEF LeasesExpected
    <3> HIDE DEF f
    <3> QED BY <2>8, <2>9, <3>1 DEF LeasesFound, LeaseOfCluster
  <2>18. PoolsFound'
    <3>1. ASSUME NEW p \in c.pools PROVE \E q \in M : Reads(q, p)
      <4>1. Query("pools", c.pools) \in M
        BY <3>1
      <4> QED BY <4>1, <3>1 DEF Reads, Query
    <3> HIDE DEF M, c
    <3> QED BY <2>8, <2>9, <2>10, <2>11, <3>1 DEF PoolsFound, Reads
  <2>19. VMsFound'
    <3>1. ASSUME NEW v, BelongsTo(v[2], c.ns), c.ns # None
          PROVE  \E q \in M : Shows(q, v)
      <4>1. c.ns # <<>>
        BY <3>1 DEF BelongsTo
      <4>2. Query("vms", c.ns) \in M
        BY <3>1, <4>1
      <4> QED BY <3>1, <4>2 DEF Shows, Query
    <3> HIDE DEF M, c
    <3> QED BY <2>9, <2>10, <3>1 DEF VMsFound, Shows
  <2>20. JobsFound'
    <3>1. kept.jobs \subseteq Jobs /\ None \notin Jobs
      BY DetailsAssumption DEF Inv, KeptInv, Facts, TypeOK
    <3>2. ASSUME NEW j \in kept.jobs, j = c.job
          PROVE  \E q \in M : q.what = "job" /\ q.key = j
      <4>1. Query("job", c.job) \in M
        BY <3>1, <3>2
      <4> QED BY <3>2, <4>1 DEF Query
    <3> HIDE DEF M, c
    <3> QED BY <2>9, <2>10, <3>2 DEF JobsFound
  <2>21. RowsInv'
    BY <2>8, <2>9, <2>11 DEF RowsInv
  <2>22. IsFiniteSet(page'.leases)
    <3> HIDE DEF f
    <3> QED BY <2>8, FS_Singleton
  <2> HIDE DEF M
  <2> QED BY <1>3, <2>8, <2>12, <2>14, <2>16, <2>17, <2>18, <2>19, <2>20, <2>21,
             <2>22, Answered
<1> QED BY <1>8, <1>9

(* The cluster page shows a lease of its namespace, if there is one.         *)
LEMMA AskLeaseInKeeps ==
  ASSUME Inv, AskLeaseIn
  PROVE  Inv'
<1> DEFINE ns == todo[1].key
<1>1. page.status = "reading" /\ todo[1].what = "leaseIn"
  BY DEF AskLeaseIn, Asks
<1>2. /\ Sensible(todo[1]) /\ todo[1] \in Todo /\ Todo = {todo[1]} \cup Rest
      /\ \A q \in Rest : MayFollow(page.kind, "leaseIn", q.what)
  BY <1>1, HeadFacts
<1>3. page.kind = "cluster" /\ ns = page.key
  BY <1>1, <1>2 DEF Sensible
<1>4. Rest = {}
  BY <1>2, <1>3 DEF MayFollow
<1>5. page.leases = {}
  BY <1>1, <1>2 DEF Inv, QueriesInv, Pending
<1>6. page \in Pages /\ leases \in [Leases -> Contents \cup {None}]
  BY DEF Inv, TypeOK
<1>7. page.pools = {} /\ page.jobs = {}
  BY <1>3, <1>5, NoLeasesYet
<1>8. \A v : ~Shows(todo[1], v)
  BY <1>1 DEF Shows
<1>9. \A v \in kept.vms : BelongsTo(v[2], ns) => v \in VMsShown
  <2>1. VMsFound /\ ns \in NamespacesShown
    BY <1>1, <1>3 DEF Inv, FoundInv, NamespacesShown
  <2> QED BY <1>2, <1>4, <1>8, <2>1 DEF VMsFound
<1>10. \A g \in kept.leases : /\ g[1] \in Existing(leases)
                              /\ g[2] = leases[g[1]] /\ g = <<g[1], g[2]>>
  BY DEF Inv, KeptInv, Facts
<1>11. PICK l \in GetLeaseByNamespace(ns) :
         IF l # None
         THEN Continue([page EXCEPT !.leases = {<<l, leases[l]>>}],
                       PoolsOf(leases[l]) \o JobOf(leases[l]))
         ELSE IF \A v \in DOMAIN page.rows : page.rows[v] = 0 THEN NotFound
         ELSE Continue(page, <<>>)
  BY DEF AskLeaseIn
<1>12. CASE l = None
  <2>1. {k \in Existing(leases) : leases[k].ns = ns} = {}
    <3>1. None \notin Leases
      BY DetailsAssumption
    <3> QED BY <1>6, <1>11, <1>12, <3>1 DEF GetLeaseByNamespace, Existing
  <2>2. \A g \in kept.leases : g[2].ns # ns
    BY <1>10, <2>1
  <2>3. CASE \A v \in DOMAIN page.rows : page.rows[v] = 0
    <3>1. NotFound
      BY <1>11, <1>12, <2>3
    <3>2. page'.kind = "cluster" /\ page'.key = ns /\ kept' = kept
      BY <1>3, <1>6, <3>1 DEF NotFound, Pages
    <3>3. \A v \in kept.vms : ~BelongsTo(v[2], ns)
      BY <1>9, <2>3 DEF VMsShown
    <3>4. NotFoundIsTrue'
      BY <2>2, <3>2, <3>3 DEF NotFoundIsTrue
    <3> QED BY <1>1, <3>1, <3>4, GivenUp
  <2>4. CASE ~(\A v \in DOMAIN page.rows : page.rows[v] = 0)
    <3>1. Continue(page, <<>>)
      BY <1>11, <1>12, <2>4
    <3>2. /\ Moves({}) /\ page'.leases = page.leases /\ page'.pools = page.pools
          /\ page'.jobs = page.jobs /\ page'.rows = page.rows
      BY <1>1, <1>6, <3>1, NoMore
    <3>3. Todo' = {} /\ page'.kind = "cluster" /\ page'.key = ns /\ kept' = kept
      BY <1>3, <1>4, <3>2 DEF Moves
    <3>4. LeasesFound' /\ LeaseOfCluster'
      BY <2>2, <3>3 DEF LeasesFound, LeasesExpected, LeaseOfCluster
    <3>5. (Pending({"lease", "leaseIn", "leasesFor", "leasesOn"}) => page.leases = {})'
      BY <3>3 DEF Pending
    <3>6. IsFiniteSet(page'.leases)
      BY <3>2 DEF Inv, FiniteInv
    <3> QED BY <1>1, <1>3, <1>4, <3>2, <3>4, <3>5, <3>6, KeepsPools, KeepsVMs,
               KeepsJobs, Answered DEF RelatedInv
  <2> QED BY <2>3, <2>4
<1>13. CASE l # None
  <2> DEFINE c == leases[l]
             f == <<l, c>>
             show == [page EXCEPT !.leases = {f}]
             P == IF c.pools = {} THEN {} ELSE {Query("pools", c.pools)}
             J == IF c.job = None THEN {} ELSE {Query("job", c.job)}
             M == P \cup J
             more == PoolsOf(c) \o JobOf(c)
  <2>1. l \in Leases /\ c # None /\ c.ns = ns
    <3>1. l \in {k \in Existing(leases) : leases[k].ns = ns}
      BY <1>11, <1>13 DEF GetLeaseByNamespace
    <3> QED BY <1>6, <3>1 DEF Existing
  <2>2. c \in Contents /\ f \in Leases \X Contents
    BY <1>6, <2>1
  <2>3. Continue(show, more)
    BY <1>11, <1>13
  <2>4. show \in Pages /\ show.kind = page.kind /\ show.key = page.key
        /\ show.leases = {f} /\ show.pools = page.pools
        /\ show.jobs = page.jobs /\ show.rows = page.rows
    <3> HIDE DEF f
    <3> QED BY <1>6, <2>2 DEF Pages
  <2>5. /\ PoolsOf(c) \in Seq(Queries) /\ JobOf(c) \in Seq(Queries)
        /\ InOrder("cluster", JobOf(c)) /\ InOrder("cluster", PoolsOf(c))
        /\ Range(PoolsOf(c)) = P /\ Range(JobOf(c)) = J
    <3> HIDE DEF c
    <3> QED BY <2>2, MoreQueries
  <2>6. /\ \A q \in P : q.what = "pools" /\ q.key = c.pools /\ c.pools # {}
        /\ \A q \in J : q.what = "job" /\ q.key = c.job /\ c.job # None
    BY DEF Query
  <2>7. more \in Seq(Queries) /\ InOrder("cluster", more) /\ Range(more) = M
    <3>1. \A a \in P, b \in J : MayFollow("cluster", a.what, b.what)
      BY <2>6 DEF MayFollow
    <3> HIDE DEF P, J, c
    <3> QED BY <2>5, <3>1, Concat, ConcatOrder
  <2> HIDE DEF more, show
  <2>8. /\ Moves(M) /\ page'.leases = {f} /\ page'.pools = page.pools
        /\ page'.jobs = page.jobs /\ page'.rows = page.rows
    <3> HIDE DEF M, f
    <3> QED BY <1>1, <1>3, <1>4, <2>3, <2>4, <2>7, Continued
  <2>9. Todo' = M /\ page'.kind = "cluster" /\ page'.key = ns /\ kept' = kept
    BY <1>3, <1>4, <2>8 DEF Moves
  <2>10. PoolsNamed' = c.pools /\ JobsNamed' = {c.job}
    <3>1. page'.leases = {f} /\ f[2] = c
      BY <2>8
    <3> HIDE DEF f, c
    <3> QED BY <3>1 DEF PoolsNamed, JobsNamed
  <2>11. \A q \in M \cup Rest : Sensible(q)'
    <3>1. \A q \in P : Sensible(q)'
      BY <2>6, <2>9, <2>10 DEF Sensible
    <3>2. \A q \in J : Sensible(q)'
      BY <2>6, <2>9, <2>10 DEF Sensible
    <3> QED BY <1>4, <3>1, <3>2
  <2>12. \A q \in M : q.what \in {"pools", "job"}
    BY <2>6
  <2>13. (Pending({"lease", "leaseIn", "leasesFor", "leasesOn"}) => page.leases = {})'
    <3> HIDE DEF M
    <3> QED BY <2>9, <2>12 DEF Pending
  <2>14. PoolsRelated' /\ JobsRelated'
    BY <1>7, <2>8 DEF PoolsRelated, JobsRelated
  <2>15. LeasesFound' /\ LeaseOfCluster'
    <3>1. LeasesExpected' = {}
      BY <2>9 DEF LeasesExpected
    <3>2. f \in page'.leases /\ f[2].ns = ns
      BY <2>1, <2>8
    <3> QED BY <2>9, <3>1, <3>2 DEF LeasesFound, LeaseOfCluster
  <2>16. PoolsFound'
    <3>1. ASSUME NEW p \in c.pools PROVE \E q \in M : Reads(q, p)
      <4>1. Query("pools", c.pools) \in M
        BY <3>1
      <4> QED BY <4>1, <3>1 DEF Reads, Query
    <3> HIDE DEF M, c
    <3> QED BY <1>7, <2>8, <2>9, <2>10, <3>1 DEF PoolsFound, Reads
  <2>17. JobsFound'
    <3>1. kept.jobs \subseteq Jobs /\ None \notin Jobs
      BY DetailsAssumption DEF Inv, KeptInv, Facts, TypeOK
    <3>2. ASSUME NEW j \in kept.jobs, j = c.job
          PROVE  \E q \in M : q.what = "job" /\ q.key = j
      <4>1. Query("job", c.job) \in M
        BY <3>1, <3>2
      <4> QED BY <3>2, <4>1 DEF Query
    <3> HIDE DEF M, c
    <3> QED BY <2>9, <2>10, <3>2 DEF JobsFound
  <2>18. IsFiniteSet(page'.leases)
    <3> HIDE DEF f
    <3> QED BY <2>8, FS_Singleton
  <2>19. VMsRelated' /\ VMsFound' /\ RowsInv'
    <3> HIDE DEF M
    <3> QED BY <1>1, <1>3, <2>8, <2>12, KeepsVMs
  <2> HIDE DEF M
  <2> QED BY <1>3, <2>8, <2>11, <2>13, <2>14, <2>15, <2>16, <2>17, <2>18, <2>19,
             Answered DEF RelatedInv
<1> QED BY <1>12, <1>13

(* The leases of a job are read, and are then gone through one by one.       *)
LEMMA AskLeasesForKeeps ==
  ASSUME Inv, AskLeasesFor
  PROVE  Inv'
<1> DEFINE j == todo[1].key
           named == GetLeasesByJobName(j)
           found == {<<l, leases[l]>> : l \in named}
           show == [page EXCEPT !.leases = found]
           M == IF found = {} THEN {} ELSE {Query("each", found)}
<1>1. page.status = "reading" /\ todo[1].what = "leasesFor"
  BY DEF AskLeasesFor, Asks
<1>2. /\ Sensible(todo[1]) /\ todo[1] \in Todo
      /\ \A q \in Rest : MayFollow(page.kind, "leasesFor", q.what)
  BY <1>1, HeadFacts
<1>3. page.kind = "prow" /\ j = page.key
  BY <1>1, <1>2 DEF Sensible
<1>4. Rest = {}
  BY <1>2, <1>3 DEF MayFollow
<1>5. page.leases = {}
  BY <1>1, <1>2 DEF Inv, QueriesInv, Pending
<1>6. page \in Pages /\ leases \in [Leases -> Contents \cup {None}]
  BY DEF Inv, TypeOK
<1>7. Continue(show, LeasesLeft(found))
  BY DEF AskLeasesFor
<1>8. named = {l \in Existing(leases) : leases[l].job = j}
  BY DEF GetLeasesByJobName
<1>9. found \in SUBSET (Leases \X Contents) /\ IsFiniteSet(found)
  <2>1. found \in SUBSET (Leases \X Contents)
    BY <1>6, <1>8 DEF Existing
  <2>2. IsFiniteSet(named)
    BY <1>8, FS_Subset DEF Inv, FiniteInv
  <2> HIDE DEF named
  <2> QED BY <2>1, <2>2, PairsFinite
<1>10. LeasesExpected \subseteq found
  <2>1. LeasesExpected = {g \in kept.leases : g[2].job = j}
    BY <1>3 DEF LeasesExpected
  <2>2. kept.leases \subseteq {<<l, leases[l]>> : l \in Existing(leases)}
    BY DEF Inv, KeptInv, Facts
  <2> QED BY <1>8, <2>1, <2>2
<1> HIDE DEF found, named
<1>11. show \in Pages /\ show.kind = page.kind /\ show.key = page.key
       /\ show.leases = found /\ show.pools = page.pools
       /\ show.jobs = page.jobs /\ show.rows = page.rows
  BY <1>6, <1>9 DEF Pages
<1>12. /\ LeasesLeft(found) \in Seq(Queries) /\ InOrder("prow", LeasesLeft(found))
       /\ Range(LeasesLeft(found)) = M
  BY <1>9, LoopQueries
<1>13. \A q \in M : q.what = "each" /\ q.key = found /\ found # {}
  BY DEF Query
<1> HIDE DEF show
<1>14. /\ Moves(M) /\ page'.leases = found /\ page'.pools = page.pools
       /\ page'.jobs = page.jobs /\ page'.rows = page.rows
  <2> HIDE DEF M
  <2> QED BY <1>1, <1>3, <1>4, <1>7, <1>11, <1>12, Continued
<1>15. Todo' = M /\ page'.kind = "prow" /\ page'.key = j /\ kept' = kept
  BY <1>3, <1>4, <1>14 DEF Moves
<1>16. page.pools = {} /\ \A v \in Servers \X Names : page.rows[v] = 0
  BY <1>3, <1>5, NoLeasesYet
<1>17. \A q \in M \cup Rest : Sensible(q)'
  BY <1>4, <1>13, <1>14, <1>15 DEF Sensible
<1>18. (Pending({"lease", "leaseIn", "leasesFor", "leasesOn"}) => page.leases = {})'
  <2> HIDE DEF M
  <2> QED BY <1>13, <1>15 DEF Pending
<1>19. VMsShown' = {}
  BY <1>6, <1>14, <1>16 DEF VMsShown, Pages
<1>20. RelatedInv'
  BY <1>14, <1>15, <1>16, <1>19 DEF RelatedInv, VMsRelated, PoolsRelated, JobsRelated
<1>21. LeasesFound' /\ LeaseOfCluster' /\ JobsFound'
  <2>1. LeasesExpected' = LeasesExpected
    BY <1>3, <1>15 DEF LeasesExpected
  <2> QED BY <1>10, <1>14, <1>15, <2>1 DEF LeasesFound, LeaseOfCluster, JobsFound
<1>22. found # {} => Query("each", found) \in M
  OBVIOUS
<1>23. Query("each", found).what = "each" /\ Query("each", found).key = found
  BY DEF Query
<1>24. PoolsFound'
  <2>1. ASSUME NEW p \in PoolsNamed' PROVE \E q \in M : Reads(q, p)
    <3>1. PICK f \in found : p \in f[2].pools
      BY <1>14, <2>1 DEF PoolsNamed
    <3> QED BY <1>22, <1>23, <3>1 DEF Reads
  <2> HIDE DEF M
  <2> QED BY <1>14, <1>15, <1>16, <2>1 DEF PoolsFound, Reads
<1>25. VMsFound'
  <2>1. ASSUME NEW v, NEW ns \in NamespacesShown', BelongsTo(v[2], ns)
        PROVE \E q \in M : Shows(q, v)
    <3>1. PICK f \in found : f[2].ns = ns /\ ns # None
      BY <1>14, <1>15, <2>1 DEF NamespacesShown
    <3> QED BY <1>22, <1>23, <2>1, <3>1 DEF Shows
  <2> HIDE DEF M
  <2> QED BY <1>15, <2>1 DEF VMsFound, Shows
<1>26. RowsInv'
  <2>1. \A v : ~Asking(v)'
    <3> HIDE DEF M
    <3> QED BY <1>13, <1>15 DEF Asking
  <2>2. UNION {q.key : q \in {x \in M : x.what = "each"}} = found
    <3>1. CASE found = {}
      BY <3>1
    <3>2. CASE found # {}
      <4>1. {x \in M : x.what = "each"} = {Query("each", found)}
        BY <1>23, <3>2
      <4>2. {q.key : q \in {Query("each", found)}} = {found}
        BY <1>23
      <4> HIDE DEF M
      <4> QED BY <4>1, <4>2
    <3> QED BY <3>1, <3>2
  <2>3. Left' = found
    <3>1. Left' = UNION {q.key : q \in {x \in Todo' : x.what = "each"}}
      BY DEF Left
    <3> HIDE DEF M
    <3> QED BY <1>15, <2>2, <3>1
  <2>4. \A v : With(v, Left)' = With(v, found) /\ With(v, page.leases)' = With(v, found)
    BY <1>14, <2>3 DEF With
  <2>5. \A v : Cardinality(With(v, found)) \in Nat
    <3>1. \A v : With(v, found) \subseteq found
      BY DEF With
    <3> QED BY <1>9, <3>1, FS_Subset, FS_CardinalityType
  <2>6. \A v \in Servers \X Names :
          page'.rows[v] + (IF Asking(v)' THEN 1 ELSE 0) + Cardinality(With(v, Left)')
            <= Cardinality(With(v, page.leases)')
    BY <1>14, <1>16, <2>1, <2>4, <2>5
  <2> QED BY <1>15, <2>6 DEF RowsInv
<1> HIDE DEF M
<1> QED BY <1>3, <1>9, <1>14, <1>17, <1>18, <1>20, <1>21, <1>24, <1>25, <1>26,
           Answered

-----------------------------------------------------------------------------
(* The lists                                                                 *)

LEMMA AskPoolsKeeps ==
  ASSUME Inv, AskPools
  PROVE  Inv'
<1> DEFINE show == [page EXCEPT !.pools = Facts.pools]
<1>1. page.status = "reading" /\ todo[1].what = "allPools"
  BY DEF AskPools, Asks
<1>2. Sensible(todo[1])
  BY <1>1, HeadFacts
<1>3. page.kind = "pools"
  BY <1>1, <1>2 DEF Sensible
<1>4. page \in Pages /\ pools \in [Pools -> PoolSpecs \cup {None}]
  BY DEF Inv, TypeOK
<1>5. Facts.pools = {<<p, pools[p]>> : p \in Existing(pools)}
  BY DEF Facts
<1>6. Continue(show, <<>>)
  BY DEF AskPools
<1>7. show \in Pages /\ show.kind = page.kind /\ show.key = page.key
      /\ show.pools = Facts.pools /\ show.leases = page.leases
      /\ show.jobs = page.jobs /\ show.rows = page.rows
  <2>1. Facts.pools \in SUBSET (Pools \X PoolSpecs)
    BY <1>4, <1>5 DEF Existing
  <2> QED BY <1>4, <2>1 DEF Pages
<1> HIDE DEF show
<1>8. Moves({}) /\ page'.pools = Facts.pools /\ page'.leases = page.leases
      /\ page'.jobs = page.jobs /\ page'.rows = page.rows
  BY <1>1, <1>6, <1>7, NoMore
<1>9. page'.kind = "pools" /\ kept' = kept
  BY <1>3, <1>8 DEF Moves
<1>10. PoolsRelated'
  BY <1>9 DEF PoolsRelated, Lists
<1>11. PoolsFound'
  <2>1. kept.pools \subseteq Facts.pools
    BY DEF Inv, KeptInv
  <2>2. \A f \in Facts.pools, g \in kept.pools : f[1] = g[1] => f = g
    BY <1>5, <2>1
  <2> QED BY <1>8, <1>9, <2>1, <2>2 DEF PoolsFound
<1>12. \A q \in Rest : Sensible(q)'
  BY <1>8, SameLeases DEF Moves
<1> QED BY <1>1, <1>3, <1>8, <1>10, <1>11, <1>12, KeepsLeases, KeepsVMs, KeepsJobs,
           Answered DEF RelatedInv

LEMMA AskJobsKeeps ==
  ASSUME Inv, AskJobs
  PROVE  Inv'
<1> DEFINE show == [page EXCEPT !.jobs = jobs]
<1>1. page.status = "reading" /\ todo[1].what = "allJobs"
  BY DEF AskJobs, Asks
<1>2. Sensible(todo[1])
  BY <1>1, HeadFacts
<1>3. page.kind = "jobs"
  BY <1>1, <1>2 DEF Sensible
<1>4. page \in Pages /\ jobs \subseteq Jobs
  BY DEF Inv, TypeOK
<1>5. Continue(show, <<>>)
  BY DEF AskJobs
<1>6. show \in Pages /\ show.kind = page.kind /\ show.key = page.key
      /\ show.pools = page.pools /\ show.leases = page.leases
      /\ show.jobs = jobs /\ show.rows = page.rows
  BY <1>4 DEF Pages
<1> HIDE DEF show
<1>7. Moves({}) /\ page'.pools = page.pools /\ page'.leases = page.leases
      /\ page'.jobs = jobs /\ page'.rows = page.rows
  BY <1>1, <1>5, <1>6, NoMore
<1>8. page'.kind = "jobs" /\ kept' = kept
  BY <1>3, <1>7 DEF Moves
<1>9. JobsRelated' /\ JobsFound'
  BY <1>7, <1>8 DEF JobsRelated, JobsFound, Lists, Inv, KeptInv, Facts
<1>10. \A q \in Rest : Sensible(q)'
  BY <1>7, SameLeases DEF Moves
<1> QED BY <1>1, <1>3, <1>7, <1>9, <1>10, KeepsLeases, KeepsVMs, KeepsPools,
           Answered DEF RelatedInv

LEMMA AskAllVMsKeeps ==
  ASSUME Inv, AskAllVMs
  PROVE  Inv'
<1> DEFINE all == [v \in DOMAIN page.rows |-> IF v \in Facts.vms THEN 1 ELSE 0]
           show == [page EXCEPT !.rows = all]
<1>1. page.status = "reading" /\ todo[1].what = "allVMs"
  BY DEF AskAllVMs, Asks
<1>2. Sensible(todo[1]) /\ \A q \in Rest : MayFollow(page.kind, "allVMs", q.what)
  BY <1>1, HeadFacts
<1>3. page.kind = "vcenter"
  BY <1>1, <1>2 DEF Sensible
<1>4. Rest = {}
  BY <1>2, <1>3 DEF MayFollow
<1>5. page \in Pages /\ page.rows \in [Servers \X Names -> Nat]
  BY DEF Inv, TypeOK, Pages
<1>6. Continue(show, <<>>)
  BY DEF AskAllVMs
<1>7. all \in [Servers \X Names -> Nat]
      /\ \A v \in Servers \X Names : all[v] = IF v \in Facts.vms THEN 1 ELSE 0
  BY <1>5
<1> HIDE DEF all
<1>8. show \in Pages /\ show.kind = page.kind /\ show.key = page.key
      /\ show.pools = page.pools /\ show.leases = page.leases
      /\ show.jobs = page.jobs /\ show.rows = all
  BY <1>5, <1>7 DEF Pages
<1> HIDE DEF show
<1>9. Moves({}) /\ page'.pools = page.pools /\ page'.leases = page.leases
      /\ page'.jobs = page.jobs /\ page'.rows = all
  BY <1>1, <1>6, <1>8, NoMore
<1>10. Todo' = {} /\ page'.kind = "vcenter" /\ kept' = kept
  BY <1>3, <1>4, <1>9 DEF Moves
<1>11. VMsRelated'
  BY <1>10 DEF VMsRelated, Lists
<1>12. VMsFound'
  <2>1. NamespacesShown' = {}
    BY <1>10 DEF NamespacesShown
  <2>2. kept.vms \subseteq Facts.vms /\ Facts.vms \subseteq Servers \X Names
    BY DEF Inv, KeptInv, Facts
  <2>3. kept.vms \subseteq VMsShown'
    BY <1>7, <1>9, <2>2 DEF VMsShown
  <2> QED BY <1>10, <2>1, <2>3 DEF VMsFound
<1>13. RowsInv'
  <2>1. (~Pending({"vms"}))'
    BY <1>10 DEF Pending
  <2>2. \A v \in Servers \X Names : page'.rows[v] <= 1
    BY <1>7, <1>9
  <2> QED BY <1>10, <2>1, <2>2 DEF RowsInv
<1> QED BY <1>1, <1>3, <1>4, <1>9, <1>11, <1>12, <1>13, KeepsLeases, KeepsPools,
           KeepsJobs, Answered DEF RelatedInv

(* Sets that have no element in common.                                      *)
Parts(S, A, B, C) ==
  /\ A \subseteq S /\ B \subseteq S /\ C \subseteq S
  /\ A \cap B = {} /\ A \cap C = {} /\ B \cap C = {}

LEMMA ThreeParts ==
  ASSUME NEW S, NEW A, NEW B, NEW C, IsFiniteSet(S), Parts(S, A, B, C)
  PROVE  /\ Cardinality(S) \in Nat /\ Cardinality(A) \in Nat
         /\ Cardinality(B) \in Nat /\ Cardinality(C) \in Nat
         /\ Cardinality(A) + Cardinality(B) + Cardinality(C) <= Cardinality(S)
         /\ (A \cup B) \cup C = S =>
              Cardinality(A) + Cardinality(B) + Cardinality(C) = Cardinality(S)
<1> DEFINE D == A \cup B
<1>1. IsFiniteSet(A) /\ IsFiniteSet(B) /\ IsFiniteSet(C)
  BY FS_Subset DEF Parts
<1>2. /\ Cardinality(A) \in Nat /\ Cardinality(B) \in Nat
      /\ Cardinality(C) \in Nat /\ Cardinality(S) \in Nat
  BY <1>1, FS_CardinalityType
<1>3. Cardinality(A \cap B) = 0 /\ Cardinality(D \cap C) = 0
  <2>1. A \cap B = {} /\ D \cap C = {}
    BY DEF Parts
  <2> QED BY <2>1, FS_EmptySet
<1>4. IsFiniteSet(D)
      /\ Cardinality(D) = Cardinality(A) + Cardinality(B) - Cardinality(A \cap B)
  BY <1>1, FS_Union
<1>5. D \cup C \in SUBSET S
  BY DEF Parts
<1>6. (A \cup B) \cup C = D \cup C
  OBVIOUS
<1> HIDE DEF D
<1>7. Cardinality(D \cup C) = Cardinality(D) + Cardinality(C) - Cardinality(D \cap C)
  BY <1>1, <1>4, FS_Union
<1>8. Cardinality(D \cup C) <= Cardinality(S)
  BY <1>5, FS_Subset
<1>9. Cardinality(D \cup C) = Cardinality(A) + Cardinality(B) + Cardinality(C)
  BY <1>2, <1>3, <1>4, <1>7
<1> QED BY <1>2, <1>6, <1>8, <1>9

LEMMA OverviewCounts ==
  ASSUME Inv
  PROVE  GetOverview \in Counts /\ AddsUp(GetOverview)
<1> DEFINE P == Existing(pools)
           L == Existing(leases)
           E == {p \in P : pools[p].exclude}
           C == {p \in P : ~pools[p].exclude /\ pools[p].noSchedule}
           A == {p \in P : ~pools[p].exclude /\ ~pools[p].noSchedule}
           F == {l \in L : leases[l].phase = "Fulfilled"}
           N == {l \in L : leases[l].phase = "Pending"}
           X == {l \in L : leases[l].phase = "Failed"}
<1>1. IsFiniteSet(P) /\ IsFiniteSet(L)
  BY DEF Inv, FiniteInv
<1>2. Parts(P, A, E, C) /\ (A \cup E) \cup C = P
  BY DEF Parts
<1>3. Parts(L, F, N, X)
  BY DEF Parts
<1>4. GetOverview =
        [total |-> Cardinality(P), excluded |-> Cardinality(E),
         cordoned |-> Cardinality(C), active |-> Cardinality(A),
         leases |-> Cardinality(L), fulfilled |-> Cardinality(F),
         pending |-> Cardinality(N), failed |-> Cardinality(X)]
  BY DEF GetOverview
<1> HIDE DEF P, L, E, C, A, F, N, X
<1>5. /\ Cardinality(P) \in Nat /\ Cardinality(A) \in Nat
      /\ Cardinality(E) \in Nat /\ Cardinality(C) \in Nat
      /\ Cardinality(A) + Cardinality(E) + Cardinality(C) = Cardinality(P)
  BY <1>1, <1>2, ThreeParts
<1>6. /\ Cardinality(L) \in Nat /\ Cardinality(F) \in Nat
      /\ Cardinality(N) \in Nat /\ Cardinality(X) \in Nat
      /\ Cardinality(F) + Cardinality(N) + Cardinality(X) <= Cardinality(L)
  BY <1>1, <1>3, ThreeParts
<1> QED BY <1>4, <1>5, <1>6 DEF Counts, AddsUp

LEMMA AskOverviewKeeps ==
  ASSUME Inv, AskOverview
  PROVE  Inv'
<1> DEFINE show == [page EXCEPT !.counts = GetOverview]
<1>1. page.status = "reading" /\ todo[1].what = "overview"
  BY DEF AskOverview, Asks
<1>2. GetOverview \in Counts /\ AddsUp(GetOverview)
  BY OverviewCounts
<1>3. page \in Pages
  BY DEF Inv, TypeOK
<1>4. Continue(show, <<>>)
  BY DEF AskOverview
<1>5. show \in Pages /\ show.kind = page.kind /\ show.key = page.key
      /\ show.pools = page.pools /\ show.leases = page.leases
      /\ show.jobs = page.jobs /\ show.rows = page.rows
      /\ show.counts = GetOverview
  BY <1>2, <1>3 DEF Pages
<1> HIDE DEF show
<1>6. Moves({}) /\ page'.pools = page.pools /\ page'.leases = page.leases
      /\ page'.jobs = page.jobs /\ page'.rows = page.rows
      /\ page'.counts = GetOverview
  BY <1>1, <1>4, <1>5, NoMore
<1>7. \A q \in Rest : Sensible(q)'
  BY <1>6, SameLeases DEF Moves
<1>8. AddsUp(page'.counts)
  BY <1>2, <1>6
<1> QED BY <1>1, <1>6, <1>7, <1>8, KeepsLeases, KeepsVMs, KeepsPools, KeepsJobs,
           Answered DEF RelatedInv

-----------------------------------------------------------------------------
(* Requests begin and end                                                    *)

LEMMA BlankPage ==
  /\ Blank \in Pages /\ Blank.kind = None /\ Blank.key = None
  /\ Blank.status = "none" /\ Blank.leases = {} /\ Blank.pools = {}
  /\ Blank.jobs = {} /\ Blank.counts = None
  /\ \A v \in Servers \X Names : Blank.rows[v] = 0
<1>1. [v \in Servers \X Names |-> 0] \in [Servers \X Names -> Nat]
  OBVIOUS
<1> QED BY <1>1 DEF Blank, Pages

(* A page that shows nothing yet.                                            *)
Empty ==
  /\ page.leases = {} /\ page.pools = {} /\ page.jobs = {}
  /\ \A v \in Servers \X Names : page.rows[v] = 0

NothingCounted == page.kind = "prow" => ~Pending({"each", "vms"})

LEMMA EmptyPage ==
  (page \in Pages) /\ Empty /\ NothingCounted => RelatedInv /\ RowsInv
<1> SUFFICES ASSUME page \in Pages, Empty, NothingCounted
             PROVE  RelatedInv /\ RowsInv
  OBVIOUS
<1>1. VMsShown = {}
  BY DEF VMsShown, Empty, Pages
<1>2. RelatedInv
  BY <1>1 DEF Empty, RelatedInv, VMsRelated, PoolsRelated, JobsRelated
<1>3. ASSUME page.kind = "prow", NEW v \in Servers \X Names
      PROVE  page.rows[v] + (IF Asking(v) THEN 1 ELSE 0) + Cardinality(With(v, Left))
               <= Cardinality(With(v, page.leases))
  <2>1. {x \in Todo : x.what = "each"} = {}
    BY <1>3 DEF Pending, NothingCounted
  <2>2. Left = {}
    BY <2>1 DEF Left
  <2>3. With(v, Left) = {} /\ With(v, page.leases) = {}
    BY <2>2 DEF With, Empty
  <2>4. Cardinality({}) = 0
    BY FS_EmptySet
  <2>5. ~Asking(v)
    BY <1>3 DEF Pending, NothingCounted, Asking
  <2> QED BY <2>3, <2>4, <2>5 DEF Empty
<1>4. RowsInv
  BY <1>3 DEF RowsInv, Empty
<1> QED BY <1>2, <1>4

(* The queries a handler begins with ask for what belongs on its page.       *)
Covers(kind, key, Q) ==
  /\ kind \in {"lease", "pool", "prow", "pools", "leases", "jobs"} =>
       \E q \in Q : q.what \in {"lease", "leasesOn", "leasesFor", "allLeases"}
  /\ kind = "cluster" =>
       Query("vms", key) \in Q /\ \E q \in Q : q.what = "leaseIn"
  /\ kind = "pools" => \E q \in Q : q.what = "allPools"
  /\ kind = "jobs" => \E q \in Q : q.what = "allJobs"
  /\ kind = "vcenter" => \E q \in Q : q.what = "allVMs"
  /\ kind = "prow" => \A q \in Q : q.what \notin {"each", "vms"}

LEMMA Opened ==
  ASSUME Inv, NEW kind \in Kinds,
         NEW key \in Leases \cup Pools \cup Jobs \cup Namespaces \cup {None},
         kind = "lease" => key \in Leases, kind = "pool" => key \in Pools,
         kind = "cluster" => key \in Namespaces, kind = "prow" => key \in Jobs,
         NEW queries \in Seq(Queries), queries # <<>>, InOrder(kind, queries),
         Open(kind, key, queries), Covers(kind, key, Range(queries)),
         page'.kind = kind /\ page'.key = key =>
           \A q \in Range(queries) : Sensible(q)'
  PROVE  Inv'
<1> DEFINE Q == Range(queries)
<1>1. /\ page' = [Blank EXCEPT !.kind = kind, !.key = key, !.status = "reading"]
      /\ todo' = queries /\ kept' = Facts
      /\ UNCHANGED <<pools, leases, jobs, vms, changes>>
  BY DEF Open, storeVars
<1>2. /\ page' \in Pages /\ page'.kind = kind /\ page'.key = key
      /\ page'.status = "reading"
      /\ page'.leases = {} /\ page'.pools = {} /\ page'.jobs = {}
      /\ \A v \in Servers \X Names : page'.rows[v] = 0
  <2>1. /\ page' \in Pages /\ page'.kind = kind /\ page'.key = key
        /\ page'.status = "reading" /\ page'.leases = Blank.leases
        /\ page'.pools = Blank.pools /\ page'.jobs = Blank.jobs
        /\ page'.rows = Blank.rows
    BY <1>1, BlankPage DEF Pages
  <2> QED BY <2>1, BlankPage
<1>3. Todo' = Q
  BY <1>1 DEF Todo
<1>4. TypeOK'
  <2>1. \A i \in DOMAIN queries : queries[i] \in Queries
    OBVIOUS
  <2>2. \A i \in DOMAIN queries : queries[i].what \in Whats
    BY <2>1 DEF Queries
  <2> QED BY <1>1, <1>2, <2>2 DEF Inv, TypeOK
<1>5. RequestInv'
  BY <1>1, <1>2 DEF RequestInv
<1>6. QueriesInv'
  <2>1. (\A q \in Todo : Sensible(q))'
    BY <1>2, <1>3
  <2>2. InOrder(page.kind, todo)'
    BY <1>1, <1>2 DEF InOrder
  <2> QED BY <1>2, <2>1, <2>2 DEF QueriesInv
<1>7. KeptInv'
  BY <1>1 DEF KeptInv, Facts, Existing
<1>8. RelatedInv' /\ RowsInv'
  <2>1. Empty'
    BY <1>2 DEF Empty
  <2>2. NothingCounted'
    BY <1>2, <1>3 DEF Covers, Pending, NothingCounted
  <2>3. (page \in Pages)'
    BY <1>2
  <2> QED BY <2>1, <2>2, <2>3, EmptyPage, PTL
<1>9. FoundInv'
  <2>1. PoolsNamed' = {} /\ JobsNamed' = {}
    BY <1>2 DEF PoolsNamed, JobsNamed
  <2>2. NamespacesShown' = IF kind = "cluster" THEN {key} ELSE {}
    BY <1>2 DEF NamespacesShown
  <2> HIDE DEF Q
  <2>3. LeasesFound'
    <3>1. LeasesExpected' = {} \/ kind \in {"lease", "pool", "prow", "pools", "leases", "jobs"}
      BY <1>2 DEF LeasesExpected
    <3> QED BY <1>3, <3>1 DEF LeasesFound, Pending, Covers, Q
  <2>4. LeaseOfCluster'
    BY <1>2, <1>3 DEF LeaseOfCluster, Pending, Covers, Q
  <2>5. PoolsFound'
    BY <1>2, <1>3, <2>1 DEF PoolsFound, Pending, Covers, Q
  <2>6. VMsFound'
    <3>1. ASSUME NEW v, NEW ns \in NamespacesShown', BelongsTo(v[2], ns)
          PROVE  \E q \in Q : Shows(q, v)
      <4>1. kind = "cluster" /\ ns = key
        BY <2>2, <3>1
      <4>2. Query("vms", key) \in Q
        BY <4>1 DEF Covers, Q
      <4> QED BY <3>1, <4>1, <4>2 DEF Shows, Query
    <3>2. (page.kind = "vcenter" => Pending({"allVMs"}))'
      BY <1>2, <1>3 DEF Pending, Covers, Q
    <3> QED BY <1>3, <3>1, <3>2 DEF VMsFound, Shows
  <2>7. JobsFound'
    BY <1>2, <1>3, <2>1 DEF JobsFound, Pending, Covers, Q
  <2> QED BY <2>3, <2>4, <2>5, <2>6, <2>7 DEF FoundInv
<1>10. FiniteInv'
  BY <1>1, <1>2, FS_EmptySet DEF Inv, FiniteInv, Existing
<1>11. CountsInv' /\ NotFoundIsTrue'
  BY <1>2 DEF CountsInv, NotFoundIsTrue
<1> QED BY <1>1, <1>4, <1>5, <1>6, <1>7, <1>8, <1>9, <1>10, <1>11 DEF Inv

LEMMA Two ==
  ASSUME NEW q \in Queries, NEW r \in Queries, NEW kind,
         MayFollow(kind, q.what, r.what)
  PROVE  /\ <<q, r>> \in Seq(Queries) /\ <<q, r>> # <<>>
         /\ Range(<<q, r>>) = {q, r}
         /\ InOrder(kind, <<q, r>>)
<1> DEFINE s == <<q, r>>
<1>1. DOMAIN s = 1..2 /\ s[1] = q /\ s[2] = r /\ s \in Seq(Queries) /\ s # <<>>
  OBVIOUS
<1> HIDE DEF s
<1>2. Range(s) = {q, r}
  BY <1>1 DEF Range
<1>3. \A i, k \in DOMAIN s : i < k => i = 1 /\ k = 2
  BY <1>1
<1>4. InOrder(kind, s)
  BY <1>1, <1>3 DEF InOrder
<1> QED BY <1>1, <1>2, <1>4 DEF s

(* The pages of one thing.                                                   *)
LEMMA DetailOpens ==
  ASSUME Inv,
         handleLeaseDetail \/ handlePoolDetail \/ handleClusterDetail
           \/ handleProwDetail
  PROVE  Inv'
<1> USE DEF Kinds
<1>1. CASE handleLeaseDetail
  <2>1. PICK l \in Leases : Open("lease", l, <<Query("lease", l)>>)
    BY <1>1 DEF handleLeaseDetail
  <2> DEFINE q == Query("lease", l)
  <2>2. q \in Queries /\ q.what = "lease" /\ q.key = l
    BY DEF Query, Queries, Whats, Keys
  <2> HIDE DEF q
  <2>3. <<q>> \in Seq(Queries) /\ <<q>> # <<>> /\ Range(<<q>>) = {q}
        /\ InOrder("lease", <<q>>)
    BY <2>2, One
  <2>4. Covers("lease", l, Range(<<q>>))
    BY <2>2, <2>3 DEF Covers
  <2>5. page'.kind = "lease" /\ page'.key = l => \A x \in Range(<<q>>) : Sensible(x)'
    BY <2>2, <2>3 DEF Sensible
  <2>6. Open("lease", l, <<q>>)
    BY <2>1 DEF q
  <2> QED BY <2>3, <2>4, <2>5, <2>6, Opened
<1>2. CASE handlePoolDetail
  <2>1. PICK p \in Pools : Open("pool", p, <<Query("pool", p), Query("leasesOn", p)>>)
    BY <1>2 DEF handlePoolDetail
  <2> DEFINE q == Query("pool", p)
             r == Query("leasesOn", p)
  <2>2. /\ q \in Queries /\ q.what = "pool" /\ q.key = p
        /\ r \in Queries /\ r.what = "leasesOn" /\ r.key = p
    BY DEF Query, Queries, Whats, Keys
  <2>3. Open("pool", p, <<q, r>>)
    BY <2>1
  <2> HIDE DEF q, r
  <2>4. MayFollow("pool", q.what, r.what)
    BY <2>2 DEF MayFollow
  <2>5. <<q, r>> \in Seq(Queries) /\ <<q, r>> # <<>> /\ Range(<<q, r>>) = {q, r}
        /\ InOrder("pool", <<q, r>>)
    BY <2>2, <2>4, Two
  <2>6. Covers("pool", p, Range(<<q, r>>))
    BY <2>2, <2>5 DEF Covers
  <2>7. page'.kind = "pool" /\ page'.key = p =>
          \A x \in Range(<<q, r>>) : Sensible(x)'
    BY <2>2, <2>5 DEF Sensible
  <2> QED BY <2>3, <2>5, <2>6, <2>7, Opened
<1>3. CASE handleClusterDetail
  <2>1. PICK ns \in Namespaces :
          Open("cluster", ns, <<Query("vms", ns), Query("leaseIn", ns)>>)
    BY <1>3 DEF handleClusterDetail
  <2> DEFINE q == Query("vms", ns)
             r == Query("leaseIn", ns)
  <2>2. /\ q \in Queries /\ q.what = "vms" /\ q.key = ns
        /\ r \in Queries /\ r.what = "leaseIn" /\ r.key = ns
    BY DetailsAssumption DEF Query, Queries, Whats, Keys
  <2>3. Open("cluster", ns, <<q, r>>) /\ q = Query("vms", ns)
    BY <2>1
  <2> HIDE DEF q, r
  <2>4. MayFollow("cluster", q.what, r.what)
    BY <2>2 DEF MayFollow
  <2>5. <<q, r>> \in Seq(Queries) /\ <<q, r>> # <<>> /\ Range(<<q, r>>) = {q, r}
        /\ InOrder("cluster", <<q, r>>)
    BY <2>2, <2>4, Two
  <2>6. Covers("cluster", ns, Range(<<q, r>>))
    BY <2>2, <2>3, <2>5 DEF Covers
  <2>7. ns # <<>>
    BY DetailsAssumption
  <2>8. page'.kind = "cluster" /\ page'.key = ns =>
          \A x \in Range(<<q, r>>) : Sensible(x)'
    BY <2>2, <2>5, <2>7 DEF Sensible, NamespacesShown
  <2> QED BY <2>3, <2>5, <2>6, <2>8, Opened
<1>4. CASE handleProwDetail
  <2>1. PICK j \in Jobs : Open("prow", j, <<Query("job", j), Query("leasesFor", j)>>)
    BY <1>4 DEF handleProwDetail
  <2> DEFINE q == Query("job", j)
             r == Query("leasesFor", j)
  <2>2. /\ q \in Queries /\ q.what = "job" /\ q.key = j
        /\ r \in Queries /\ r.what = "leasesFor" /\ r.key = j
    BY DEF Query, Queries, Whats, Keys
  <2>3. Open("prow", j, <<q, r>>)
    BY <2>1
  <2> HIDE DEF q, r
  <2>4. MayFollow("prow", q.what, r.what)
    BY <2>2 DEF MayFollow
  <2>5. <<q, r>> \in Seq(Queries) /\ <<q, r>> # <<>> /\ Range(<<q, r>>) = {q, r}
        /\ InOrder("prow", <<q, r>>)
    BY <2>2, <2>4, Two
  <2>6. Covers("prow", j, Range(<<q, r>>))
    BY <2>2, <2>5 DEF Covers
  <2>7. page'.kind = "prow" /\ page'.key = j =>
          \A x \in Range(<<q, r>>) : Sensible(x)'
    BY <2>2, <2>5 DEF Sensible
  <2> QED BY <2>3, <2>5, <2>6, <2>7, Opened
<1> QED BY <1>1, <1>2, <1>3, <1>4

(* The pages of a section: the queries, asked for with no key.               *)
ListQueries(whats) == [i \in DOMAIN whats |-> Query(whats[i], None)]

LEMMA ListInOrder ==
  ASSUME NEW whats \in Seq(Whats), whats # <<>>, NEW kind,
         \A i, k \in DOMAIN whats : i < k => MayFollow(kind, whats[i], whats[k])
  PROVE  /\ ListQueries(whats) \in Seq(Queries) /\ ListQueries(whats) # <<>>
         /\ InOrder(kind, ListQueries(whats))
         /\ \A q \in Range(ListQueries(whats)) :
              q.key = None /\ \E i \in DOMAIN whats : q.what = whats[i]
         /\ \A i \in DOMAIN whats :
              \E q \in Range(ListQueries(whats)) : q.what = whats[i]
<1> DEFINE s == ListQueries(whats)
<1>1. /\ DOMAIN s = DOMAIN whats
      /\ \A i \in DOMAIN whats :
           /\ s[i] = Query(whats[i], None)
           /\ s[i].what = whats[i] /\ s[i].key = None
  BY DEF ListQueries, Query
<1>2. \A w \in Whats : Query(w, None) \in Queries
  BY DEF Query, Queries, Keys
<1>3. s \in Seq(Queries) /\ s # <<>>
  BY <1>1, <1>2 DEF ListQueries
<1> HIDE DEF s
<1>4. InOrder(kind, s)
  BY <1>1 DEF InOrder
<1> QED BY <1>1, <1>3, <1>4 DEF Range, s

LEMMA ListOpens ==
  ASSUME Inv,
         handleOverview \/ handlePools \/ handleLeases \/ handleProw
           \/ handleVCenter
  PROVE  Inv'
<1> USE DEF Kinds, Lists
<1>1. ASSUME NEW kind \in Lists, NEW whats \in Seq(Whats), whats # <<>>,
             \A i, k \in DOMAIN whats : i < k => MayFollow(kind, whats[i], whats[k]),
             handleList(kind, whats),
             \A i \in DOMAIN whats :
               \/ kind = "overview" /\ whats[i] = "overview"
               \/ kind = "vcenter" /\ whats[i] = "allVMs"
               \/ kind = "pools" /\ whats[i] = "allPools"
               \/ kind = "jobs" /\ whats[i] = "allJobs"
               \/ kind \in {"pools", "leases", "jobs"} /\ whats[i] = "allLeases",
             kind = "vcenter" => \E i \in DOMAIN whats : whats[i] = "allVMs",
             kind = "pools" => \E i \in DOMAIN whats : whats[i] = "allPools",
             kind = "jobs" => \E i \in DOMAIN whats : whats[i] = "allJobs",
             kind \in {"pools", "leases", "jobs"} =>
               \E i \in DOMAIN whats : whats[i] = "allLeases"
      PROVE  Inv'
  <2> DEFINE s == ListQueries(whats)
  <2>1. Open(kind, None, s)
    BY <1>1 DEF handleList, ListQueries
  <2>2. s \in Seq(Queries) /\ s # <<>> /\ InOrder(kind, s)
        /\ (\A q \in Range(s) :
              q.key = None /\ \E i \in DOMAIN whats : q.what = whats[i])
        /\ (\A i \in DOMAIN whats : \E q \in Range(s) : q.what = whats[i])
    BY <1>1, ListInOrder
  <2> HIDE DEF s
  <2>3. Covers(kind, None, Range(s))
    BY <1>1, <2>2 DEF Covers
  <2>4. page'.kind = kind /\ page'.key = None => \A x \in Range(s) : Sensible(x)'
    <3>1. SUFFICES ASSUME page'.kind = kind, NEW x \in Range(s) PROVE Sensible(x)'
      OBVIOUS
    <3>2. PICK i \in DOMAIN whats : x.what = whats[i]
      BY <2>2
    <3> QED BY <1>1, <3>1, <3>2 DEF Sensible
  <2> QED BY <1>1, <2>1, <2>2, <2>3, <2>4, Opened
<1>2. CASE handleOverview
  <2> DEFINE w == <<"overview">>
  <2>1. /\ w \in Seq(Whats) /\ w # <<>> /\ DOMAIN w = {1} /\ w[1] = "overview"
        /\ handleList("overview", w)
    BY <1>2 DEF Whats, handleOverview
  <2> HIDE DEF w
  <2> QED BY <1>1, <2>1
<1>3. CASE handlePools
  <2> DEFINE w == <<"allPools", "allLeases">>
  <2>1. /\ w \in Seq(Whats) /\ w # <<>> /\ DOMAIN w = {1, 2}
        /\ w[1] = "allPools" /\ w[2] = "allLeases"
        /\ handleList("pools", w)
    BY <1>3 DEF Whats, handlePools
  <2>2. MayFollow("pools", "allPools", "allLeases")
    BY DEF MayFollow
  <2> HIDE DEF w
  <2> QED BY <1>1, <2>1, <2>2
<1>4. CASE handleLeases
  <2> DEFINE w == <<"allLeases">>
  <2>1. /\ w \in Seq(Whats) /\ w # <<>> /\ DOMAIN w = {1} /\ w[1] = "allLeases"
        /\ handleList("leases", w)
    BY <1>4 DEF Whats, handleLeases
  <2> HIDE DEF w
  <2> QED BY <1>1, <2>1
<1>5. CASE handleProw
  <2> DEFINE w == <<"allJobs", "allLeases">>
  <2>1. /\ w \in Seq(Whats) /\ w # <<>> /\ DOMAIN w = {1, 2}
        /\ w[1] = "allJobs" /\ w[2] = "allLeases"
        /\ handleList("jobs", w)
    BY <1>5 DEF Whats, handleProw
  <2>2. MayFollow("jobs", "allJobs", "allLeases")
    BY DEF MayFollow
  <2> HIDE DEF w
  <2> QED BY <1>1, <2>1, <2>2
<1>6. CASE handleVCenter
  <2> DEFINE w == <<"allVMs">>
  <2>1. /\ w \in Seq(Whats) /\ w # <<>> /\ DOMAIN w = {1} /\ w[1] = "allVMs"
        /\ handleList("vcenter", w)
    BY <1>6 DEF Whats, handleVCenter
  <2> HIDE DEF w
  <2> QED BY <1>1, <2>1
<1> QED BY <1>2, <1>3, <1>4, <1>5, <1>6

-----------------------------------------------------------------------------
(* The writers                                                               *)

(* What comes into the Store while a request is served was not there all the *)
(* time, and what goes from it is no longer.                                 *)
LEMMA WritesKeep ==
  ASSUME Inv, Write,
         pools' \in [Pools -> PoolSpecs \cup {None}],
         leases' \in [Leases -> Contents \cup {None}],
         jobs' \subseteq Jobs,
         vms' \in [Servers -> SUBSET Names],
         IsFiniteSet(Existing(pools')), IsFiniteSet(Existing(leases'))
  PROVE  Inv'
<1>1. /\ UNCHANGED <<page, todo>>
      /\ kept' = Both(kept, Facts')
      /\ changes' \in 0..MaxChanges
      /\ page.status \in {"none", "reading"}
  BY DetailsAssumption DEF Write, Inv, TypeOK
<1>2. /\ kept'.pools \subseteq kept.pools /\ kept'.pools \subseteq Facts'.pools
      /\ kept'.leases \subseteq kept.leases /\ kept'.leases \subseteq Facts'.leases
      /\ kept'.jobs \subseteq kept.jobs /\ kept'.jobs \subseteq Facts'.jobs
      /\ kept'.vms \subseteq kept.vms /\ kept'.vms \subseteq Facts'.vms
  <2>1. \A f, g : /\ Both(f, g).pools = f.pools \cap g.pools
                  /\ Both(f, g).leases = f.leases \cap g.leases
                  /\ Both(f, g).jobs = f.jobs \cap g.jobs
                  /\ Both(f, g).vms = f.vms \cap g.vms
    BY DEF Both
  <2> QED BY <1>1, <2>1
<1>3. /\ Todo' = Todo /\ NamespacesShown' = NamespacesShown
      /\ PoolsNamed' = PoolsNamed /\ JobsNamed' = JobsNamed
      /\ VMsShown' = VMsShown /\ Left' = Left
  BY <1>1 DEF Todo, NamespacesShown, PoolsNamed, JobsNamed, VMsShown, Left
<1>4. \A whats : Pending(whats)' <=> Pending(whats)
  BY <1>3 DEF Pending
<1>5. TypeOK' /\ (todo \in Seq(Queries))'
  BY <1>1 DEF Inv, TypeOK
<1>6. RequestInv'
  BY <1>1 DEF Inv, RequestInv
<1>7. QueriesInv'
  <2>1. \A q : Sensible(q)' <=> Sensible(q)
    BY <1>1, <1>3 DEF Sensible
  <2>2. InOrder(page.kind, todo)'
    BY <1>1 DEF Inv, QueriesInv, InOrder
  <2> QED BY <1>1, <1>3, <1>4, <2>1, <2>2 DEF Inv, QueriesInv
<1>8. KeptInv'
  BY <1>2 DEF KeptInv
<1>9. RelatedInv'
  BY <1>1, <1>3 DEF Inv, RelatedInv, VMsRelated, PoolsRelated, JobsRelated
<1>10. FoundInv'
  <2>1. SUFFICES ASSUME page.status = "reading"
                 PROVE  (LeasesFound /\ LeaseOfCluster /\ PoolsFound /\ VMsFound
                          /\ JobsFound)'
    BY <1>1 DEF FoundInv
  <2>2. LeasesFound /\ LeaseOfCluster /\ PoolsFound /\ VMsFound /\ JobsFound
    BY <2>1 DEF Inv, FoundInv
  <2>3. LeasesFound'
    <3>1. LeasesExpected' \subseteq LeasesExpected
      BY <1>1, <1>2 DEF LeasesExpected
    <3> QED BY <1>1, <1>4, <2>2, <3>1 DEF LeasesFound
  <2>4. LeaseOfCluster'
    BY <1>1, <1>2, <1>4, <2>2 DEF LeaseOfCluster
  <2>5. PoolsFound'
    BY <1>1, <1>2, <1>3, <1>4, <2>2 DEF PoolsFound, Reads
  <2>6. VMsFound'
    BY <1>1, <1>2, <1>3, <1>4, <2>2 DEF VMsFound, Shows
  <2>7. JobsFound'
    BY <1>1, <1>2, <1>3, <1>4, <2>2 DEF JobsFound
  <2> QED BY <2>3, <2>4, <2>5, <2>6, <2>7
<1>11. RowsInv'
  <2>1. \A v : Asking(v)' <=> Asking(v)
    BY <1>3 DEF Asking
  <2>2. \A v : With(v, Left)' = With(v, Left) /\ With(v, page.leases)' = With(v, page.leases)
    BY <1>1, <1>3 DEF With
  <2>3. RowsInv
    BY DEF Inv
  <2> QED BY <1>1, <1>4, <2>1, <2>2, <2>3 DEF RowsInv
<1>12. FiniteInv'
  BY <1>1 DEF Inv, FiniteInv
<1>13. CountsInv' /\ NotFoundIsTrue'
  BY <1>1 DEF CountsInv, NotFoundIsTrue
<1> QED BY <1>5, <1>6, <1>7, <1>8, <1>9, <1>10, <1>11, <1>12, <1>13 DEF Inv

LEMMA OneMore ==
  ASSUME NEW f, NEW x, NEW y, IsFiniteSet(Existing(f))
  PROVE  IsFiniteSet(Existing([f EXCEPT ![x] = y]))
<1>1. Existing([f EXCEPT ![x] = y]) \in SUBSET (Existing(f) \cup {x})
  BY DEF Existing
<1>2. IsFiniteSet(Existing(f) \cup {x})
  BY FS_AddElement
<1> QED BY <1>1, <1>2, FS_Subset

LEMMA WritersKeep ==
  ASSUME Inv, Writers
  PROVE  Inv'
<1>1. /\ TypeOK
      /\ IsFiniteSet(Existing(pools)) /\ IsFiniteSet(Existing(leases))
  BY DEF Inv, FiniteInv
<1>2. ASSUME NEW p \in Pools, NEW spec \in PoolSpecs \cup {None}, SetPool(p, spec)
      PROVE  Inv'
  <2>1. /\ Write /\ pools' = [pools EXCEPT ![p] = spec]
        /\ UNCHANGED <<leases, jobs, vms>>
    BY <1>2 DEF SetPool
  <2>2. pools' \in [Pools -> PoolSpecs \cup {None}]
    BY <1>1, <2>1 DEF TypeOK
  <2>3. IsFiniteSet(Existing(pools'))
    BY <1>1, <2>1, OneMore
  <2> QED BY <1>1, <2>1, <2>2, <2>3, WritesKeep DEF TypeOK
<1>3. ASSUME NEW l \in Leases, NEW c \in Contents \cup {None}, SetLease(l, c)
      PROVE  Inv'
  <2>1. /\ Write /\ leases' = [leases EXCEPT ![l] = c]
        /\ UNCHANGED <<pools, jobs, vms>>
    BY <1>3 DEF SetLease
  <2>2. leases' \in [Leases -> Contents \cup {None}]
    BY <1>1, <2>1 DEF TypeOK
  <2>3. IsFiniteSet(Existing(leases'))
    BY <1>1, <2>1, OneMore
  <2> QED BY <1>1, <2>1, <2>2, <2>3, WritesKeep DEF TypeOK
<1>4. ASSUME NEW new \in SUBSET Jobs, SetProwJobs(new)
      PROVE  Inv'
  <2>1. Write /\ jobs' = new /\ UNCHANGED <<pools, leases, vms>>
    BY <1>4 DEF SetProwJobs
  <2> QED BY <1>1, <2>1, WritesKeep DEF TypeOK
<1>5. ASSUME NEW s \in Servers, NEW found \in SUBSET Names, SetVCenterData(s, found)
      PROVE  Inv'
  <2>1. /\ Write /\ vms' = [vms EXCEPT ![s] = collectVMs(found)]
        /\ UNCHANGED <<pools, leases, jobs>>
    BY <1>5 DEF SetVCenterData
  <2>2. collectVMs(found) \subseteq Names
    BY DEF collectVMs
  <2>3. vms' \in [Servers -> SUBSET Names]
    BY <1>1, <2>1, <2>2 DEF TypeOK
  <2> QED BY <1>1, <2>1, <2>3, WritesKeep DEF TypeOK
<1> QED BY <1>2, <1>3, <1>4, <1>5 DEF Writers

-----------------------------------------------------------------------------
(* The invariant                                                             *)

(* An empty page, with no request.                                           *)
AtRest == page = Blank /\ todo = <<>> /\ kept = NoFacts

LEMMA RestInv ==
  AtRest /\ TypeOK /\ IsFiniteSet(Existing(pools)) /\ IsFiniteSet(Existing(leases))
    => Inv
<1> SUFFICES ASSUME AtRest, TypeOK, IsFiniteSet(Existing(pools)),
                    IsFiniteSet(Existing(leases))
             PROVE  Inv
  OBVIOUS
<1>1. /\ page \in Pages /\ page.kind = None /\ page.key = None
      /\ page.status = "none" /\ Empty
  BY BlankPage DEF AtRest, Empty
<1>2. todo \in Seq(Queries) /\ Todo = {} /\ InOrder(page.kind, todo) /\ todo = <<>>
  BY Nothing DEF AtRest, Todo
<1>3. RequestInv /\ QueriesInv
  BY <1>1, <1>2 DEF RequestInv, QueriesInv, Empty
<1>4. KeptInv
  BY DEF AtRest, NoFacts, KeptInv
<1>5. RelatedInv /\ RowsInv
  <2>1. NothingCounted
    BY <1>2 DEF NothingCounted, Pending
  <2> QED BY <1>1, <2>1, EmptyPage
<1>6. FoundInv /\ CountsInv /\ NotFoundIsTrue
  BY <1>1 DEF FoundInv, CountsInv, NotFoundIsTrue
<1>7. FiniteInv
  BY <1>1, FS_EmptySet DEF FiniteInv, Empty
<1> QED BY <1>2, <1>3, <1>4, <1>5, <1>6, <1>7 DEF Inv

LEMMA InitInv ==
  ASSUME Init
  PROVE  Inv
<1>1. AtRest
  BY DEF Init, AtRest
<1>2. TypeOK
  <2>1. page \in Pages /\ DOMAIN todo = {}
    BY BlankPage DEF Init
  <2> QED BY <2>1, DetailsAssumption DEF Init, TypeOK
<1>3. Existing(pools) = {} /\ Existing(leases) = {}
  BY DEF Init, Existing
<1> QED BY <1>1, <1>2, <1>3, FS_EmptySet, RestInv

LEMMA CloseKeeps ==
  ASSUME Inv, Close
  PROVE  Inv'
<1>1. /\ page' = Blank /\ kept' = NoFacts /\ changes' = 0
      /\ UNCHANGED <<pools, leases, jobs, vms, todo>>
      /\ page.status \in {"ok", "notFound"}
  BY DEF Close, storeVars
<1>2. todo = <<>>
  BY <1>1 DEF Inv, RequestInv
<1>3. AtRest'
  BY <1>1, <1>2 DEF AtRest
<1>4. TypeOK'
  <2>1. page' \in Pages /\ 0 \in 0..MaxChanges
    BY <1>1, BlankPage, DetailsAssumption
  <2> QED BY <1>1, <2>1 DEF Inv, TypeOK
<1>5. (IsFiniteSet(Existing(pools)) /\ IsFiniteSet(Existing(leases)))'
  BY <1>1 DEF Inv, FiniteInv, Existing
<1> QED BY <1>3, <1>4, <1>5, RestInv, PTL

LEMMA StutterKeeps ==
  ASSUME Inv, UNCHANGED vars
  PROVE  Inv'
<1>1. UNCHANGED <<pools, leases, jobs, vms, page, todo, kept, changes>>
  BY DEF vars
<1>2. /\ Todo' = Todo /\ NamespacesShown' = NamespacesShown
      /\ PoolsNamed' = PoolsNamed /\ JobsNamed' = JobsNamed
      /\ VMsShown' = VMsShown /\ Left' = Left /\ Facts' = Facts
      /\ LeasesExpected' = LeasesExpected
  BY <1>1 DEF Todo, NamespacesShown, PoolsNamed, JobsNamed, VMsShown, Left, Facts,
     Existing, LeasesExpected
<1>3. TypeOK' /\ (todo \in Seq(Queries))' /\ RequestInv' /\ KeptInv'
  BY <1>1, <1>2 DEF Inv, TypeOK, RequestInv, KeptInv
<1>4. \A whats : Pending(whats)' <=> Pending(whats)
  BY <1>2 DEF Pending
<1>5. QueriesInv'
  <2>1. \A q : Sensible(q)' <=> Sensible(q)
    BY <1>1, <1>2 DEF Sensible
  <2>2. InOrder(page.kind, todo)'
    BY <1>1 DEF Inv, QueriesInv, InOrder
  <2> QED BY <1>1, <1>2, <1>4, <2>1, <2>2 DEF Inv, QueriesInv
<1>6. RelatedInv'
  BY <1>1, <1>2 DEF Inv, RelatedInv, VMsRelated, PoolsRelated, JobsRelated
<1>7. FoundInv'
  BY <1>1, <1>2, <1>4 DEF Inv, FoundInv, LeasesFound, LeaseOfCluster, PoolsFound,
     VMsFound, JobsFound, Reads, Shows
<1>8. RowsInv'
  <2>1. \A v : Asking(v)' <=> Asking(v)
    BY <1>2 DEF Asking
  <2>2. \A v : With(v, Left)' = With(v, Left) /\ With(v, page.leases)' = With(v, page.leases)
    BY <1>1, <1>2 DEF With
  <2>3. RowsInv
    BY DEF Inv
  <2> QED BY <1>1, <1>4, <2>1, <2>2, <2>3 DEF RowsInv
<1>9. FiniteInv' /\ CountsInv' /\ NotFoundIsTrue'
  BY <1>1 DEF Inv, FiniteInv, Existing, CountsInv, NotFoundIsTrue
<1> QED BY <1>3, <1>5, <1>6, <1>7, <1>8, <1>9 DEF Inv

LEMMA NextInv ==
  ASSUME Inv, Next
  PROVE  Inv'
<1>1. CASE Writers
  BY <1>1, WritersKeep
<1>2. CASE handleLeaseDetail \/ handlePoolDetail \/ handleClusterDetail
             \/ handleProwDetail
  BY <1>2, DetailOpens
<1>3. CASE handleOverview \/ handlePools \/ handleLeases \/ handleProw
             \/ handleVCenter
  BY <1>3, ListOpens
<1>4. CASE AskPool \/ AskPoolOf \/ AskVMs \/ AskJob
  BY <1>4, AskPoolKeeps, AskPoolOfKeeps, AskVMsKeeps, AskJobKeeps
<1>5. CASE AskLease \/ AskLeasesOn \/ AskLeaseIn \/ AskLeasesFor \/ NextLease
  BY <1>5, AskLeaseKeeps, AskLeasesOnKeeps, AskLeaseInKeeps, AskLeasesForKeeps,
     NextLeaseKeeps
<1>6. CASE AskOverview \/ AskPools \/ AskLeases \/ AskJobs \/ AskAllVMs
  BY <1>6, AskOverviewKeeps, AskPoolsKeeps, AskLeasesKeeps, AskJobsKeeps,
     AskAllVMsKeeps
<1>7. CASE Close
  BY <1>7, CloseKeeps
<1> QED BY <1>1, <1>2, <1>3, <1>4, <1>5, <1>6, <1>7 DEF Next, Handlers

(* server.go:304-598: the invariant that all of the following rests on.      *)
THEOREM Invariant == Spec => []Inv
<1>1. Init => Inv
  BY InitInv
<1>2. Inv /\ [Next]_vars => Inv'
  BY NextInv, StutterKeeps
<1> QED BY <1>1, <1>2, PTL DEF Spec

-----------------------------------------------------------------------------
(* The theorems                                                              *)

(* server.go:304-598, store.go:133-382: the request, its queries and what its *)
(* page shows are well typed, whatever is written between the queries.       *)
THEOREM TypeCorrect == Spec => []TypeOK
<1>1. Inv => TypeOK
  BY DEF Inv
<1> QED BY <1>1, Invariant, PTL

(* server.go:429-453, 505-533, 559-587: what a page shows of a lease belongs  *)
(* to it, although the VMs, the pools and the job are read after the lease.  *)
THEOREM RelatedOnly == Spec => []OnlyRelated
<1>1. Inv => OnlyRelated
  BY DEF Inv, RelatedInv, VMsRelated, PoolsRelated, JobsRelated, OnlyRelated,
     JobsNamed
<1> QED BY <1>1, Invariant, PTL

(* server.go:304-598: what was in the Store during all of the request, and   *)
(* belongs on the page, is on it when the page is written.                   *)
THEOREM Complete == Spec => []NothingMissing
<1>1. Inv => NothingMissing
  <2>1. SUFFICES ASSUME Inv, page.status = "ok" PROVE NothingMissing
    BY DEF NothingMissing, Ready
  <2>2. Todo = {}
    <3>1. todo = <<>>
      BY <2>1 DEF Inv, RequestInv
    <3> QED BY <3>1, Nothing DEF Todo
  <2>3. \A whats : ~Pending(whats)
    BY <2>2 DEF Pending
  <2>4. LeasesFound /\ LeaseOfCluster /\ PoolsFound /\ VMsFound /\ JobsFound
    BY <2>1 DEF Inv, FoundInv
  <2>5. LeasesExpected \subseteq page.leases
    BY <2>3, <2>4 DEF LeasesFound
  <2>6. /\ page.kind \in {"lease", "cluster", "prow"} =>
             \A f \in kept.pools : f[1] \in PoolsNamed => f \in page.pools
        /\ page.kind = "pools" => kept.pools \subseteq page.pools
    BY <2>2, <2>3, <2>4 DEF PoolsFound
  <2>7. \A v \in kept.vms :
          \/ page.kind = "vcenter"
          \/ \E ns \in NamespacesShown : BelongsTo(v[2], ns)
          => v \in VMsShown
    BY <2>2, <2>3, <2>4 DEF VMsFound
  <2>8. /\ page.kind = "jobs" => kept.jobs \subseteq page.jobs
        /\ page.kind \in {"lease", "cluster"} =>
             kept.jobs \cap JobsNamed \subseteq page.jobs
    BY <2>2, <2>3, <2>4 DEF JobsFound
  <2>9. page.kind = "cluster" /\ (\E f \in kept.leases : f[2].ns = page.key) =>
          \E f \in page.leases : f[2].ns = page.key
    BY <2>3, <2>4 DEF LeaseOfCluster
  <2> QED BY <2>5, <2>6, <2>7, <2>8, <2>9 DEF NothingMissing, JobsNamed
<1> QED BY <1>1, Invariant, PTL

(* server.go:423-427, 472-476, 511-515, 553-557: a page is not found only if *)
(* what it is about was not in the Store all the time.                       *)
THEOREM NotFoundCorrect == Spec => []NotFoundIsTrue
<1>1. Inv => NotFoundIsTrue
  BY DEF Inv
<1> QED BY <1>1, Invariant, PTL

(* server.go:565-571: a VM is listed once, on the prow page at most once for *)
(* each lease in its namespace.                                              *)
THEOREM RowsCorrect == Spec => []RowsPerLease
<1>1. Inv => RowsPerLease
  <2>1. SUFFICES ASSUME Inv, page.status = "ok", NEW v \in VMsShown
                 PROVE  IF page.kind = "prow"
                        THEN page.rows[v] <= Cardinality({f \in page.leases :
                               f[2].ns # None /\ BelongsTo(v[2], f[2].ns)})
                        ELSE page.rows[v] = 1
    BY DEF RowsPerLease, Ready
  <2>2. v \in Servers \X Names /\ page.rows[v] \in Nat /\ page.rows[v] > 0
    <3>1. page.rows \in [Servers \X Names -> Nat]
      BY <2>1 DEF Inv, TypeOK, Pages
    <3> QED BY <2>1, <3>1 DEF VMsShown
  <2>3. CASE page.kind = "prow"
    <3>1. page.rows[v] + (IF Asking(v) THEN 1 ELSE 0) + Cardinality(With(v, Left))
            <= Cardinality(With(v, page.leases))
      BY <2>1, <2>2, <2>3 DEF Inv, RowsInv
    <3>2. /\ Cardinality(With(v, Left)) \in Nat
          /\ Cardinality(With(v, page.leases)) \in Nat
      BY <2>1, LeftOnPage
    <3>3. page.rows[v] <= Cardinality(With(v, page.leases))
      BY <2>2, <3>1, <3>2
    <3> QED BY <2>3, <3>3 DEF With
  <2>4. CASE page.kind # "prow"
    BY <2>1, <2>2, <2>4 DEF Inv, RowsInv
  <2> QED BY <2>3, <2>4
<1> QED BY <1>1, Invariant, PTL

(* store.go:349-357: the overview counts every pool as one of active,        *)
(* excluded and cordoned, and no lease in two phases.                        *)
THEOREM OverviewCorrect == Spec => []OverviewAddsUp
<1>1. Inv => OverviewAddsUp
  BY DEF Inv, CountsInv, OverviewAddsUp, AddsUp, Ready
<1> QED BY <1>1, Invariant, PTL

=============================================================================

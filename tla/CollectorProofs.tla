--------------------------- MODULE CollectorProofs ---------------------------
(***************************************************************************)
(* Proofs about the vCenter collector, for any set of servers: lock        *)
(* discipline, one worker per server, and what may be stored.              *)
(***************************************************************************)
EXTENDS Collector, TLAPS

(* A worker is its server and its round.                                     *)
LEMMA WorkerPairs ==
  /\ \A w \in Workers : w[1] \in Servers /\ w[2] \in {0, 1}
  /\ \A v, w \in Workers : v[1] = w[1] /\ v[2] = w[2] => v = w
  /\ \A w \in Workers : w # None
BY CollectorAssumption DEF Workers

LEMMA EmptyReading == \A at \in Nat : Empty(at) \in Readings
BY DEF Empty, Readings

(* Each field a worker fills in leaves it with a reading.                    *)
LEMMA DataUpdate ==
  ASSUME NEW d \in [Workers -> Readings], NEW w \in Workers,
         NEW v \in Nat \cup {None}
  PROVE  /\ [d EXCEPT ![w].error = TRUE] \in [Workers -> Readings]
         /\ [d EXCEPT ![w].clusters = v] \in [Workers -> Readings]
         /\ [d EXCEPT ![w].vms = v] \in [Workers -> Readings]
BY DEF Readings

LEMMA InitType == Init => TypeOK
<1> SUFFICES ASSUME Init PROVE TypeOK
  OBVIOUS
<1>1. Empty(0) \in Readings
  BY EmptyReading
<1>2. /\ data \in [Workers -> Readings]
      /\ stored \in [Servers -> Readings]
  BY <1>1 DEF Init
<1>3. wpc \in [Workers -> Active \cup {"done"}]
  BY DEF Init, Active
<1>4. QED BY <1>2, <1>3 DEF Init, TypeOK

LEMMA NextType == TypeOK /\ [Next]_vars => TypeOK'
<1> SUFFICES ASSUME TypeOK, [Next]_vars PROVE TypeOK'
  OBVIOUS
<1> USE CollectorAssumption, WorkerPairs DEF TypeOK, Active, InSession
<1>1. CASE WaitDone \/ Stop \/ Tick \/ Cancel
  BY <1>1 DEF WaitDone, Stop, Tick, Cancel
<1>2. CASE NextRound
  BY <1>2 DEF NextRound, Spawned
<1>3. ASSUME NEW s \in Servers, Change(s) PROVE TypeOK'
  BY <1>3 DEF Change
<1>4. ASSUME NEW w \in Workers, Start(w) PROVE TypeOK'
  BY <1>4, EmptyReading DEF Start, Goto
<1>5. ASSUME NEW w \in Workers,
             Lookup(w) \/ LookupDone(w) \/ LockServer(w) \/ Created(w)
      PROVE  TypeOK'
  BY <1>5 DEF Lookup, LookupDone, LockServer, Created, Goto
<1>6. ASSUME NEW w \in Workers, CreateFails(w) PROVE TypeOK'
  <2>1. data' = [data EXCEPT ![w].error = TRUE]
    BY <1>6 DEF CreateFails
  <2>2. data' \in [Workers -> Readings]
    BY <2>1, DataUpdate
  <2>3. QED BY <1>6, <2>2 DEF CreateFails, Goto
<1>7. ASSUME NEW w \in Workers, Save(w) \/ SaveDone(w) PROVE TypeOK'
  BY <1>7 DEF Save, SaveDone, Goto
<1>8. \A w \in Workers : Answers(w[1]) \subseteq Nat \cup {None}
  BY DEF Answers
<1>9. ASSUME NEW w \in Workers, Clusters(w) PROVE TypeOK'
  <2>1. PICK c \in Nat \cup {None} : data' = [data EXCEPT ![w].clusters = c]
    BY <1>8, <1>9 DEF Clusters
  <2>2. data' \in [Workers -> Readings]
    BY <2>1, DataUpdate
  <2>3. QED BY <1>9, <2>2 DEF Clusters, Goto
<1>10. ASSUME NEW w \in Workers, VMs(w) PROVE TypeOK'
  <2>1. PICK c \in Nat \cup {None} : data' = [data EXCEPT ![w].vms = c]
    BY <1>8, <1>10 DEF VMs
  <2>2. data' \in [Workers -> Readings]
    BY <2>1, DataUpdate
  <2>3. QED BY <1>10, <2>2 DEF VMs, Goto
<1>11. ASSUME NEW w \in Workers, Store(w) PROVE TypeOK'
  BY <1>11, EmptyReading DEF Store, Goto
<1>12. CASE UNCHANGED vars
  BY <1>12 DEF vars
<1> QED
  BY <1>1, <1>2, <1>3, <1>4, <1>5, <1>6, <1>7, <1>9, <1>10, <1>11, <1>12
     DEF Next, WorkerStep, Stopped

-----------------------------------------------------------------------------
(* mu and the servers' locks are held by the workers whose place says so.    *)
LEMMA NextLock == TypeOK /\ LockInv /\ RoundInv /\ [Next]_vars => LockInv'
<1> SUFFICES ASSUME TypeOK, LockInv, RoundInv, [Next]_vars PROVE LockInv'
  OBVIOUS
<1> USE CollectorAssumption, WorkerPairs DEF TypeOK, LockInv
<1>1. CASE WaitDone \/ Stop \/ Tick \/ Cancel \/ UNCHANGED vars
  BY <1>1 DEF WaitDone, Stop, Tick, Cancel, vars
<1>2. CASE NextRound
  <2>1. \A w \in Workers : wpc[w] = "done"
    BY <1>2 DEF NextRound, RoundInv
  <2>2. QED BY <1>2, <2>1 DEF NextRound, Spawned
<1>3. ASSUME NEW s \in Servers, Change(s) PROVE LockInv'
  BY <1>3 DEF Change
<1>4. ASSUME NEW w \in Workers, Start(w) \/ Created(w) PROVE LockInv'
  BY <1>4 DEF Start, Created, Goto
<1>5. ASSUME NEW w \in Workers, Lookup(w) \/ LookupDone(w) PROVE LockInv'
  BY <1>5 DEF Lookup, LookupDone, Goto
<1>6. ASSUME NEW w \in Workers, LockServer(w) PROVE LockInv'
  BY <1>6 DEF LockServer, Goto
<1>7. ASSUME NEW w \in Workers, CreateFails(w) PROVE LockInv'
  BY <1>7 DEF CreateFails, Goto
<1>8. ASSUME NEW w \in Workers, Save(w) PROVE LockInv'
  BY <1>8 DEF Save, Goto
<1>9. ASSUME NEW w \in Workers, SaveDone(w) PROVE LockInv'
  BY <1>9 DEF SaveDone, Goto
<1>10. ASSUME NEW w \in Workers, Clusters(w) \/ VMs(w) \/ Store(w)
       PROVE  LockInv'
  BY <1>10 DEF Clusters, VMs, Store, Goto
<1> QED
  BY <1>1, <1>2, <1>3, <1>4, <1>5, <1>6, <1>7, <1>8, <1>9, <1>10
     DEF Next, WorkerStep, Stopped

(* wg.Wait: the next round starts when every worker of the last is done.     *)
LEMMA NextRoundInv == TypeOK /\ RoundInv /\ [Next]_vars => RoundInv'
<1> SUFFICES ASSUME TypeOK, RoundInv, [Next]_vars PROVE RoundInv'
  OBVIOUS
<1> USE DEF TypeOK, RoundInv
<1>1. CASE WaitDone \/ Stop \/ Tick \/ Cancel \/ UNCHANGED vars
  BY <1>1 DEF WaitDone, Stop, Tick, Cancel, vars
<1>2. CASE NextRound
  BY <1>2 DEF NextRound, Spawned
<1>3. ASSUME NEW s \in Servers, Change(s) PROVE RoundInv'
  BY <1>3 DEF Change
<1>4. ASSUME NEW w \in Workers, WorkerStep(w) PROVE RoundInv'
  <2>1. /\ UNCHANGED <<loop, round>>
        /\ wpc[w] # "done"
        /\ \E to : wpc' = [wpc EXCEPT ![w] = to]
    BY <1>4 DEF WorkerStep, Start, Lookup, LookupDone, LockServer, Created,
       CreateFails, Save, SaveDone, Clusters, VMs, Store, Goto
  <2>2. QED BY <2>1
<1> QED
  BY <1>1, <1>2, <1>3, <1>4 DEF Next, Stopped

-----------------------------------------------------------------------------
(* A reading stays in order while its vCenter changes.                       *)
LEMMA InOrderLater ==
  ASSUME NEW d \in Readings, NEW m \in Nat, NEW n \in Nat, m <= n,
         InOrder(d, m)
  PROVE  InOrder(d, n)
BY CollectorAssumption DEF InOrder, Readings

(* A reading starts in order, and each part read now keeps it so.            *)
LEMMA InOrderEmpty ==
  ASSUME NEW n \in Nat
  PROVE  InOrder(Empty(n), n)
BY CollectorAssumption DEF InOrder, Empty

LEMMA InOrderError ==
  ASSUME NEW n \in Nat, NEW d \in Readings, InOrder(d, n), NEW e,
         e = [d EXCEPT !.error = TRUE]
  PROVE  InOrder(e, n) /\ e.at = d.at
BY DEF InOrder, Readings

LEMMA InOrderClusters ==
  ASSUME NEW n \in Nat, NEW d \in Readings, InOrder(d, n), d.vms = None,
         NEW c \in {n, None}, NEW e, e = [d EXCEPT !.clusters = c]
  PROVE  InOrder(e, n) /\ e.at = d.at /\ e.vms = None
BY CollectorAssumption DEF InOrder, Readings

LEMMA InOrderVMs ==
  ASSUME NEW n \in Nat, NEW d \in Readings, InOrder(d, n),
         NEW c \in {n, None}, NEW e, e = [d EXCEPT !.vms = c]
  PROVE  InOrder(e, n) /\ e.at = d.at
BY CollectorAssumption DEF InOrder, Readings

(* What workers have read is in order, and not older than what is stored.    *)
LEMMA NextReading ==
  ASSUME TypeOK, RoundInv, ReadingInv, StoredInv, [Next]_vars
  PROVE  ReadingInv'
<1> USE CollectorAssumption, WorkerPairs DEF TypeOK
<1> DEFINE Good(w) ==
      wpc[w] \notin {"done", "spawned"} =>
        /\ InOrder(data[w], inv[w[1]])
        /\ stored[w[1]].at <= data[w].at
        /\ wpc[w] # "store" => data[w].vms = None
<1>1. CASE WaitDone \/ Stop \/ Tick \/ Cancel \/ UNCHANGED vars
  BY <1>1 DEF WaitDone, Stop, Tick, Cancel, vars, ReadingInv
<1>2. CASE NextRound
  <2>1. \A w \in Workers : wpc'[w] \in {"done", "spawned"}
    BY <1>2 DEF NextRound, RoundInv, Spawned
  <2>2. QED BY <2>1 DEF ReadingInv
<1>3. ASSUME NEW s \in Servers, Change(s) PROVE ReadingInv'
  <2> SUFFICES ASSUME NEW w \in Workers PROVE Good(w)'
    BY DEF ReadingInv
  <2>1. inv[w[1]] <= inv'[w[1]] /\ inv'[w[1]] \in Nat /\ inv[w[1]] \in Nat
    BY <1>3 DEF Change
  <2>2. UNCHANGED <<wpc, data, stored>>
    BY <1>3 DEF Change
  <2>3. Good(w)
    BY DEF ReadingInv
  <2>4. QED BY <2>1, <2>2, <2>3, InOrderLater
<1>4. ASSUME NEW w \in Workers, Start(w) PROVE ReadingInv'
  <2> SUFFICES ASSUME NEW v \in Workers PROVE Good(v)'
    BY DEF ReadingInv
  <2>1. UNCHANGED <<inv, stored>> /\ data'[w] = Empty(inv[w[1]])
    BY <1>4 DEF Start
  <2>2. v # w => data'[v] = data[v] /\ wpc'[v] = wpc[v]
    BY <1>4 DEF Start, Goto
  <2>3. stored[w[1]].at <= inv[w[1]]
    BY DEF StoredInv, InOrder
  <2>4. Empty(inv[w[1]]).at = inv[w[1]] /\ Empty(inv[w[1]]).vms = None
    BY DEF Empty
  <2>5. InOrder(Empty(inv[w[1]]), inv[w[1]])
    BY InOrderEmpty
  <2>6. Good(v)
    BY DEF ReadingInv
  <2>7. QED BY <2>1, <2>2, <2>3, <2>4, <2>5, <2>6
<1>5. ASSUME NEW w \in Workers,
             \/ Lookup(w) \/ LookupDone(w) \/ LockServer(w) \/ Created(w)
             \/ Save(w) \/ SaveDone(w)
      PROVE  ReadingInv'
  <2>1. UNCHANGED <<inv, data, stored>>
    BY <1>5 DEF Lookup, LookupDone, LockServer, Created, Save, SaveDone
  <2>2. \A v \in Workers :
          \/ wpc'[v] = wpc[v]
          \/ wpc[v] \notin {"done", "spawned", "store"}
    BY <1>5 DEF Lookup, LookupDone, LockServer, Created, Save, SaveDone, Goto
  <2>3. QED BY <2>1, <2>2 DEF ReadingInv
<1>6. ASSUME NEW w \in Workers, CreateFails(w) \/ Clusters(w) \/ VMs(w)
      PROVE  ReadingInv'
  <2> SUFFICES ASSUME NEW v \in Workers PROVE Good(v)'
    BY DEF ReadingInv
  <2>1. UNCHANGED <<inv, stored>> /\ wpc[w] \in {"creating", "clusters", "vms"}
    BY <1>6 DEF CreateFails, Clusters, VMs, Goto
  <2>2. v # w => data'[v] = data[v] /\ wpc'[v] = wpc[v]
    BY <1>6 DEF CreateFails, Clusters, VMs, Goto
  <2>3. data[w] \in Readings /\ inv[w[1]] \in Nat
    OBVIOUS
  <2>4. /\ Good(v)
        /\ InOrder(data[w], inv[w[1]])
        /\ stored[w[1]].at <= data[w].at
        /\ data[w].vms = None
    BY <2>1 DEF ReadingInv
  <2> SUFFICES ASSUME v = w PROVE Good(w)'
    BY <2>1, <2>2, <2>4
  <2>5. CASE CreateFails(w)
    <3>1. data'[w] = [data[w] EXCEPT !.error = TRUE] /\ wpc'[w] = "store"
      BY <2>5 DEF CreateFails, Goto
    <3>2. InOrder(data'[w], inv[w[1]]) /\ data'[w].at = data[w].at
      BY <2>3, <2>4, <3>1, InOrderError
    <3>3. QED BY <2>1, <2>4, <3>1, <3>2
  <2>6. CASE Clusters(w)
    <3>1. PICK c \in {inv[w[1]], None} :
            data'[w] = [data[w] EXCEPT !.clusters = c]
      BY <2>6 DEF Clusters, Answers
    <3>2. /\ InOrder(data'[w], inv[w[1]])
          /\ data'[w].at = data[w].at /\ data'[w].vms = None
      BY <2>3, <2>4, <3>1, InOrderClusters
    <3>3. QED BY <2>1, <2>4, <3>2
  <2>7. CASE VMs(w)
    <3>1. PICK c \in {inv[w[1]], None} : data'[w] = [data[w] EXCEPT !.vms = c]
      BY <2>7 DEF VMs, Answers
    <3>2. InOrder(data'[w], inv[w[1]]) /\ data'[w].at = data[w].at
      BY <2>3, <2>4, <3>1, InOrderVMs
    <3>3. wpc'[w] = "store"
      BY <2>7 DEF VMs, Goto
    <3>4. QED BY <2>1, <2>4, <3>2, <3>3
  <2>8. QED BY <1>6, <2>5, <2>6, <2>7
<1>7. ASSUME NEW w \in Workers, Store(w) PROVE ReadingInv'
  <2> SUFFICES ASSUME NEW v \in Workers, wpc'[v] \notin {"done", "spawned"}
               PROVE  Good(v)'
    BY DEF ReadingInv
  <2>1. v # w /\ wpc'[v] = wpc[v] /\ data'[v] = data[v] /\ inv' = inv
    BY <1>7 DEF Store, Goto
  <2>2. v[1] # w[1]
    BY <1>7, <2>1 DEF RoundInv, Store, Goto
  <2>3. stored'[v[1]] = stored[v[1]]
    BY <1>7, <2>2 DEF Store
  <2>4. QED BY <2>1, <2>3 DEF ReadingInv
<1>8. QED
  BY <1>1, <1>2, <1>3, <1>4, <1>5, <1>6, <1>7 DEF Next, WorkerStep, Stopped

(* What is stored was read in order.                                         *)
LEMMA NextStored ==
  ASSUME TypeOK, ReadingInv, StoredInv, [Next]_vars
  PROVE  StoredInv'
<1> USE WorkerPairs DEF TypeOK, StoredInv
<1>1. CASE UNCHANGED <<inv, stored>>
  BY <1>1
<1>2. ASSUME NEW s \in Servers, Change(s) PROVE StoredInv'
  <2> SUFFICES ASSUME NEW u \in Servers PROVE InOrder(stored'[u], inv'[u])
    OBVIOUS
  <2>1. inv[u] <= inv'[u] /\ inv'[u] \in Nat /\ inv[u] \in Nat
    BY <1>2 DEF Change
  <2>2. stored' = stored
    BY <1>2 DEF Change
  <2>3. QED BY <2>1, <2>2, InOrderLater
<1>3. ASSUME NEW w \in Workers, Store(w) PROVE StoredInv'
  <2>1. InOrder(data[w], inv[w[1]])
    BY <1>3 DEF ReadingInv, Store, Goto
  <2>2. QED BY <1>3, <2>1 DEF Store
<1>4. QED
  BY <1>1, <1>2, <1>3 DEF Next, WorkerStep, Stopped, vars, WaitDone, NextRound,
     Stop, Tick, Cancel, Start, Lookup, LookupDone, LockServer, Created,
     CreateFails, Save, SaveDone, Clusters, VMs

-----------------------------------------------------------------------------
LEMMA InitInv == Init => IInv
<1> SUFFICES ASSUME Init PROVE IInv
  OBVIOUS
<1>1. LockInv /\ RoundInv /\ ReadingInv
  BY WorkerPairs, CollectorAssumption
     DEF Init, LockInv, RoundInv, ReadingInv
<1>2. StoredInv
  BY InOrderEmpty DEF Init, StoredInv
<1>3. QED BY <1>1, <1>2, InitType DEF IInv

(* The inductive invariant holds in every reachable state.                   *)
THEOREM Invariance == Spec => []IInv
<1>1. IInv /\ [Next]_vars => IInv'
  BY NextType, NextLock, NextRoundInv, NextReading, NextStored DEF IInv
<1>2. QED BY InitInv, <1>1, PTL DEF Spec

THEOREM TypeCorrect == Spec => []TypeOK
<1>1. IInv => TypeOK
  BY DEF IInv
<1>2. QED BY <1>1, Invariance, PTL

(* wg.Wait keeps the rounds of collectAll apart.                             *)
THEOREM RoundsApart == Spec => []OneWorkerPerServer
<1>1. IInv => OneWorkerPerServer
  <2> SUFFICES ASSUME IInv, NEW s \in Servers, NEW r \in {0, 1},
                      NEW q \in {0, 1},
                      wpc[<<s, r>>] # "done", wpc[<<s, q>>] # "done"
               PROVE  r = q
    BY DEF OneWorkerPerServer
  <2>1. <<s, r>> \in Workers /\ <<s, q>> \in Workers
    BY DEF Workers
  <2>2. QED BY <2>1 DEF IInv, RoundInv
<1>2. QED BY <1>1, Invariance, PTL

(* The vCenter page's "Collected" time is never later than what it shows.    *)
THEOREM HonestTime == Spec => []CollectedAtIsHonest
<1>1. IInv => CollectedAtIsHonest
  BY DEF IInv, StoredInv, InOrder, CollectedAtIsHonest
<1>2. QED BY <1>1, Invariance, PTL

(* A collection never overwrites the result of a later one.                  *)
THEOREM NewerWins == Spec => NewerCollectionWins
<1>1. ASSUME IInv, [Next]_vars
      PROVE  [\A s \in Servers : stored[s].at <= stored'[s].at]_stored
  <2> USE <1>1, WorkerPairs DEF IInv, TypeOK
  <2>1. \A s \in Servers : stored[s].at \in Nat
    BY DEF Readings
  <2>2. ASSUME NEW w \in Workers, Store(w)
        PROVE  \A s \in Servers : stored[s].at <= stored'[s].at
    <3>1. stored[w[1]].at <= data[w].at
      BY <2>2 DEF ReadingInv, Store, Goto
    <3>2. QED BY <2>1, <2>2, <3>1 DEF Store
  <2>3. CASE UNCHANGED stored
    BY <2>3
  <2>4. QED
    BY <2>2, <2>3 DEF Next, WorkerStep, Stopped, vars, WaitDone, NextRound,
       Stop, Tick, Cancel, Change, Start, Lookup, LookupDone, LockServer,
       Created, CreateFails, Save, SaveDone, Clusters, VMs
<1>2. QED BY <1>1, Invariance, PTL DEF Spec, NewerCollectionWins

-----------------------------------------------------------------------------
(* Who waits for whom                                                        *)

(* w can go no further until v unlocks Metadata.mu, or w's server.           *)
WaitsFor(w, v) ==
  \/ wpc[w] \in {"session", "wantSave"} /\ mu = v
  \/ wpc[w] = "wantServer" /\ smu[w[1]] = v

(* Who is waited for is about to unlock mu and waits for no one; the lock of *)
(* a server is free when its worker asks for it; and mu is free when the     *)
(* loop asks for it, to list the servers.                                    *)
NoWaitingInCircles ==
  /\ \A w, v \in Workers : WaitsFor(w, v) =>
       wpc[v] \in {"lookup", "save"} /\ \A u \in Workers : ~WaitsFor(v, u)
  /\ \A w \in Workers : wpc[w] = "wantServer" => smu[w[1]] = None
  /\ loop # "collecting" => mu = None

(* The lock of a server is held by workers of that server only.              *)
OwnerInv ==
  \A s \in Servers : smu[s] # None => smu[s] \in Workers /\ smu[s][1] = s

LEMMA Owner == Spec => []OwnerInv
<1>1. Init => OwnerInv
  BY DEF Init, OwnerInv
<1>2. TypeOK /\ OwnerInv /\ [Next]_vars => OwnerInv'
  <2> SUFFICES ASSUME TypeOK, OwnerInv, [Next]_vars PROVE OwnerInv'
    OBVIOUS
  <2> USE WorkerPairs DEF TypeOK, OwnerInv
  <2>1. ASSUME NEW w \in Workers, LockServer(w) PROVE OwnerInv'
    BY <2>1 DEF LockServer
  <2>2. ASSUME NEW w \in Workers, CreateFails(w) \/ SaveDone(w) PROVE OwnerInv'
    BY <2>2 DEF CreateFails, SaveDone
  <2>3. CASE UNCHANGED smu
    BY <2>3
  <2> QED
    BY <2>1, <2>2, <2>3 DEF Next, WorkerStep, Stopped, vars, WaitDone,
       NextRound, Stop, Tick, Cancel, Change, Start, Lookup, LookupDone,
       Created, Save, Clusters, VMs, Store
<1>3. QED BY <1>1, <1>2, TypeCorrect, PTL DEF Spec

(* session.go:106-138: although Save takes mu with a server's lock held, no  *)
(* goroutines wait for each other, for any number of vCenters: each waits    *)
(* at most for one that is about to unlock mu.                               *)
THEOREM NoLockCycle == Spec => []NoWaitingInCircles
<1>1. IInv /\ OwnerInv => NoWaitingInCircles
  <2> SUFFICES ASSUME IInv, OwnerInv PROVE NoWaitingInCircles
    OBVIOUS
  <2> USE WorkerPairs DEF IInv, TypeOK, LockInv, RoundInv
  <2>1. ASSUME NEW w \in Workers, wpc[w] = "wantServer", smu[w[1]] # None
        PROVE  FALSE
    <3> DEFINE v == smu[w[1]]
    <3>1. v \in Workers /\ v[1] = w[1]
      BY <2>1 DEF OwnerInv
    <3>2. wpc[v] \in {"creating", "wantSave", "save"}
      BY <3>1
    <3>3. v[2] = w[2]
      BY <2>1, <3>1, <3>2
    <3> QED BY <2>1, <3>1, <3>2, <3>3
  <2>2. ASSUME NEW w \in Workers, NEW v \in Workers, WaitsFor(w, v)
        PROVE  wpc[v] \in {"lookup", "save"}
    BY <2>1, <2>2 DEF WaitsFor
  <2>3. ASSUME NEW w \in Workers, NEW v \in Workers, WaitsFor(w, v),
               NEW u \in Workers
        PROVE  ~WaitsFor(v, u)
    BY <2>2, <2>3 DEF WaitsFor
  <2>4. ASSUME loop # "collecting" PROVE mu = None
    BY <2>4
  <2> QED BY <2>1, <2>2, <2>3, <2>4 DEF NoWaitingInCircles
<1>2. QED BY <1>1, Invariance, Owner, PTL

-----------------------------------------------------------------------------
(* The store as a view of the inventories, from when each was collected.     *)
Collected == [x \in {"store"} |-> [s \in Servers |-> stored[s].at]]

View == INSTANCE LiveView WITH Sections <- Servers, Tabs <- {"store"},
                               ver <- inv, view <- Collected
ViewRefined == View!Spec

(* collector.go:88-158: what LiveView promises of a tab holds of the store   *)
(* towards the vCenters: what it has of each is from a time that was, and    *)
(* only ever advances, one vCenter at a time.                                *)
THEOREM Implements == Spec => ViewRefined
<1>1. Init => View!Init
  BY DEF Init, Empty, Collected, View!Init
<1>2. ASSUME IInv, [Next]_vars
      PROVE  [View!Next]_(View!viewVars)
  <2> USE <1>2, WorkerPairs DEF IInv, TypeOK, View!viewVars
  <2>1. ASSUME NEW s \in Servers, Change(s) PROVE View!Next
    <3>1. inv' = [inv EXCEPT ![s] = @ + 1] /\ Collected' = Collected
      BY <2>1 DEF Change, Collected
    <3> QED BY <3>1 DEF View!Next, View!Update
  <2>2. ASSUME NEW w \in Workers, Store(w) PROVE View!Next
    <3>1. /\ stored' = [stored EXCEPT ![w[1]] = data[w]]
          /\ inv' = inv
      BY <2>2 DEF Store
    <3>2. \A s \in Servers : /\ stored[s].at \in Nat /\ stored'[s].at \in Nat
                             /\ inv[s] \in Nat
      BY <3>1 DEF Readings
    <3>3. \A s \in Servers : stored[s].at <= inv[s]
      BY DEF StoredInv, InOrder
    <3>4. /\ stored[w[1]].at <= data[w].at
          /\ data[w].at <= inv[w[1]]
      BY <2>2 DEF Store, Goto, ReadingInv, InOrder
    <3>5. \A s \in Servers : stored'[s].at \in stored[s].at..inv[s]
      BY <3>1, <3>2, <3>3, <3>4
    <3>6. /\ Collected'["store"] = [s \in Servers |-> stored'[s].at]
          /\ Collected["store"] = [s \in Servers |-> stored[s].at]
          /\ Collected' = [Collected EXCEPT !["store"] = Collected'["store"]]
      BY DEF Collected
    <3>7. View!Refresh("store")
      BY <3>1, <3>2, <3>5, <3>6 DEF View!Refresh
    <3> QED BY <3>7 DEF View!Next
  <2>3. CASE UNCHANGED <<inv, stored>>
    BY <2>3 DEF Collected
  <2> QED
    BY <2>1, <2>2, <2>3 DEF Next, WorkerStep, Stopped, vars, WaitDone,
       NextRound, Stop, Tick, Cancel, Start, Lookup, LookupDone, LockServer,
       Created, CreateFails, Save, SaveDone, Clusters, VMs
<1>3. QED BY <1>1, <1>2, Invariance, PTL DEF Spec, ViewRefined, View!Spec

=============================================================================

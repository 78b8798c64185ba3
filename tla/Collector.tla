------------------------------ MODULE Collector ------------------------------
(***************************************************************************)
(* The vCenter collector (pkg/vcenter/collector.go) and the sessions it    *)
(* uses (pkg/vsphere/session.go).                                          *)
(*                                                                         *)
(* A loop starts one goroutine per configured vCenter, waits for all of    *)
(* them, and then waits for the next tick.  A goroutine gets a session,    *)
(* under a lock of its server, reads clusters and then VMs, and hands the  *)
(* result to the store.                                                    *)
(*                                                                         *)
(* The inventory of a vCenter is abstracted to the number of changes made  *)
(* to it, which is also its clock: a time is the number of changes so far. *)
(***************************************************************************)
EXTENDS Naturals

CONSTANTS
  Servers,     \* configured vCenters, keys of Metadata.Credentials
  Responsive,  \* those that answer every request in the end
  Faulty,      \* those a request to which may fail
  MaxInv,      \* MaxInv[s] bounds the number of changes of s's inventory
  None         \* no value: an unlocked lock, a part that was not collected

ASSUME CollectorAssumption ==
  /\ Responsive \subseteq Servers
  /\ Servers \ Responsive \subseteq Faulty
  /\ MaxInv \in [Servers -> Nat]
  /\ None \notin Nat
  /\ None \notin Servers \X {0, 1}

(* A goroutine of collectAll: its server and the round it belongs to.  Two   *)
(* rounds are told apart, so that one could overtake the other.              *)
Workers == Servers \X {0, 1}

VARIABLES
  inv,      \* inv[s]: changes made so far to the inventory of vCenter s
  loop,     \* Collector.Run: "collecting", "select" or "stopped"
  round,    \* the round of collectAll, modulo 2
  ticker,   \* "none" before NewTicker, then "idle" or "due"
  ctxDone,  \* the context has been cancelled
  wpc,      \* where each worker is, "done" when it is not running
  data,     \* data[w]: the VCenterData a worker is filling
  mu,       \* Metadata.mu: the worker that holds it, or None
  smu,      \* Metadata.serverMu: smu[s] is the worker that holds it, or None
  stored    \* stored[s]: the VCenterData of s in the store

vars == <<inv, loop, round, ticker, ctxDone, wpc, data, mu, smu, stored>>

(* Inside Metadata.Session, and the whole of collectServer.                  *)
InSession == {"session", "lookup", "wantServer", "creating", "wantSave",
              "save"}
Active == {"spawned"} \cup InSession \cup {"clusters", "vms", "store"}

(* at: CollectedAt; clusters and vms: the version read, None if missing.     *)
Readings == [at : Nat, error : BOOLEAN,
             clusters : Nat \cup {None}, vms : Nat \cup {None}]

Empty(at) == [at |-> at, error |-> FALSE, clusters |-> None, vms |-> None]

TypeOK ==
  /\ inv \in [Servers -> Nat]
  /\ loop \in {"collecting", "select", "stopped"}
  /\ round \in {0, 1}
  /\ ticker \in {"none", "idle", "due"}
  /\ ctxDone \in BOOLEAN
  /\ wpc \in [Workers -> Active \cup {"done"}]
  /\ data \in [Workers -> Readings]
  /\ mu \in Workers \cup {None}
  /\ smu \in [Servers -> Workers \cup {None}]
  /\ stored \in [Servers -> Readings]

(* The goroutines of a round, as collectAll starts them.                     *)
Spawned(r) ==
  [w \in Workers |-> IF w[2] = r THEN "spawned" ELSE wpc[w]]

(* Run enters its initial collection at once.                                *)
Init ==
  /\ inv = [s \in Servers |-> 0]
  /\ loop = "collecting"
  /\ round = 0
  /\ ticker = "none"
  /\ ctxDone = FALSE
  /\ wpc = [w \in Workers |-> IF w[2] = 0 THEN "spawned" ELSE "done"]
  /\ data = [w \in Workers |-> Empty(0)]
  /\ mu = None
  /\ smu = [s \in Servers |-> None]
  /\ stored = [s \in Servers |-> Empty(0)]

-----------------------------------------------------------------------------
(* The loop                                                                  *)

(* Mutant: the loop does not wait for the workers of the round. *)
WaitNot ==
  /\ loop = "collecting"
  /\ loop' = "select"
  /\ ticker' = IF ticker = "none" THEN "idle" ELSE ticker
  /\ UNCHANGED <<inv, round, ctxDone, wpc, data, mu, smu, stored>>

(* wg.Wait() returns; after the initial round Run creates the ticker.        *)
WaitDone ==
  /\ loop = "collecting"
  /\ \A w \in Workers : wpc[w] = "done"
  /\ loop' = "select"
  /\ ticker' = IF ticker = "none" THEN "idle" ELSE ticker
  /\ UNCHANGED <<inv, round, ctxDone, wpc, data, mu, smu, stored>>

(* Mutant: the ticker is never read again after its first tick. *)
NextRoundOnce ==
  /\ loop = "select"
  /\ ticker = "due"
  /\ mu = None
  /\ round = 0
  /\ ticker' = "idle"
  /\ loop' = "collecting"
  /\ round' = 1
  /\ wpc' = Spawned(1)
  /\ UNCHANGED <<inv, ctxDone, data, mu, smu, stored>>

(* <-ticker.C: the next round; Servers() needs mu.                           *)
NextRound ==
  /\ loop = "select"
  /\ ticker = "due"
  /\ mu = None
  /\ ticker' = "idle"
  /\ loop' = "collecting"
  /\ round' = 1 - round
  /\ wpc' = Spawned(1 - round)
  /\ UNCHANGED <<inv, ctxDone, data, mu, smu, stored>>

(* Mutant: the loop has no case for its context. *)
StopNever ==
  /\ loop = "select"
  /\ FALSE
  /\ loop' = "stopped"
  /\ UNCHANGED <<inv, round, ticker, ctxDone, wpc, data, mu, smu, stored>>

(* <-ctx.Done()                                                              *)
Stop ==
  /\ loop = "select"
  /\ ctxDone
  /\ loop' = "stopped"
  /\ UNCHANGED <<inv, round, ticker, ctxDone, wpc, data, mu, smu, stored>>

-----------------------------------------------------------------------------
(* A worker w, collecting from server w[1]                                   *)

Goto(w, from, to) ==
  /\ wpc[w] = from
  /\ wpc' = [wpc EXCEPT ![w] = to]

(* collectServer stamps CollectedAt before it asks for anything.             *)
Start(w) ==
  /\ Goto(w, "spawned", "session")
  /\ data' = [data EXCEPT ![w] = Empty(inv[w[1]])]
  /\ UNCHANGED <<inv, loop, round, ticker, ctxDone, mu, smu, stored>>

(* Session: mu is taken to find the credentials and the lock of the server.  *)
(* The credentials exist: collectAll took the servers from the same map.     *)
Lookup(w) ==
  /\ Goto(w, "session", "lookup")
  /\ mu = None
  /\ mu' = w
  /\ UNCHANGED <<inv, loop, round, ticker, ctxDone, data, smu, stored>>

LookupDone(w) ==
  /\ Goto(w, "lookup", "wantServer")
  /\ mu' = None
  /\ UNCHANGED <<inv, loop, round, ticker, ctxDone, data, smu, stored>>

(* Mutant: one lock for all the servers. *)
LockAllServers(w) ==
  /\ Goto(w, "wantServer", "creating")
  /\ \A s \in Servers : smu[s] = None
  /\ smu' = [smu EXCEPT ![w[1]] = w]
  /\ UNCHANGED <<inv, loop, round, ticker, ctxDone, data, mu, stored>>

(* smu.Lock(), without mu.                                                   *)
LockServer(w) ==
  /\ Goto(w, "wantServer", "creating")
  /\ smu[w[1]] = None
  /\ smu' = [smu EXCEPT ![w[1]] = w]
  /\ UNCHANGED <<inv, loop, round, ticker, ctxDone, data, mu, stored>>

(* session.GetOrCreate succeeds (of this library call it is assumed that a     *)
(* call for one server does not wait for a call for another) ...              *)
Created(w) ==
  /\ Goto(w, "creating", "wantSave")
  /\ UNCHANGED <<inv, loop, round, ticker, ctxDone, data, mu, smu, stored>>

(* A request fails at a faulty vCenter, or at any once the context is done.   *)
MayFail(s) == s \in Faulty \/ ctxDone

(* ... or fails, at the latest after sessionTimeout; the server is unlocked. *)
CreateFails(w) ==
  /\ MayFail(w[1])
  /\ Goto(w, "creating", "store")
  /\ data' = [data EXCEPT ![w].error = TRUE]
  /\ smu' = [smu EXCEPT ![w[1]] = None]
  /\ UNCHANGED <<inv, loop, round, ticker, ctxDone, mu, stored>>

(* The session is remembered under mu, with the server still locked.         *)
Save(w) ==
  /\ Goto(w, "wantSave", "save")
  /\ mu = None
  /\ mu' = w
  /\ UNCHANGED <<inv, loop, round, ticker, ctxDone, data, smu, stored>>

SaveDone(w) ==
  /\ Goto(w, "save", "clusters")
  /\ mu' = None
  /\ smu' = [smu EXCEPT ![w[1]] = None]
  /\ UNCHANGED <<inv, loop, round, ticker, ctxDone, data, stored>>

(* collectClusters and collectVMs: a failure leaves that part empty.         *)
Answers(s) == {inv[s]} \cup (IF MayFail(s) THEN {None} ELSE {})

Clusters(w) ==
  /\ Goto(w, "clusters", "vms")
  /\ \E c \in Answers(w[1]) : data' = [data EXCEPT ![w].clusters = c]
  /\ UNCHANGED <<inv, loop, round, ticker, ctxDone, mu, smu, stored>>

VMs(w) ==
  /\ Goto(w, "vms", "store")
  /\ \E v \in Answers(w[1]) : data' = [data EXCEPT ![w].vms = v]
  /\ UNCHANGED <<inv, loop, round, ticker, ctxDone, mu, smu, stored>>

(* Mutant: CollectedAt is the time at which the result is stored. *)
StoreStampsTime(w) ==
  /\ Goto(w, "store", "done")
  /\ stored' = [stored EXCEPT ![w[1]] = [data[w] EXCEPT !.at = inv[w[1]]]]
  /\ data' = [data EXCEPT ![w] = Empty(0)]
  /\ UNCHANGED <<inv, loop, round, ticker, ctxDone, mu, smu>>

(* callback(srv, data), which is SetVCenterData, and wg.Done().  Nothing of   *)
(* the goroutine is left.                                                     *)
Store(w) ==
  /\ Goto(w, "store", "done")
  /\ stored' = [stored EXCEPT ![w[1]] = data[w]]
  /\ data' = [data EXCEPT ![w] = Empty(0)]
  /\ UNCHANGED <<inv, loop, round, ticker, ctxDone, mu, smu>>

-----------------------------------------------------------------------------
(* The environment                                                           *)

Change(s) ==
  /\ inv[s] < MaxInv[s]
  /\ inv' = [inv EXCEPT ![s] = @ + 1]
  /\ UNCHANGED <<loop, round, ticker, ctxDone, wpc, data, mu, smu, stored>>

(* The ticker's channel holds one tick; more are dropped.  Run stops it.      *)
Tick ==
  /\ ticker = "idle"
  /\ loop # "stopped"
  /\ ticker' = "due"
  /\ UNCHANGED <<inv, loop, round, ctxDone, wpc, data, mu, smu, stored>>

Cancel ==
  /\ ~ctxDone
  /\ ctxDone' = TRUE
  /\ UNCHANGED <<inv, loop, round, ticker, wpc, data, mu, smu, stored>>

(* Run has returned.                                                         *)
Stopped ==
  /\ loop = "stopped"
  /\ UNCHANGED vars

WorkerStep(w) ==
  \/ Start(w) \/ Lookup(w) \/ LookupDone(w) \/ LockServer(w)
  \/ Created(w) \/ CreateFails(w) \/ Save(w) \/ SaveDone(w)
  \/ Clusters(w) \/ VMs(w) \/ Store(w)

Next ==
  \/ WaitDone \/ NextRound \/ Stop
  \/ \E w \in Workers : WorkerStep(w)
  \/ \E s \in Servers : Change(s)
  \/ Tick \/ Cancel \/ Stopped

Spec == Init /\ [][Next]_vars

-----------------------------------------------------------------------------
(* Fairness.  The loop is a goroutine that nothing else holds up, the ticker  *)
(* ticks, and select takes a case that is ready again and again.              *)
LoopFairness ==
  /\ WF_vars(WaitDone)
  /\ WF_vars(NextRound)
  /\ WF_vars(Tick)
  /\ SF_vars(Stop)

(* A worker runs, and a mutex reaches who waits for it (starvation mode);     *)
(* each program counter has one step of its own, so strong fairness of their  *)
(* disjunction is strong fairness of each.                                    *)
LocalStep(w) ==
  \/ Start(w) \/ Lookup(w) \/ LookupDone(w) \/ LockServer(w)
  \/ Save(w) \/ SaveDone(w) \/ Store(w)

(* What a call does whatever the vCenter does: GetOrCreate has a timeout of   *)
(* its own, and every call returns once its context is cancelled.             *)
Timeout(w) ==
  \/ Created(w) \/ CreateFails(w)
  \/ ctxDone /\ (Clusters(w) \/ VMs(w))

(* The workers of s, of which at most one runs (OneWorkerPerServer), so that  *)
(* fairness of their disjunction is fairness of each.                         *)
Of(s) == {w \in Workers : w[1] = s}

(* Of a vCenter that does not answer nothing is assumed here, not even that   *)
(* a call to it ends: a property that needs more says so.                     *)
FairSpec ==
  /\ Spec
  /\ LoopFairness
  /\ \A s \in Responsive : SF_vars(\E w \in Of(s) : WorkerStep(w))
  /\ \A s \in Servers \ Responsive : SF_vars(\E w \in Of(s) : LocalStep(w))

CallsTimeOut ==
  \A s \in Servers \ Responsive :
    SF_vars(\E w \in Of(s) : LocalStep(w) \/ Timeout(w))

AllAnswer ==
  \A s \in Servers \ Responsive : SF_vars(\E w \in Of(s) : WorkerStep(w))

-----------------------------------------------------------------------------
(* Properties                                                                *)

(* wg.Wait keeps the rounds apart: no vCenter is collected twice at a time,   *)
(* so the lock of a server is free whenever its worker asks for it.           *)
OneWorkerPerServer ==
  \A s \in Servers : \A r, q \in {0, 1} :
    wpc[<<s, r>>] # "done" /\ wpc[<<s, q>>] # "done" => r = q

(* "Collected: ... ago" on the vCenter page never claims too much: clusters   *)
(* and VMs were read after CollectedAt, the VMs not before the clusters.      *)
CollectedAtIsHonest ==
  \A s \in Servers : LET d == stored[s] IN
    /\ d.clusters # None => d.at <= d.clusters
    /\ d.vms # None => d.at <= d.vms
    /\ d.clusters # None /\ d.vms # None => d.clusters <= d.vms

(* A collection never overwrites the result of a later one.                   *)
NewerCollectionWins ==
  [][\A s \in Servers : stored[s].at <= stored'[s].at]_stored

(* A change in the inventory of a vCenter that answers is followed by a       *)
(* collection from it.                                                        *)
Polled ==
  \A s \in Responsive :
    stored[s].at # inv[s] ~> stored[s].at = inv[s] \/ ctxDone

(* collector.go:92-100: it is, when all the others answer too, although some  *)
(* of their answers are errors.                                               *)
PolledIfAllAnswer == AllAnswer => Polled

(* README.md:114: "Each configured vCenter is polled every                    *)
(* --vcenter-poll-interval", whatever the others do.                          *)
PolledEveryInterval == CallsTimeOut => Polled

(* session.go:105: "Uses per-server locking so that a slow vCenter does not   *)
(* block others": a worker of a vCenter that answers leaves Session, although *)
(* GetOrCreate of another may never return (see Created).                     *)
SlowServerBlocksNoOther ==
  \A s \in Responsive : \A w \in Of(s) :
    wpc[w] \in InSession ~> wpc[w] \notin InSession

(* collector.go:87: Run returns once its context is cancelled, whatever state *)
(* the collections are in.                                                    *)
CancelStopsRun == CallsTimeOut => (ctxDone ~> loop = "stopped")

-----------------------------------------------------------------------------
(* The parts of the inductive invariant; the proofs are in CollectorProofs.   *)

(* Who holds the locks.  mu may be taken with a server's lock held (Save),    *)
(* never the other way round.                                                 *)
LockInv ==
  \A w \in Workers :
    /\ wpc[w] \in {"lookup", "save"} <=> mu = w
    /\ wpc[w] \in {"creating", "wantSave", "save"} <=> smu[w[1]] = w

(* Workers belong to the current round, and run while it is collected.        *)
RoundInv ==
  \A w \in Workers :
    wpc[w] # "done" => loop = "collecting" /\ w[2] = round

(* d is a reading in the order of collectServer, no newer than now.           *)
InOrder(d, now) ==
  /\ d.at <= now
  /\ d.clusters # None => d.at <= d.clusters /\ d.clusters <= now
  /\ d.vms # None => d.at <= d.vms /\ d.vms <= now
  /\ d.clusters # None /\ d.vms # None => d.clusters <= d.vms

(* What a worker has read is in order, and newer than what is stored.         *)
ReadingInv ==
  \A w \in Workers :
    wpc[w] \notin {"done", "spawned"} =>
      /\ InOrder(data[w], inv[w[1]])
      /\ stored[w[1]].at <= data[w].at
      /\ wpc[w] # "store" => data[w].vms = None

StoredInv == \A s \in Servers : InOrder(stored[s], inv[s])

IInv == TypeOK /\ LockInv /\ RoundInv /\ ReadingInv /\ StoredInv

=============================================================================

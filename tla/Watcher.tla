------------------------------- MODULE Watcher -------------------------------
(***************************************************************************)
(* The CRD watcher (pkg/k8s/watcher.go) for one kind of resource: pools,   *)
(* leases and networks have the same handlers.                             *)
(*                                                                         *)
(* The client-go informer is external and modelled from the way Run uses   *)
(* it: a cache fed by a list and a watch that may break, a resync every 30 *)
(* seconds, and a queue of notifications for which it calls AddFunc,       *)
(* UpdateFunc and DeleteFunc one after the other.  The order of the events *)
(* of one object is kept; objects are independent of each other.           *)
(*                                                                         *)
(* An object is its resource version and whether it converts to the typed  *)
(* form the store keeps.                                                   *)
(***************************************************************************)
EXTENDS Naturals, Sequences

CONSTANTS
  Names,      \* names of objects
  MaxRv,      \* bound on the changes of one object
  MaxFaults,  \* bound on broken watches and restarts
  MaxQueue,   \* bound on an object's notifications when a resync adds one
  None        \* no object

Objects == [rv : Nat, ok : BOOLEAN]

ASSUME WatcherAssumption ==
  /\ MaxRv \in Nat
  /\ MaxFaults \in Nat
  /\ MaxQueue \in Nat
  /\ None \notin Objects

VARIABLES
  api,        \* api[n]: the object in the API server, or None
  rv,         \* rv[n]: number of times n was created or updated
  connected,  \* the informer has listed and watches
  watch,      \* watch[n]: events of n on their way to the informer's cache
  cache,      \* cache[n]: the object in the informer's cache, or None
  queue,      \* queue[n]: notifications of n the handlers have not seen yet
  store,      \* store[n]: the object in the Store, or None
  faults      \* broken watches and restarts so far

vars == <<api, rv, connected, watch, cache, queue, store, faults>>

(* An event: the object as it is set, or its deletion, which for one the     *)
(* informer inferred is a DeletedFinalStateUnknown (a tombstone).            *)
Events == [obj : Objects \cup {None}, tombstone : BOOLEAN]
Event(o) == [obj |-> o, tombstone |-> FALSE]

TypeOK ==
  /\ api \in [Names -> Objects \cup {None}]
  /\ rv \in [Names -> Nat]
  /\ connected \in BOOLEAN
  /\ watch \in [Names -> Seq(Events)]
  /\ cache \in [Names -> Objects \cup {None}]
  /\ queue \in [Names -> Seq(Events)]
  /\ store \in [Names -> Objects \cup {None}]
  /\ faults \in Nat

Nothing == [n \in Names |-> None]
NoEvents == [n \in Names |-> <<>>]

Init ==
  /\ api = Nothing
  /\ rv = [n \in Names |-> 0]
  /\ connected = FALSE
  /\ watch = NoEvents
  /\ cache = Nothing
  /\ queue = NoEvents
  /\ store = Nothing
  /\ faults = 0

-----------------------------------------------------------------------------
(* The API server                                                            *)

Announce(n, o) ==
  watch' = IF connected THEN [watch EXCEPT ![n] = Append(@, Event(o))]
                        ELSE watch

(* An object is created or updated; its content may not convert.             *)
Put(n) ==
  /\ rv[n] < MaxRv
  /\ rv' = [rv EXCEPT ![n] = @ + 1]
  /\ \E ok \in BOOLEAN : LET o == [rv |-> rv[n] + 1, ok |-> ok] IN
       /\ api' = [api EXCEPT ![n] = o]
       /\ Announce(n, o)
  /\ UNCHANGED <<connected, cache, queue, store, faults>>

Withdraw(n) ==
  /\ api[n] # None
  /\ api' = [api EXCEPT ![n] = None]
  /\ Announce(n, None)
  /\ UNCHANGED <<rv, connected, cache, queue, store, faults>>

-----------------------------------------------------------------------------
(* The informer                                                              *)

(* factory.Start, and again after a broken watch: every listed object is an  *)
(* event, and so is every object the informer knows of that is not listed.   *)
Listed(n) ==
  CASE api[n] # None -> <<Event(api[n])>>
    [] api[n] = None /\ (cache[n] # None \/ watch[n] # <<>>) ->
         <<[obj |-> None, tombstone |-> TRUE]>>
    [] OTHER -> <<>>

List ==
  /\ ~connected
  /\ connected' = TRUE
  /\ watch' = [n \in Names |-> watch[n] \o Listed(n)]
  /\ UNCHANGED <<api, rv, cache, queue, store, faults>>

(* An event reaches the cache and the handlers' queue together.              *)
Receive(n) ==
  /\ watch[n] # <<>>
  /\ cache' = [cache EXCEPT ![n] = Head(watch[n]).obj]
  /\ queue' = [queue EXCEPT ![n] = Append(@, Head(watch[n]))]
  /\ watch' = [watch EXCEPT ![n] = Tail(@)]
  /\ UNCHANGED <<api, rv, connected, store, faults>>

(* Every 30 seconds a cached object is notified once more.                   *)
Resync(n) ==
  /\ cache[n] # None
  /\ Len(queue[n]) < MaxQueue
  /\ queue' = [queue EXCEPT ![n] = Append(@, Event(cache[n]))]
  /\ UNCHANGED <<api, rv, connected, watch, cache, store, faults>>

(* The watch breaks; the last of the events on their way are lost.  (A watch *)
(* resumed from its last version loses none: they are merely late.)          *)
Disconnect ==
  /\ connected
  /\ faults < MaxFaults
  /\ faults' = faults + 1
  /\ connected' = FALSE
  /\ \E kept \in [Names -> 0..(2 * MaxRv + MaxFaults + 1)] :
       /\ \A n \in Names : kept[n] <= Len(watch[n])
       /\ watch' = [n \in Names |-> SubSeq(watch[n], 1, kept[n])]
  /\ UNCHANGED <<api, rv, cache, queue, store>>

(* The pod restarts with an empty store and an empty cache.                  *)
Restart ==
  /\ faults < MaxFaults
  /\ faults' = faults + 1
  /\ connected' = FALSE
  /\ watch' = NoEvents
  /\ cache' = Nothing
  /\ queue' = NoEvents
  /\ store' = Nothing
  /\ UNCHANGED <<api, rv>>

-----------------------------------------------------------------------------
(* The handlers                                                              *)

TakeNotice(n) ==
  /\ queue[n] # <<>>
  /\ queue' = [queue EXCEPT ![n] = Tail(@)]
  /\ UNCHANGED <<api, rv, connected, watch, cache, faults>>

(* Mutant: an object that does not convert is stored as its zero value. *)
HandleSetZero(n) ==
  /\ TakeNotice(n)
  /\ Head(queue[n]).obj # None
  /\ store' = [store EXCEPT ![n] =
                 IF Head(queue[n]).obj.ok THEN Head(queue[n]).obj
                                          ELSE [rv |-> 0, ok |-> TRUE]]

(* handlePool, handleLease, handleNetwork: the object is converted and set;  *)
(* one that does not convert is logged and leaves the store as it is.        *)
HandleSet(n) ==
  /\ TakeNotice(n)
  /\ Head(queue[n]).obj # None
  /\ store' = IF Head(queue[n]).obj.ok
              THEN [store EXCEPT ![n] = Head(queue[n]).obj] ELSE store

(* Mutant: DeleteFunc does not unwrap a DeletedFinalStateUnknown. *)
HandleDeleteSeen(n) ==
  /\ TakeNotice(n)
  /\ Head(queue[n]).obj = None
  /\ store' = IF Head(queue[n]).tombstone THEN store
                                          ELSE [store EXCEPT ![n] = None]

(* DeleteFunc: a tombstone is unwrapped to the last object known.            *)
HandleDelete(n) ==
  /\ TakeNotice(n)
  /\ Head(queue[n]).obj = None
  /\ store' = [store EXCEPT ![n] = None]

Handle(n) == HandleSet(n) \/ HandleDelete(n)

Next ==
  \/ \E n \in Names : Put(n) \/ Withdraw(n) \/ Receive(n) \/ Resync(n)
  \/ \E n \in Names : Handle(n)
  \/ List \/ Disconnect \/ Restart

Spec == Init /\ [][Next]_vars

-----------------------------------------------------------------------------
(* Properties                                                                *)

(* The store shows an object as the API server has it; of one that does not   *)
(* convert nothing is said: the store keeps what it had.                      *)
InStep(n) ==
  /\ api[n] = None => store[n] = None
  /\ api[n] # None => (api[n].ok => store[n] = api[n])

(* README.md:112: "Changes propagate": with nothing under way, what was       *)
(* created, updated or deleted, before, during or after a broken watch or a   *)
(* restart, is in the store as it is in the API server.                       *)
DrainedMirrorsApi ==
  \A n \in Names :
    connected /\ watch[n] = <<>> /\ queue[n] = <<>> => InStep(n)

(* An object in the store is never replaced by an older version of itself,    *)
(* whatever resyncs and lists repeat.                                         *)
NeverBackInTime ==
  [][\A n \in Names :
       store[n] # None /\ store'[n] # None => store[n].rv <= store'[n].rv]_store

-----------------------------------------------------------------------------
(* The parts of the inductive invariant behind DrainedMirrorsApi.             *)

(* An event that changes the store when it is handled.                        *)
Effective(e) == e.obj = None \/ e.obj.ok

(* Handling what is in the queue leaves o in the store.                       *)
Settles(n, o) ==
  \/ store[n] = o /\ \A i \in 1..Len(queue[n]) : ~Effective(queue[n][i])
  \/ \E i \in 1..Len(queue[n]) :
       /\ Effective(queue[n][i])
       /\ queue[n][i].obj = o
       /\ \A j \in i+1..Len(queue[n]) : ~Effective(queue[n][j])

CacheInv ==
  \A n \in Names :
    (IF cache[n] = None THEN TRUE ELSE cache[n].ok) => Settles(n, cache[n])

(* While the informer watches, the last event on its way is the present.      *)
WatchInv ==
  \A n \in Names : connected =>
    api[n] = IF watch[n] = <<>> THEN cache[n]
             ELSE watch[n][Len(watch[n])].obj

(* Of two versions of one object x is not the later one.                      *)
Le(x, y) == x # None /\ y # None => x.rv <= y.rv
Bounded(x, k) == x # None => x.rv <= k

Known(s) == {s[i].obj : i \in 1..Len(s)}
Sorted(s) == \A i, j \in 1..Len(s) : i < j => Le(s[i].obj, s[j].obj)

(* The versions of an object only grow on the way: from the store (st)        *)
(* through the notifications (q), the cache (c) and the watch (w) to the API  *)
(* server (a), k versions so far.                                             *)
InLine(st, q, c, w, a, k) ==
  /\ Sorted(q)
  /\ Sorted(w)
  /\ \A x \in Known(q) \cup {c} \cup Known(w) : Le(st, x)
  /\ \A x \in Known(q), y \in {c} \cup Known(w) : Le(x, y)
  /\ \A y \in Known(w) : Le(c, y)
  /\ \A x \in {st, c} \cup Known(q) \cup Known(w) : Le(x, a) /\ Bounded(x, k)
  /\ Bounded(a, k)

OrderInv ==
  \A n \in Names :
    InLine(store[n], queue[n], cache[n], watch[n], api[n], rv[n])

(* What every reachable state satisfies and every step keeps.                 *)
IInv == TypeOK /\ CacheInv /\ WatchInv /\ OrderInv

=============================================================================

------------------------------ MODULE EventFeed ------------------------------
(***************************************************************************)
(* The change feed of the in-memory store (pkg/store/store.go).            *)
(*                                                                         *)
(* Every mutator of the store works in two critical sections: it changes   *)
(* one part of the data under Store.mu, and then, under Store.subMu, tells *)
(* every subscriber which kind of resource changed.  Subscribers own a     *)
(* bounded channel; a channel that is full is skipped, never waited for.   *)
(*                                                                         *)
(* The data of a part of the store is abstracted to the number of changes  *)
(* made to it (ver): a reader that holds an older number holds stale data. *)
(***************************************************************************)
EXTENDS Naturals, SequencesExt

CONSTANTS
  Writers,    \* goroutines that change the store: informers, fetcher, collectors
  SectionOf,  \* the part of the store each writer changes
  Tabs,       \* browser tabs, each owner of at most one subscriber channel
  Cap,        \* capacity of a subscriber channel (64 in Subscribe)
  MaxVer,     \* bound on the number of changes of one section
  None        \* nobody holds subMu

(* The event types of the store; each part of the store has one of its own, *)
(* and "overview" accompanies every change.                                 *)
Sections == {"pools", "leases", "networks", "prow", "vcenter"}
EventTypes == Sections \cup {"overview"}

ASSUME FeedAssumption ==
  /\ SectionOf \in [Writers -> Sections]
  /\ Cap \in Nat \ {0}
  /\ MaxVer \in Nat
  /\ None \notin Writers

VARIABLES
  ver,          \* ver[s]: changes made so far to section s (guarded by Store.mu)
  wpc,          \* where each writer is in its mutator
  subMu,        \* the writer inside notify, or None
  outbox,       \* outbox[t]: sends notify still has to attempt on t's channel
  subscribers,  \* Store.subscribers: tabs whose channel is registered
  queue,        \* queue[t]: events buffered in t's channel
  closed,       \* tabs whose channel has been closed
  dropped       \* dropped[t]: history, event types skipped since t last read

feedVars == <<ver, wpc, subMu, outbox, subscribers, queue, closed, dropped>>

(* notify(EventX, EventOverview) *)
Events(w) == <<SectionOf[w], "overview">>

FeedTypeOK ==
  /\ ver \in [Sections -> Nat]
  /\ wpc \in [Writers -> {"idle", "changed", "notifying"}]
  /\ subMu \in Writers \cup {None}
  /\ outbox \in [Tabs -> Seq(EventTypes)]
  /\ subscribers \subseteq Tabs
  /\ queue \in [Tabs -> Seq(EventTypes)]
  /\ closed \subseteq Tabs
  /\ dropped \in [Tabs -> SUBSET EventTypes]

FeedInit ==
  /\ ver = [s \in Sections |-> 0]
  /\ wpc = [w \in Writers |-> "idle"]
  /\ subMu = None
  /\ outbox = [t \in Tabs |-> <<>>]
  /\ subscribers = {}
  /\ queue = [t \in Tabs |-> <<>>]
  /\ closed = {}
  /\ dropped = [t \in Tabs |-> {}]

-----------------------------------------------------------------------------
(* Writers                                                                   *)

(* SetPool, DeletePool, SetLease, ..., SetVCenterData up to mu.Unlock().     *)
Change(w) ==
  /\ wpc[w] = "idle"
  /\ ver[SectionOf[w]] < MaxVer
  /\ ver' = [ver EXCEPT ![SectionOf[w]] = @ + 1]
  /\ wpc' = [wpc EXCEPT ![w] = "changed"]
  /\ UNCHANGED <<subMu, outbox, subscribers, queue, closed, dropped>>

(* notify takes subMu; from here the set of subscribers cannot change.       *)
NotifyLock(w) ==
  /\ wpc[w] = "changed"
  /\ subMu = None
  /\ subMu' = w
  /\ wpc' = [wpc EXCEPT ![w] = "notifying"]
  /\ outbox' = [t \in Tabs |-> IF t \in subscribers THEN Events(w) ELSE <<>>]
  /\ UNCHANGED <<ver, subscribers, queue, closed, dropped>>

(* The inner loop sends both events to one channel before the outer loop     *)
(* goes on to the next channel, in the arbitrary order of a Go map.          *)
MidChannel(t) == Len(outbox[t]) = 1

NextSend(t) ==
  /\ outbox[t] # <<>>
  /\ \A u \in Tabs \ {t} : ~MidChannel(u)
  /\ outbox' = [outbox EXCEPT ![t] = Tail(@)]

(* case ch <- evt *)
Deliver(t) ==
  /\ NextSend(t)
  /\ Len(queue[t]) < Cap
  /\ queue' = [queue EXCEPT ![t] = Append(@, Head(outbox[t]))]
  /\ UNCHANGED <<ver, wpc, subMu, subscribers, closed, dropped>>

(* Mutant: the send has no default and waits for room. *)
SkipNever(t) ==
  /\ NextSend(t)
  /\ FALSE
  /\ UNCHANGED <<ver, wpc, subMu, subscribers, queue, closed, dropped>>

(* default: the subscriber is slow, skip *)
Skip(t) ==
  /\ NextSend(t)
  /\ Len(queue[t]) >= Cap
  /\ dropped' = [dropped EXCEPT ![t] = @ \cup {Head(outbox[t])}]
  /\ UNCHANGED <<ver, wpc, subMu, subscribers, queue, closed>>

(* notify returns, its deferred Unlock releases subMu.                       *)
NotifyUnlock(w) ==
  /\ subMu = w
  /\ \A t \in Tabs : outbox[t] = <<>>
  /\ subMu' = None
  /\ wpc' = [wpc EXCEPT ![w] = "idle"]
  /\ UNCHANGED <<ver, outbox, subscribers, queue, closed, dropped>>

-----------------------------------------------------------------------------
(* Subscribers                                                               *)

(* Subscribe: a fresh channel, registered under subMu.                       *)
Subscribe(t) ==
  /\ subMu = None
  /\ subscribers' = subscribers \cup {t}
  /\ queue' = [queue EXCEPT ![t] = <<>>]
  /\ closed' = closed \ {t}
  /\ dropped' = [dropped EXCEPT ![t] = {}]
  /\ UNCHANGED <<ver, wpc, subMu, outbox>>

(* evt := <-sub *)
Receive(t) ==
  /\ queue[t] # <<>>
  /\ queue' = [queue EXCEPT ![t] = Tail(@)]
  /\ UNCHANGED <<ver, wpc, subMu, outbox, subscribers, closed, dropped>>

(* Unsubscribe, first half: the channel leaves the map under subMu ...       *)
Deregister(t) ==
  /\ subMu = None
  /\ subscribers' = subscribers \ {t}
  /\ UNCHANGED <<ver, wpc, subMu, outbox, queue, closed, dropped>>

(* ... second half: close(ch), after subMu has been released.  What is left   *)
(* in the channel is never received.                                          *)
CloseChannel(t) ==
  /\ closed' = closed \cup {t}
  /\ queue' = [queue EXCEPT ![t] = <<>>]
  /\ dropped' = [dropped EXCEPT ![t] = {}]
  /\ UNCHANGED <<ver, wpc, subMu, outbox, subscribers>>

=============================================================================

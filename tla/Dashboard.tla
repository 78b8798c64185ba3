------------------------------ MODULE Dashboard ------------------------------
(***************************************************************************)
(* From the API server to the browser: the watcher, the store it writes,   *)
(* and the tabs that show the watcher's kind of resource, with broken      *)
(* watches, restarts of the pod and broken streams.                        *)
(*                                                                         *)
(* Of the streams this module keeps what SSE shows of them: the handler    *)
(* reads the store after it has subscribed, a fragment is an earlier state *)
(* of the store, and a change that is not in it is announced by an event   *)
(* or was thrown away at a full channel (SSE!NoSilentStaleness).  Several  *)
(* events that wait for a handler are one here: the renders of the others  *)
(* find nothing new.                                                       *)
(***************************************************************************)
EXTENDS Watcher

CONSTANT Tabs  \* browser tabs that show the page of this kind

VARIABLES
  stream,  \* stream[t]: where the handler of t's stream is, or "away"
  news,    \* news[t]: whether an event waits for it, or the last was lost
  frag,    \* frag[t]: the store as the handler has rendered it
  page,    \* page[t]: the objects t displays
  newest   \* newest[t][n]: history, the latest version of n the page in t
           \* displayed since it was loaded

tabVars == <<stream, news, frag, page, newest>>
dashVars == <<vars, tabVars>>

News == {"none", "event", "lost"}

DashTypeOK ==
  /\ TypeOK
  /\ stream \in [Tabs -> {"away", "read", "write", "wait"}]
  /\ news \in [Tabs -> News]
  /\ frag \in [Tabs -> [Names -> Objects \cup {None}]]
  /\ page \in [Tabs -> [Names -> Objects \cup {None}]]
  /\ newest \in [Tabs -> [Names -> Nat]]

DashInit ==
  /\ Init
  /\ stream = [t \in Tabs |-> "away"]
  /\ news = [t \in Tabs |-> "none"]
  /\ frag = [t \in Tabs |-> Nothing]
  /\ page = [t \in Tabs |-> Nothing]
  /\ newest = [t \in Tabs |-> [n \in Names |-> 0]]

-----------------------------------------------------------------------------
(* The tabs                                                                  *)

Step(t, from, to) ==
  /\ stream[t] = from
  /\ stream' = [stream EXCEPT ![t] = to]

Display(t, objects) ==
  /\ page' = [page EXCEPT ![t] = objects]
  /\ newest' = [newest EXCEPT ![t] = [n \in Names |->
       IF objects[n] # None /\ objects[n].rv > @[n] THEN objects[n].rv ELSE @[n]]]

(* The tab's stream is gone, with what was on its way.                       *)
Gone(t) ==
  /\ stream' = [stream EXCEPT ![t] = "away"]
  /\ news' = [news EXCEPT ![t] = "none"]
  /\ frag' = [frag EXCEPT ![t] = Nothing]

(* The page is loaded: it comes with the objects of the store, and what the  *)
(* tab displayed before is no concern of it.                                 *)
Load(t) ==
  /\ page' = [page EXCEPT ![t] = store]
  /\ newest' = [newest EXCEPT ![t] = [n \in Names |->
       IF store[n] = None THEN 0 ELSE store[n].rv]]
  /\ Gone(t)
  /\ UNCHANGED vars

(* Mutant: a new stream waits for the first event. *)
ConnectAndWait(t) ==
  /\ Step(t, "away", "wait")
  /\ UNCHANGED <<vars, news, frag, page, newest>>

(* The EventSource connects, again and again: the handler subscribes.        *)
Connect(t) ==
  /\ Step(t, "away", "read")
  /\ UNCHANGED <<vars, news, frag, page, newest>>

Read(t) ==
  /\ Step(t, "read", "write")
  /\ frag' = [frag EXCEPT ![t] = store]
  /\ news' = [news EXCEPT ![t] = IF @ = "lost" THEN "none" ELSE @]
  /\ UNCHANGED <<vars, page, newest>>

Write(t) ==
  /\ Step(t, "write", "wait")
  /\ Display(t, frag[t])
  /\ frag' = [frag EXCEPT ![t] = Nothing]
  /\ UNCHANGED <<vars, news>>

Wake(t) ==
  /\ Step(t, "wait", "read")
  /\ news[t] = "event"
  /\ news' = [news EXCEPT ![t] = "none"]
  /\ UNCHANGED <<vars, frag, page, newest>>

(* The connection breaks.                                                    *)
Break(t) ==
  /\ stream[t] # "away"
  /\ Gone(t)
  /\ UNCHANGED <<vars, page, newest>>

-----------------------------------------------------------------------------
(* The server                                                                *)

(* What the event of a mutator, sent or dropped at a full channel, means for  *)
(* a stream; dropping it does no harm while another one waits.                *)
Told(t) ==
  CASE stream[t] = "away" -> {"none"}
    [] stream[t] # "away" /\ news[t] = "event" -> {"event"}
    [] OTHER -> {"event", "lost"}

TellTabs ==
  news' \in {told \in [Tabs -> News] : \A t \in Tabs : told[t] \in Told(t)}

(* Mutant: only SetPool notifies, DeletePool does not. *)
NotifySet(n) ==
  IF Head(queue[n]).obj # None /\ Effective(Head(queue[n]))
  THEN TellTabs ELSE UNCHANGED news

(* SetPool and DeletePool notify, whether the object is new or not; of an     *)
(* object that does not convert the store does not hear.                      *)
Notify(n) == IF Effective(Head(queue[n])) THEN TellTabs ELSE UNCHANGED news

HandleEvent(n) ==
  /\ Handle(n)
  /\ Notify(n)
  /\ UNCHANGED <<stream, frag, page, newest>>

(* The pod ends with all of its streams; the tabs keep what they display.     *)
RestartPod ==
  /\ Restart
  /\ stream' = [t \in Tabs |-> "away"]
  /\ news' = [t \in Tabs |-> "none"]
  /\ frag' = [t \in Tabs |-> Nothing]
  /\ UNCHANGED <<page, newest>>

Informer ==
  \/ \E n \in Names : Put(n) \/ Withdraw(n) \/ Receive(n) \/ Resync(n)
  \/ List \/ Disconnect

Tab(t) == Connect(t) \/ Read(t) \/ Write(t) \/ Wake(t)

DashNext ==
  \/ Informer /\ UNCHANGED tabVars
  \/ \E n \in Names : HandleEvent(n)
  \/ RestartPod
  \/ \E t \in Tabs : Tab(t) \/ Load(t) \/ Break(t)

DashSpec == DashInit /\ [][DashNext]_dashVars

(* The informer reconnects and receives, the handlers run, and an EventSource *)
(* connects again; a resync need not happen.  Streams may break as often as   *)
(* they like, and pages be loaded at any time.                                *)
DashFairSpec ==
  /\ DashSpec
  /\ WF_dashVars(List /\ UNCHANGED tabVars)
  /\ \A n \in Names :
       /\ WF_dashVars(Receive(n) /\ UNCHANGED tabVars)
       /\ WF_dashVars(HandleEvent(n))
  /\ \A t \in Tabs : WF_dashVars(Tab(t))

-----------------------------------------------------------------------------
(* Properties                                                                *)

(* The tab shows n as the API server has it; of an object that does not       *)
(* convert nothing is said.                                                   *)
Shows(t, n) ==
  /\ api[n] = None => page[t][n] = None
  /\ api[n] # None => (api[n].ok => page[t][n] = api[n])

(* README.md:112, end to end: with nothing under way from the API server to   *)
(* the store, and nothing from there to an open tab, the tab shows what the   *)
(* API server has, whatever broke or restarted before.                        *)
QuietPageMirrorsApi ==
  \A n \in Names, t \in Tabs :
    /\ connected /\ watch[n] = <<>> /\ queue[n] = <<>>
    /\ stream[t] = "wait" /\ news[t] = "none"
    => Shows(t, n)

(* No page goes back: what it displays of an object is never older than what  *)
(* it displayed of it before, over broken watches, new streams and restarts   *)
(* after which the store is empty (watcher.go:125-127, main.go:150: nothing   *)
(* waits for the caches before it serves).                                    *)
PageNeverGoesBack ==
  \A n \in Names, t \in Tabs :
    page[t][n] # None => page[t][n].rv >= newest[t][n]

(* README.md:13, :112: once the API server is quiet a tab whose stream stays,  *)
(* and loses no event, comes to show it.                                       *)
EventuallyOnPage ==
  \A t \in Tabs :
    <>[](stream[t] # "away" /\ news[t] # "lost")
      => <>[](\A n \in Names : Shows(t, n))

-----------------------------------------------------------------------------
(* The parts of the inductive invariant behind the two safety properties; the *)
(* proofs are in DashboardProofs.                                             *)

(* With no event waiting and none lost, a handler has what the store has, and *)
(* so has the tab once it is written.                                         *)
RenderedInv ==
  \A t \in Tabs : news[t] = "none" =>
    /\ stream[t] = "write" => frag[t] = store
    /\ stream[t] = "wait" => page[t] = store

(* All that may still reach the store, and what is there.                     *)
Versions(n) ==
  {store[n], cache[n], api[n]} \cup Known(queue[n]) \cup Known(watch[n])

NotOlder(x, k) == x # None => x.rv >= k

(* Nothing on the way to a tab is older than what the tab has displayed.      *)
Ages(n, t) ==
  /\ newest[t][n] <= rv[n]
  /\ Bounded(frag[t][n], rv[n])
  /\ NotOlder(page[t][n], newest[t][n])
  /\ NotOlder(frag[t][n], newest[t][n])
  /\ \A x \in Versions(n) : NotOlder(x, newest[t][n]) /\ Le(frag[t][n], x)

AgeInv == \A n \in Names, t \in Tabs : Ages(n, t)

DashInv == DashTypeOK /\ RenderedInv /\ AgeInv

=============================================================================

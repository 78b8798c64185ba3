--------------------------------- MODULE SSE ---------------------------------
(***************************************************************************)
(* The Server-Sent-Events handler (pkg/server/sse.go) on top of the        *)
(* store's change feed.  Each browser tab shows one page and holds at most *)
(* one stream; its handler subscribes, sends a first fragment, and then    *)
(* sends a new fragment for every event of the page's own type.            *)
(*                                                                         *)
(* A fragment is rendered from one or two reads of the store, each under   *)
(* its own read lock.  The EventSource of the tab reconnects by itself, so *)
(* a tab may open and lose any number of streams.                          *)
(***************************************************************************)
EXTENDS EventFeed

CONSTANT PageOf  \* the page (SSE resource) each tab shows

Pages == EventTypes

ASSUME PageAssumption == PageOf \in [Tabs -> Pages]

VARIABLES
  pc,       \* where the handler of the tab's stream is, "away" without stream
  ctxDone,  \* tabs whose request context has been cancelled
  got,      \* got[t]: versions the handler read for its latest fragment
  shown     \* shown[t]: versions of the data the browser displays

sseVars == <<pc, ctxDone, got, shown>>
vars == <<feedVars, sseVars>>

(* What sendSSEFragment reads first and, for three of the pages, second.     *)
(* GetOverview reads every section inside one critical section.              *)
First(p) == IF p = "overview" THEN Sections ELSE {p}
Second(p) == IF p \in {"pools", "networks", "prow"} THEN {"leases"} ELSE {}

(* Mutant: the overview page forgets its own event type. *)
IsOwnResource(t, evt) == evt = PageOf[t] /\ evt # "overview"

(* evt == eventType || evt == EventOverview && resource == "overview"        *)
IsOwn(t, evt) == evt = PageOf[t]

States == {"away", "connecting", "first", "second", "write", "wait",
           "leaving", "closing"}

(* The handler's channel is registered from Subscribe to Unsubscribe.        *)
Registered == {"first", "second", "write", "wait", "leaving"}

(* The handler holds the result of its first read.                           *)
HasRead == {"second", "write", "wait"}

NoVersions == [s \in Sections |-> 0]

TypeOK ==
  /\ FeedTypeOK
  /\ pc \in [Tabs -> States]
  /\ ctxDone \subseteq Tabs
  /\ got \in [Tabs -> [Sections -> Nat]]
  /\ shown \in [Tabs -> [Sections -> Nat]]

Init ==
  /\ FeedInit
  /\ pc = [t \in Tabs |-> "away"]
  /\ ctxDone = {}
  /\ got = [t \in Tabs |-> NoVersions]
  /\ shown = [t \in Tabs |-> NoVersions]

Goto(t, from, to) ==
  /\ pc[t] = from
  /\ pc' = [pc EXCEPT ![t] = to]

-----------------------------------------------------------------------------
(* Mutant: the page is blank until the new stream sends its first fragment. *)
ConnectBlank(t) ==
  /\ Goto(t, "away", "connecting")
  /\ shown' = [shown EXCEPT ![t] = NoVersions]
  /\ UNCHANGED <<feedVars, ctxDone, got>>

(* A stream request for a known resource reaches the handler.                *)
Connect(t) ==
  /\ Goto(t, "away", "connecting")
  /\ UNCHANGED <<feedVars, ctxDone, got, shown>>

(* Mutant: the first fragment is rendered before the stream subscribes.      *)
SubscribeAfterRender(t) ==
  /\ Goto(t, "connecting", "write")
  /\ Subscribe(t)
  /\ UNCHANGED <<ctxDone, got, shown>>

(* A fresh channel, before anything is read.                                 *)
HandlerSubscribe(t) ==
  /\ Goto(t, "connecting", "first")
  /\ Subscribe(t)
  /\ UNCHANGED <<ctxDone, got, shown>>

(* sendSSEFragment, first read of the store.                                 *)
ReadFirst(t) ==
  /\ Goto(t, "first", IF Second(PageOf[t]) = {} THEN "write" ELSE "second")
  /\ got' = [got EXCEPT ![t] = [s \in Sections |->
               IF s \in First(PageOf[t]) THEN ver[s] ELSE @[s]]]
  /\ dropped' = [dropped EXCEPT ![t] = {}]
  /\ UNCHANGED <<ver, wpc, subMu, outbox, subscribers, queue, closed,
                 ctxDone, shown>>

(* sendSSEFragment, GetLeases for the pages that also list leases.           *)
ReadSecond(t) ==
  /\ Goto(t, "second", "write")
  /\ got' = [got EXCEPT ![t] = [s \in Sections |->
               IF s \in Second(PageOf[t]) THEN ver[s] ELSE @[s]]]
  /\ UNCHANGED <<feedVars, ctxDone, shown>>

(* The fragment is written and flushed; a write to a connection that is gone *)
(* fails, the error is ignored, and the browser sees nothing of it.          *)
Write(t) ==
  /\ Goto(t, "write", "wait")
  /\ shown' = IF t \in ctxDone THEN shown ELSE [shown EXCEPT ![t] = got[t]]
  /\ UNCHANGED <<feedVars, ctxDone, got>>

(* Mutant: the handler reads the event and renders nothing. *)
WakeWithoutRender(t) ==
  /\ pc[t] = "wait"
  /\ Receive(t)
  /\ IsOwn(t, Head(queue[t]))
  /\ UNCHANGED sseVars

(* select: an event of the page's own type.                                  *)
Wake(t) ==
  /\ Goto(t, "wait", "first")
  /\ Receive(t)
  /\ IsOwn(t, Head(queue[t]))
  /\ UNCHANGED <<ctxDone, got, shown>>

(* select: an event of another type is consumed and ignored.                 *)
Ignore(t) ==
  /\ pc[t] = "wait"
  /\ Receive(t)
  /\ ~IsOwn(t, Head(queue[t]))
  /\ UNCHANGED sseVars

(* The client goes away, or the server gives up on the connection.           *)
Disconnect(t) ==
  /\ pc[t] # "away"
  /\ t \notin ctxDone
  /\ ctxDone' = ctxDone \cup {t}
  /\ UNCHANGED <<feedVars, pc, got, shown>>

(* Mutant: the handler never looks at its context. *)
ReturnNever(t) ==
  /\ Goto(t, "wait", "leaving")
  /\ FALSE
  /\ UNCHANGED <<feedVars, ctxDone, got, shown>>

(* select: ctx.Done().                                                       *)
Return(t) ==
  /\ Goto(t, "wait", "leaving")
  /\ t \in ctxDone
  /\ UNCHANGED <<feedVars, ctxDone, got, shown>>

(* Mutant: Unsubscribe closes the channel while it is still registered. *)
CloseBeforeDeregister(t) ==
  /\ Goto(t, "leaving", "closing")
  /\ CloseChannel(t)
  /\ UNCHANGED <<ctxDone, got, shown>>

(* The deferred Unsubscribe, in its two halves; then the handler, its         *)
(* context and its buffers are gone.                                          *)
HandlerDeregister(t) ==
  /\ Goto(t, "leaving", "closing")
  /\ Deregister(t)
  /\ UNCHANGED <<ctxDone, got, shown>>

HandlerClose(t) ==
  /\ Goto(t, "closing", "away")
  /\ CloseChannel(t)
  /\ ctxDone' = ctxDone \ {t}
  /\ got' = [got EXCEPT ![t] = NoVersions]
  /\ UNCHANGED shown

-----------------------------------------------------------------------------
WriterStep(w) ==
  \/ Change(w)
  \/ NotifyLock(w)
  \/ NotifyUnlock(w)

NotifyStep(t) == Deliver(t) \/ Skip(t)

HandlerStep(t) ==
  \/ HandlerSubscribe(t)
  \/ ReadFirst(t)
  \/ ReadSecond(t)
  \/ Write(t)
  \/ Wake(t)
  \/ Ignore(t)
  \/ Return(t)
  \/ HandlerDeregister(t)
  \/ HandlerClose(t)

ClientStep(t) == Connect(t) \/ Disconnect(t)

Next ==
  \/ \E w \in Writers : WriterStep(w) /\ UNCHANGED sseVars
  \/ \E t \in Tabs : NotifyStep(t) /\ UNCHANGED sseVars
  \/ \E t \in Tabs : HandlerStep(t) \/ ClientStep(t)

Spec == Init /\ [][Next]_vars

-----------------------------------------------------------------------------
(* Fairness.  notify runs to its end once it holds subMu, and Go's mutexes    *)
(* give the lock to a goroutine that waits for it (starvation mode): strong   *)
(* fairness for the actions that take subMu.  Changes of the store, browsers  *)
(* and the network owe nothing.                                               *)
WriterFairness ==
  /\ \A w \in Writers :
       /\ SF_vars(NotifyLock(w) /\ UNCHANGED sseVars)
       /\ WF_vars(NotifyUnlock(w) /\ UNCHANGED sseVars)
  /\ \A t \in Tabs : WF_vars(NotifyStep(t) /\ UNCHANGED sseVars)

(* A handler is a goroutine like any other; its writes end because a client   *)
(* that does not read is disconnected by TCP in the end.  select takes one of *)
(* its ready cases at random, so a case ready again and again is taken.       *)
HandlerFairness ==
  \A t \in Tabs :
    /\ SF_vars(HandlerSubscribe(t))
    /\ WF_vars(ReadFirst(t))
    /\ WF_vars(ReadSecond(t))
    /\ WF_vars(Write(t))
    /\ WF_vars(Wake(t) \/ Ignore(t))
    /\ SF_vars(Return(t))
    /\ SF_vars(HandlerDeregister(t))
    /\ WF_vars(HandlerClose(t))

(* Nothing is owed by the handlers here: one may stall for ever, e.g. on a    *)
(* browser that stopped reading.  A property that needs them says so.         *)
FairSpec == Spec /\ WriterFairness

-----------------------------------------------------------------------------
(* Properties                                                                *)

(* notify never sends on a closed channel, which would panic the process:     *)
(* Unsubscribe closes after the channel has left the map, and notify sends    *)
(* only to channels in the map and holds subMu while it does.                 *)
NoSendOnClosedChannel ==
  \A t \in Tabs : t \in subscribers \/ outbox[t] # <<>> => t \notin closed

(* The fragment of the handler misses a change of the page's own data.        *)
Behind(t) == \E s \in First(PageOf[t]) : got[t][s] # ver[s]

(* News of such a change is still on its way to the handler.                  *)
Pending(t) ==
  \/ Contains(queue[t], PageOf[t])
  \/ Contains(outbox[t], PageOf[t])
  \/ \E w \in Writers : wpc[w] = "changed" /\ Contains(Events(w), PageOf[t])

(* News of such a change found the channel full and was thrown away.          *)
Lost(t) == PageOf[t] \in dropped[t]

(* No lost update: whenever the data a stream last rendered is out of date,   *)
(* an event that will make it render again is on its way, unless that event   *)
(* was dropped on a full channel.  It needs the order of handleSSE (subscribe *)
(* before the first render), of every mutator (change before notify), and     *)
(* that no event is consumed without a render after it.                       *)
NoSilentStaleness ==
  \A t \in Tabs : pc[t] \in HasRead /\ Behind(t) => Pending(t) \/ Lost(t)

(* README.md:13: "Updates are pushed to the browser in real-time via          *)
(* Server-Sent Events (SSE)": no change of the page's data goes unannounced.  *)
EveryChangeAnnounced ==
  \A t \in Tabs : pc[t] \in HasRead /\ Behind(t) => Pending(t)

(* The same sentence for all a page displays, its lease columns included: a   *)
(* stream with nothing left to do displays the current data.                  *)
QuietStreamIsCurrent ==
  \A t \in Tabs :
    pc[t] = "wait" /\ t \notin ctxDone /\ ~Pending(t) /\ ~Lost(t) =>
      \A s \in First(PageOf[t]) \cup Second(PageOf[t]) : shown[t][s] = ver[s]

(* The primary half of it, which holds: when no event is left for an open     *)
(* stream and none was dropped, the browser displays the page's own data as   *)
(* it is in the store.                                                        *)
QuietStreamShowsOwnData ==
  \A t \in Tabs :
    pc[t] = "wait" /\ t \notin ctxDone /\ ~Pending(t) /\ ~Lost(t) =>
      \A s \in First(PageOf[t]) : shown[t][s] = ver[s]

(* The displayed data is always a state the store had, and no fragment takes  *)
(* a section of a page back to an older state, across reconnects too.         *)
View == INSTANCE LiveView WITH view <- shown
ViewRefined == View!Spec

(* A mutator always returns, even when no handler ever reads its channel: the *)
(* informers, the fetcher and the collectors are not held up by browsers.     *)
WritersNeverBlocked ==
  \A w \in Writers : wpc[w] # "idle" ~> wpc[w] = "idle"

(* A change of the page's own data reaches the browser, unless the stream is  *)
(* lost or the event was dropped on a full channel.                           *)
EventuallyShown ==
  HandlerFairness =>
  \A t \in Tabs : \A s \in First(PageOf[t]) :
    pc[t] # "away" /\ shown[t][s] # ver[s]
      ~> shown[t][s] = ver[s] \/ t \in ctxDone \/ Lost(t)

(* A stream whose client is gone ends, and leaves no channel registered.      *)
DisconnectCleansUp ==
  HandlerFairness => \A t \in Tabs : t \in ctxDone ~> t \notin subscribers

-----------------------------------------------------------------------------
(* The parts of the inductive invariant behind the safety properties; the     *)
(* proofs are in SSEProofs.                                                   *)

(* subMu, and the writer that is inside notify.                               *)
LockInv ==
  /\ \A w \in Writers : wpc[w] = "notifying" <=> subMu = w
  /\ \A t \in Tabs : outbox[t] # <<>> => subMu # None /\ t \in subscribers

(* A channel is registered exactly while its handler runs between Subscribe   *)
(* and Unsubscribe, and closed only after that.                               *)
StreamInv ==
  \A t \in Tabs :
    /\ t \in subscribers <=> pc[t] \in Registered
    /\ t \in closed => pc[t] \in {"away", "connecting"}

(* An idle handler has written what it read.                                  *)
WrittenInv ==
  \A t \in Tabs : pc[t] = "wait" /\ t \notin ctxDone => shown[t] = got[t]

(* Ages: what is displayed is not newer than what the handler has read, and   *)
(* nothing is newer than the store.                                           *)
Ages(t, s) ==
  /\ got[t][s] <= ver[s]
  /\ shown[t][s] <= ver[s]
  /\ s \notin First(PageOf[t]) \cup Second(PageOf[t]) =>
       got[t][s] = 0 /\ shown[t][s] = 0
  /\ pc[t] \in HasRead /\ s \in First(PageOf[t]) => shown[t][s] <= got[t][s]
  /\ pc[t] = "write" /\ s \in Second(PageOf[t]) => shown[t][s] <= got[t][s]
  /\ pc[t] = "second" => Second(PageOf[t]) # {}

AgeInv == \A t \in Tabs : \A s \in Sections : Ages(t, s)

(* The inductive invariant.                                                   *)
IInv ==
  /\ TypeOK
  /\ LockInv
  /\ StreamInv
  /\ WrittenInv
  /\ AgeInv
  /\ NoSilentStaleness

=============================================================================

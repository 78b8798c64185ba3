--------------------------- MODULE DashboardProofs ---------------------------
(***************************************************************************)
(* Proofs about Dashboard: the watcher in the composition is the watcher   *)
(* of module Watcher, so its theorems hold here, and a page mirrors the    *)
(* API server and never goes back.                                         *)
(***************************************************************************)
EXTENDS Dashboard, WatcherProofs

LEMMA DashStep == [DashNext]_dashVars => [Next]_vars
BY DEF DashNext, dashVars, Informer, HandleEvent, RestartPod, Tab, Connect,
       Read, Write, Wake, Load, Break, Next

(* DashSpec implements Watcher's Spec: streams and tabs, whatever they   *)
(* do, take nothing from the watcher (store.go:84, a slow subscriber is       *)
(* skipped).                                                                  *)
THEOREM WatcherUndisturbed == DashSpec => Spec
<1>1. DashInit => Init
  BY DEF DashInit
<1>2. QED BY <1>1, DashStep, PTL DEF DashSpec, Spec

-----------------------------------------------------------------------------
LEMMA DashNextType ==
  ASSUME TypeOK, DashTypeOK, [DashNext]_dashVars PROVE DashTypeOK'
<1>1. TypeOK'
  BY DashStep, NextType
<1>2. store \in [Names -> Objects \cup {None}] /\ Nothing \in [Names -> Objects \cup {None}]
  BY DEF TypeOK, Nothing
<1>3. \A n \in Names : store[n] # None => store[n].rv \in Nat
  BY <1>2 DEF Objects
<1>4. \A t \in Tabs : \A n \in Names :
        frag[t][n] # None => frag[t][n].rv \in Nat
  BY DEF DashTypeOK, Objects
<1> USE DEF DashTypeOK, tabVars
<1>5. CASE Informer /\ UNCHANGED tabVars
  BY <1>1, <1>5
<1>6. ASSUME NEW n \in Names, HandleEvent(n) PROVE DashTypeOK'
  BY <1>1, <1>6 DEF HandleEvent, Notify, TellTabs
<1>7. CASE RestartPod
  BY <1>1, <1>2, <1>7 DEF RestartPod, News
<1>8. ASSUME NEW t \in Tabs, Connect(t) \/ Wake(t) PROVE DashTypeOK'
  BY <1>1, <1>8 DEF Connect, Wake, Step, News
<1>9. ASSUME NEW t \in Tabs, Read(t) PROVE DashTypeOK'
  BY <1>1, <1>2, <1>9 DEF Read, Step, News
<1>10. ASSUME NEW t \in Tabs, Write(t) PROVE DashTypeOK'
  <2>1. /\ page' = [page EXCEPT ![t] = frag[t]]
        /\ frag' = [frag EXCEPT ![t] = Nothing]
        /\ stream' = [stream EXCEPT ![t] = "wait"]
        /\ UNCHANGED news
    BY <1>10 DEF Write, Step, Display
  <2>2. newest' \in [Tabs -> [Names -> Nat]]
    <3> DEFINE N == [n \in Names |->
                       IF frag[t][n] # None /\ frag[t][n].rv > newest[t][n]
                       THEN frag[t][n].rv ELSE newest[t][n]]
    <3>1. N \in [Names -> Nat]
      BY <1>4
    <3>2. newest' = [newest EXCEPT ![t] = N]
      BY <1>10 DEF Write, Display
    <3>3. QED BY <3>1, <3>2
  <2>3. QED BY <1>1, <1>2, <2>1, <2>2
<1>11. ASSUME NEW t \in Tabs, Load(t) PROVE DashTypeOK'
  <2>1. /\ page' = [page EXCEPT ![t] = store]
        /\ frag' = [frag EXCEPT ![t] = Nothing]
        /\ stream' = [stream EXCEPT ![t] = "away"]
        /\ news' = [news EXCEPT ![t] = "none"]
    BY <1>11 DEF Load, Gone
  <2>2. newest' \in [Tabs -> [Names -> Nat]]
    <3> DEFINE N == [n \in Names |->
                       IF store[n] = None THEN 0 ELSE store[n].rv]
    <3>1. N \in [Names -> Nat]
      BY <1>3
    <3>2. newest' = [newest EXCEPT ![t] = N]
      BY <1>11 DEF Load
    <3>3. QED BY <3>1, <3>2
  <2>3. QED BY <1>1, <1>2, <2>1, <2>2 DEF News
<1>12. ASSUME NEW t \in Tabs, Break(t) PROVE DashTypeOK'
  BY <1>1, <1>2, <1>12 DEF Break, Gone, News
<1>13. CASE UNCHANGED dashVars
  BY <1>1, <1>13 DEF dashVars
<1>14. QED
  BY <1>5, <1>6, <1>7, <1>8, <1>9, <1>10, <1>11, <1>12, <1>13
     DEF DashNext, Tab

-----------------------------------------------------------------------------
LEMMA DashNextRendered ==
  ASSUME TypeOK, DashTypeOK, RenderedInv, [DashNext]_dashVars
  PROVE  RenderedInv'
<1> USE DEF DashTypeOK, tabVars
<1>1. CASE Informer /\ UNCHANGED tabVars
  <2>1. store' = store
    BY <1>1 DEF Informer, Put, Withdraw, Receive, Resync, List, Disconnect
  <2>2. QED BY <1>1, <2>1 DEF RenderedInv
<1>2. ASSUME NEW n \in Names, HandleEvent(n) PROVE RenderedInv'
  <2>1. CASE Effective(Head(queue[n]))
    <3>1. \A t \in Tabs : news'[t] = "none" => stream'[t] = "away"
      BY <1>2, <2>1 DEF HandleEvent, Notify, TellTabs, Told
    <3>2. QED BY <3>1 DEF RenderedInv
  <2>2. CASE ~Effective(Head(queue[n]))
    <3>1. store' = store
      BY <1>2, <2>2 DEF HandleEvent, Handle, HandleSet, HandleDelete, Effective
    <3>2. UNCHANGED <<news, stream, frag, page>>
      BY <1>2, <2>2 DEF HandleEvent, Notify
    <3>3. QED BY <3>1, <3>2 DEF RenderedInv
  <2>3. QED BY <2>1, <2>2
<1>3. CASE RestartPod
  BY <1>3 DEF RestartPod, RenderedInv
<1>4. ASSUME NEW t \in Tabs, Connect(t) \/ Wake(t) PROVE RenderedInv'
  BY <1>4 DEF Connect, Wake, Step, RenderedInv, vars
<1>5. ASSUME NEW t \in Tabs, Read(t) PROVE RenderedInv'
  BY <1>5 DEF Read, Step, RenderedInv, vars
<1>6. ASSUME NEW t \in Tabs, Write(t) PROVE RenderedInv'
  BY <1>6 DEF Write, Step, Display, RenderedInv, vars
<1>7. ASSUME NEW t \in Tabs, Load(t) PROVE RenderedInv'
  BY <1>7 DEF Load, Gone, RenderedInv, vars
<1>8. ASSUME NEW t \in Tabs, Break(t) PROVE RenderedInv'
  BY <1>8 DEF Break, Gone, RenderedInv, vars
<1>9. CASE UNCHANGED dashVars
  BY <1>9 DEF dashVars, vars, RenderedInv
<1>10. QED
  BY <1>1, <1>2, <1>3, <1>4, <1>5, <1>6, <1>7, <1>8, <1>9 DEF DashNext, Tab

-----------------------------------------------------------------------------
(* What a step adds to what is under way: nothing, or one new version.       *)
LEMMA NextVersions ==
  ASSUME IInv, [Next]_vars, NEW n \in Names
  PROVE  /\ rv[n] \in Nat /\ rv'[n] \in Nat /\ rv[n] <= rv'[n]
         /\ \A x \in Versions(n)' :
              x = None \/ x \in Versions(n) \/ x.rv = rv[n] + 1
<1>1. /\ queue[n] \in Seq(Events) /\ watch[n] \in Seq(Events)
      /\ api[n] \in Objects \cup {None} /\ cache[n] \in Objects \cup {None}
      /\ rv[n] \in Nat
      /\ TypeOK
  BY DEF IInv, TypeOK
<1>2. Sorted(queue[n]) /\ Sorted(watch[n])
  BY DEF IInv, OrderInv, InLine
<1>3. /\ queue[n] # <<>> =>
           /\ Known(Tail(queue[n])) \subseteq Known(queue[n])
           /\ Head(queue[n]).obj \in Known(queue[n])
      /\ watch[n] # <<>> =>
           /\ Known(Tail(watch[n])) \subseteq Known(watch[n])
           /\ Head(watch[n]).obj \in Known(watch[n])
           /\ Head(watch[n]) \in Events
  BY <1>1, <1>2, TailKnown, TailElements
<1>4. \A e \in Events : /\ Known(Append(queue[n], e)) = Known(queue[n]) \cup {e.obj}
                        /\ Known(Append(watch[n], e)) = Known(watch[n]) \cup {e.obj}
  BY <1>1, AppendKnown
<1>5. \A k \in 0..Len(watch[n]) :
        Known(SubSeq(watch[n], 1, k)) \subseteq Known(watch[n])
  BY <1>1, <1>2, PrefixKnown
<1>6. Versions(n)' = {store'[n], cache'[n], api'[n]} \cup Known(queue'[n])
                        \cup Known(watch'[n])
  BY DEF Versions, Known
<1> USE DEF Versions
<1>7. CASE Changed(n)
  <2>1. PICK o \in Objects \cup {None} :
          /\ api'[n] = o
          /\ \/ o = None /\ rv'[n] = rv[n]
             \/ o # None /\ o.rv = rv[n] + 1 /\ rv'[n] = rv[n] + 1
          /\ watch'[n] = IF connected THEN Append(watch[n], Event(o))
                                      ELSE watch[n]
          /\ UNCHANGED <<queue[n], store[n], cache[n]>>
    BY <1>7 DEF Changed
  <2>2. Known(watch'[n]) \subseteq Known(watch[n]) \cup {o}
    BY <1>4, <2>1, EventTypes
  <2>3. QED BY <1>1, <1>6, <2>1, <2>2
<1>8. CASE Arrived(n)
  <2>1. Known(queue'[n]) \subseteq Known(queue[n]) \cup Known(watch[n])
    BY <1>3, <1>4, <1>8 DEF Arrived
  <2>2. QED BY <1>1, <1>3, <1>6, <1>8, <2>1 DEF Arrived
<1>9. CASE Repeated(n)
  <2>1. Known(queue'[n]) = Known(queue[n]) \cup {cache[n]}
    BY <1>1, <1>4, <1>9, EventTypes DEF Repeated
  <2>2. QED BY <1>1, <1>6, <1>9, <2>1 DEF Repeated
<1>10. CASE Handled(n)
  BY <1>1, <1>3, <1>6, <1>10 DEF Handled
<1>11. CASE Relisted(n)
  <2>1. Known(watch'[n]) \subseteq Known(watch[n]) \cup {api[n]}
    BY <1>4, <1>11 DEF Relisted
  <2>2. QED BY <1>1, <1>6, <1>11, <2>1 DEF Relisted, Still
<1>12. CASE Cut(n)
  BY <1>1, <1>5, <1>6, <1>12 DEF Cut, Still
<1>13. CASE Emptied(n)
  BY <1>1, <1>6, <1>13, EmptyKnown DEF Emptied
<1>14. CASE Untouched(n)
  BY <1>1, <1>6, <1>14 DEF Untouched, Still
<1>15. QED BY <1>1, <1>7, <1>8, <1>9, <1>10, <1>11, <1>12, <1>13, <1>14, StepCases

(* The store is the oldest of them, and all are versions there have been.     *)
LEMMA StoreIsOldest ==
  ASSUME IInv, NEW n \in Names, NEW x \in Versions(n)
  PROVE  x \in Objects \cup {None} /\ Le(store[n], x) /\ Bounded(x, rv[n])
<1>1. /\ queue[n] \in Seq(Events) /\ watch[n] \in Seq(Events)
      /\ api[n] \in Objects \cup {None} /\ cache[n] \in Objects \cup {None}
      /\ store[n] \in Objects \cup {None} /\ rv[n] \in Nat
  BY DEF IInv, TypeOK
<1>2. Known(queue[n]) \cup Known(watch[n]) \subseteq Objects \cup {None}
  BY <1>1, EventTypes, ElementTypes DEF Known
<1>3. InLine(store[n], queue[n], cache[n], watch[n], api[n], rv[n])
  BY DEF IInv, OrderInv
<1>4. Le(store[n], store[n])
  BY <1>1 DEF Le, Objects
<1>5. QED BY <1>1, <1>2, <1>3, <1>4 DEF InLine, Versions

LEMMA AgesKept ==
  ASSUME IInv, DashTypeOK, [Next]_vars, NEW n \in Names, NEW t \in Tabs,
         Ages(n, t),
         newest'[t][n] = newest[t][n], page'[t][n] = page[t][n],
         frag'[t][n] = frag[t][n] \/ frag'[t][n] = None
  PROVE  Ages(n, t)'
<1>1. /\ newest[t][n] \in Nat
      /\ frag[t][n] \in Objects \cup {None}
  BY DEF DashTypeOK
<1>2. /\ rv[n] \in Nat /\ rv'[n] \in Nat /\ rv[n] <= rv'[n]
      /\ \A x \in Versions(n)' :
           x = None \/ x \in Versions(n) \/ x.rv = rv[n] + 1
  BY NextVersions
<1>3. \A x \in Versions(n)' :
        NotOlder(x, newest[t][n]) /\ Le(frag[t][n], x)
  <2> TAKE x \in Versions(n)'
  <2>1. CASE x = None
    BY <2>1 DEF NotOlder, Le
  <2>2. CASE x \in Versions(n)
    BY <2>2 DEF Ages
  <2>3. CASE x.rv = rv[n] + 1
    BY <1>1, <1>2, <2>3 DEF Ages, NotOlder, Le, Bounded, Objects
  <2>4. QED BY <1>2, <2>1, <2>2, <2>3
<1>4. /\ newest[t][n] <= rv'[n]
      /\ Bounded(frag[t][n], rv'[n])
  BY <1>1, <1>2 DEF Ages, Bounded, Objects
<1>5. QED BY <1>3, <1>4 DEF Ages, Bounded, NotOlder, Le

LEMMA NextAges ==
  ASSUME IInv, DashTypeOK, AgeInv, [DashNext]_dashVars PROVE AgeInv'
<1> SUFFICES ASSUME NEW n \in Names, NEW t \in Tabs PROVE Ages(n, t)'
  BY DEF AgeInv
<1>1. Ages(n, t) /\ [Next]_vars
  BY DashStep DEF AgeInv
<1>2. /\ store[n] \in Objects \cup {None} /\ rv[n] \in Nat
      /\ newest[t][n] \in Nat
      /\ frag[t][n] \in Objects \cup {None}
      /\ page[t][n] \in Objects \cup {None}
  BY DEF IInv, TypeOK, DashTypeOK
<1>3. store[n] \in Versions(n)
  BY DEF Versions
<1>4. Nothing[n] = None
  BY DEF Nothing
<1> USE DEF DashTypeOK
(* Steps that leave what the tab displays, and at most drop a fragment.       *)
<1>5. ASSUME UNCHANGED <<page, newest>>, frag'[t][n] = frag[t][n] \/ frag'[t][n] = None
      PROVE  Ages(n, t)'
  BY <1>1, <1>5, AgesKept
<1>6. CASE Informer /\ UNCHANGED tabVars
  BY <1>5, <1>6 DEF tabVars
<1>7. ASSUME NEW m \in Names, HandleEvent(m) PROVE Ages(n, t)'
  BY <1>5, <1>7 DEF HandleEvent
<1>8. CASE RestartPod
  BY <1>4, <1>5, <1>8 DEF RestartPod
<1>9. ASSUME NEW u \in Tabs, Connect(u) \/ Wake(u) PROVE Ages(n, t)'
  BY <1>5, <1>9 DEF Connect, Wake
<1>10. ASSUME NEW u \in Tabs, Break(u) PROVE Ages(n, t)'
  BY <1>4, <1>5, <1>10 DEF Break, Gone
<1>11. CASE UNCHANGED dashVars
  BY <1>5, <1>11 DEF dashVars, tabVars
(* The handler takes what is in the store, the oldest there is.               *)
<1>12. ASSUME NEW u \in Tabs, Read(u) PROVE Ages(n, t)'
  <2>1. UNCHANGED <<vars, page, newest>> /\ frag' = [frag EXCEPT ![u] = store]
    BY <1>12 DEF Read
  <2>2. CASE u # t
    BY <1>5, <2>1, <2>2
  <2>3. CASE u = t
    <3>1. frag'[t][n] = store[n]
      BY <2>1, <2>3
    <3>2. Versions(n)' = Versions(n) /\ rv'[n] = rv[n]
      BY <2>1 DEF Versions, vars, Known
    <3>3. \A x \in Versions(n) : Le(store[n], x) /\ Bounded(x, rv[n])
      BY StoreIsOldest
    <3>4. QED BY <1>1, <1>3, <2>1, <3>1, <3>2, <3>3 DEF Ages
  <2>4. QED BY <2>2, <2>3
(* What the tab comes to display is not newer than what may come after it.    *)
<1>13. ASSUME NEW u \in Tabs, Write(u) PROVE Ages(n, t)'
  <2>1. /\ UNCHANGED vars
        /\ page' = [page EXCEPT ![u] = frag[u]]
        /\ frag' = [frag EXCEPT ![u] = Nothing]
        /\ newest' = [newest EXCEPT ![u] = [m \in Names |->
             IF frag[u][m] # None /\ frag[u][m].rv > newest[u][m]
             THEN frag[u][m].rv ELSE newest[u][m]]]
    BY <1>13 DEF Write, Display
  <2>2. CASE u # t
    <3>1. /\ page'[t] = page[t] /\ frag'[t] = frag[t] /\ newest'[t] = newest[t]
      BY <2>1, <2>2
    <3>2. QED BY <1>1, <3>1, AgesKept
  <2>3. CASE u = t
    <3>1. /\ page'[t][n] = frag[t][n] /\ frag'[t][n] = None
          /\ newest'[t][n] = IF frag[t][n] # None /\ frag[t][n].rv > newest[t][n]
                             THEN frag[t][n].rv ELSE newest[t][n]
      BY <1>4, <2>1, <2>3
    <3>2. Versions(n)' = Versions(n) /\ rv'[n] = rv[n]
      BY <2>1 DEF Versions, vars, Known
    <3>3. \A x \in Versions(n) : x \in Objects \cup {None}
      BY StoreIsOldest
    <3>4. \A x \in Versions(n) : NotOlder(x, newest'[t][n])
      BY <1>1, <1>2, <3>1, <3>3 DEF Ages, NotOlder, Le, Objects
    <3>5. newest'[t][n] <= rv[n] /\ NotOlder(frag[t][n], newest'[t][n])
      BY <1>1, <1>2, <3>1 DEF Ages, NotOlder, Bounded, Objects
    <3>6. QED BY <3>1, <3>2, <3>4, <3>5 DEF Ages, NotOlder, Le, Bounded
  <2>4. QED BY <2>2, <2>3
<1>14. ASSUME NEW u \in Tabs, Load(u) PROVE Ages(n, t)'
  <2>1. /\ UNCHANGED vars
        /\ page' = [page EXCEPT ![u] = store]
        /\ frag' = [frag EXCEPT ![u] = Nothing]
        /\ newest' = [newest EXCEPT ![u] = [m \in Names |->
             IF store[m] = None THEN 0 ELSE store[m].rv]]
    BY <1>14 DEF Load, Gone
  <2>2. CASE u # t
    <3>1. /\ page'[t] = page[t] /\ frag'[t] = frag[t] /\ newest'[t] = newest[t]
      BY <2>1, <2>2
    <3>2. QED BY <1>1, <3>1, AgesKept
  <2>3. CASE u = t
    <3>1. /\ page'[t][n] = store[n] /\ frag'[t][n] = None
          /\ newest'[t][n] = IF store[n] = None THEN 0 ELSE store[n].rv
      BY <1>4, <2>1, <2>3
    <3>2. Versions(n)' = Versions(n) /\ rv'[n] = rv[n]
      BY <2>1 DEF Versions, vars, Known
    <3>3. \A x \in Versions(n) :
            x \in Objects \cup {None} /\ Le(store[n], x) /\ Bounded(x, rv[n])
      BY StoreIsOldest
    <3>4. \A x \in Versions(n) : NotOlder(x, newest'[t][n])
      BY <1>2, <3>1, <3>3 DEF NotOlder, Le, Objects
    <3>5. newest'[t][n] <= rv[n]
      BY <1>2, <1>3, <3>1, <3>3 DEF Bounded, Objects
    <3>6. QED BY <1>3, <3>1, <3>2, <3>4, <3>5 DEF Ages, NotOlder, Le, Bounded
  <2>4. QED BY <2>2, <2>3
<1>15. QED
  BY <1>6, <1>7, <1>8, <1>9, <1>10, <1>11, <1>12, <1>13, <1>14 DEF DashNext, Tab

-----------------------------------------------------------------------------
LEMMA DashInitInv == DashInit => DashInv
<1> SUFFICES ASSUME DashInit PROVE DashInv
  OBVIOUS
<1>1. IInv
  BY InitInv DEF DashInit
<1>2. DashTypeOK
  BY <1>1 DEF DashInit, DashTypeOK, IInv, Nothing, News
<1>3. RenderedInv
  BY DEF DashInit, RenderedInv
<1>4. ASSUME NEW n \in Names, NEW t \in Tabs PROVE Ages(n, t)
  <2>1. /\ page[t][n] = None /\ frag[t][n] = None /\ newest[t][n] = 0
    BY DEF DashInit, Nothing
  <2>2. Versions(n) = {None} /\ rv[n] = 0
    BY EmptyKnown DEF DashInit, Init, Nothing, NoEvents, Versions
  <2>3. QED BY <2>1, <2>2 DEF Ages, NotOlder, Le, Bounded
<1>5. QED BY <1>2, <1>3, <1>4 DEF DashInv, AgeInv

(* Every state of the composition satisfies the watcher's invariant and the   *)
(* one of the tabs.                                                           *)
THEOREM DashInvariance == DashSpec => [](IInv /\ DashInv)
<1>1. DashSpec => []IInv
  BY WatcherUndisturbed, Invariance, PTL
<1>2. IInv /\ DashInv /\ [DashNext]_dashVars => DashInv'
  <2> SUFFICES ASSUME IInv, DashInv, [DashNext]_dashVars PROVE DashInv'
    OBVIOUS
  <2>1. TypeOK /\ DashTypeOK /\ RenderedInv /\ AgeInv
    BY DEF IInv, DashInv
  <2>2. QED BY <2>1, DashNextType, DashNextRendered, NextAges DEF DashInv
<1>3. QED BY <1>1, <1>2, DashInitInv, PTL DEF DashSpec

(* README.md:112 from end to end, for any number of objects, tabs, changes,   *)
(* faults and broken streams: with nothing under way a tab shows what the API *)
(* server has.                                                                *)
THEOREM PageMirrorsApi == DashSpec => []QuietPageMirrorsApi
<1>1. DashSpec => []DrainedMirrorsApi
  BY WatcherUndisturbed, MirrorsApi, PTL
<1>2. DrainedMirrorsApi /\ DashInv => QuietPageMirrorsApi
  BY DEF DrainedMirrorsApi, DashInv, RenderedInv, QuietPageMirrorsApi, InStep,
         Shows
<1>3. QED BY <1>1, <1>2, DashInvariance, PTL

(* A page never displays an older version of an object than it did before,    *)
(* whatever restarts, reconnects and lists lie between.                       *)
THEOREM NoPageGoesBack == DashSpec => []PageNeverGoesBack
<1>1. DashInv => PageNeverGoesBack
  BY DEF DashInv, AgeInv, Ages, NotOlder, PageNeverGoesBack
<1>2. QED BY <1>1, DashInvariance, PTL
=============================================================================

---------------------------- MODULE WatcherProofs ----------------------------
(***************************************************************************)
(* Proofs about the CRD watcher, for any set of objects and any bounds:    *)
(* what the handlers leave in the store when every event has been handled, *)
(* and the order in which they write it.                                   *)
(***************************************************************************)
EXTENDS Watcher, TLAPS

(* Sequences, element by element.                                            *)
LEMMA NoElements == ASSUME NEW S PROVE <<>> \in Seq(S)
OBVIOUS

LEMMA AppendElements ==
  ASSUME NEW S, NEW s \in Seq(S), NEW e \in S
  PROVE  /\ Append(s, e) \in Seq(S)
         /\ Len(Append(s, e)) = Len(s) + 1
         /\ Append(s, e)[Len(s) + 1] = e
         /\ \A i \in 1..Len(s) : Append(s, e)[i] = s[i]
OBVIOUS

LEMMA TailElements ==
  ASSUME NEW S, NEW s \in Seq(S), s # <<>>
  PROVE  /\ Tail(s) \in Seq(S)
         /\ Len(s) \in Nat \ {0}
         /\ Len(Tail(s)) = Len(s) - 1
         /\ Head(s) = s[1]
         /\ Head(s) \in S
         /\ \A i \in 1..Len(Tail(s)) : Tail(s)[i] = s[i + 1]
OBVIOUS

LEMMA PrefixElements ==
  ASSUME NEW S, NEW s \in Seq(S), NEW k \in 0..Len(s)
  PROVE  /\ SubSeq(s, 1, k) \in Seq(S)
         /\ Len(SubSeq(s, 1, k)) = k
         /\ \A i \in 1..k : SubSeq(s, 1, k)[i] = s[i]
OBVIOUS

LEMMA ElementTypes ==
  ASSUME NEW S, NEW s \in Seq(S)
  PROVE  /\ Len(s) \in Nat
         /\ \A i \in 1..Len(s) : s[i] \in S
         /\ s \o <<>> = s
         /\ s = <<>> <=> Len(s) = 0
OBVIOUS

LEMMA ConcatOne ==
  ASSUME NEW S, NEW s \in Seq(S), NEW e \in S
  PROVE  s \o <<e>> = Append(s, e)
OBVIOUS

LEMMA EventTypes ==
  /\ \A o \in Objects \cup {None} : Event(o) \in Events /\ Event(o).obj = o
  /\ [obj |-> None, tombstone |-> TRUE] \in Events
  /\ \A e \in Events : e.obj \in Objects \cup {None}
BY DEF Event, Events

(* What a list tells of one object: nothing of one the informer never knew,  *)
(* otherwise one event, with the object as it is.                            *)
LEMMA ListedEvents ==
  ASSUME TypeOK, NEW n \in Names
  PROVE  \/ /\ watch[n] \o Listed(n) = watch[n]
            /\ api[n] = None /\ cache[n] = None /\ watch[n] = <<>>
         \/ \E e \in Events : /\ watch[n] \o Listed(n) = Append(watch[n], e)
                              /\ e.obj = api[n]
<1>1. /\ watch[n] \in Seq(Events)
      /\ api[n] \in Objects \cup {None}
  BY DEF TypeOK
<1>2. CASE api[n] # None
  <2>1. Listed(n) = <<Event(api[n])>>
    BY <1>2 DEF Listed
  <2>2. QED BY <1>1, <2>1, EventTypes, ConcatOne
<1>3. CASE api[n] = None /\ (cache[n] # None \/ watch[n] # <<>>)
  <2> DEFINE e == [obj |-> None, tombstone |-> TRUE]
  <2>1. Listed(n) = <<e>>
    BY <1>3 DEF Listed
  <2>2. e \in Events /\ e.obj = None
    BY EventTypes
  <2> HIDE DEF e
  <2>3. QED BY <1>1, <1>3, <2>1, <2>2, ConcatOne
<1>4. CASE api[n] = None /\ cache[n] = None /\ watch[n] = <<>>
  <2>1. Listed(n) = <<>>
    BY <1>4 DEF Listed
  <2>2. QED BY <1>1, <1>4, <2>1, ElementTypes
<1>5. QED BY <1>2, <1>3, <1>4

LEMMA EmptyKnown == Known(<<>>) = {} /\ Sorted(<<>>)
BY DEF Known, Sorted

LEMMA InitInv == Init => IInv
<1> SUFFICES ASSUME Init PROVE IInv
  OBVIOUS
<1>1. TypeOK
  BY NoElements DEF Init, TypeOK, Nothing, NoEvents
<1>2. \A n \in Names : /\ queue[n] = <<>> /\ watch[n] = <<>>
                       /\ Len(queue[n]) = 0 /\ Len(watch[n]) = 0
                       /\ store[n] = None /\ cache[n] = None /\ api[n] = None
  BY DEF Init, Nothing, NoEvents
<1>3. CacheInv
  BY <1>2 DEF CacheInv, Settles
<1>4. WatchInv
  BY DEF Init, WatchInv
<1>5. OrderInv
  BY <1>2, EmptyKnown DEF OrderInv, InLine, Le, Bounded
<1>6. QED BY <1>1, <1>3, <1>4, <1>5 DEF IInv

LEMMA NextType == TypeOK /\ [Next]_vars => TypeOK'
<1> SUFFICES ASSUME TypeOK, [Next]_vars PROVE TypeOK'
  OBVIOUS
<1> USE DEF TypeOK
<1>1. ASSUME NEW n \in Names, Put(n) PROVE TypeOK'
  <2>1. PICK ok \in BOOLEAN :
          LET o == [rv |-> rv[n] + 1, ok |-> ok] IN
          /\ api' = [api EXCEPT ![n] = o]
          /\ Announce(n, o)
    BY <1>1 DEF Put
  <2> DEFINE o == [rv |-> rv[n] + 1, ok |-> ok]
  <2>4. o \in Objects
    BY DEF Objects
  <2>5. api' = [api EXCEPT ![n] = o] /\ Announce(n, o)
    BY <2>1
  <2> HIDE DEF o
  <2>2. Append(watch[n], Event(o)) \in Seq(Events)
    BY <2>4, EventTypes, AppendElements
  <2>3. QED BY <1>1, <2>2, <2>4, <2>5 DEF Put, Announce
<1>2. ASSUME NEW n \in Names, Withdraw(n) PROVE TypeOK'
  <2>1. Append(watch[n], Event(None)) \in Seq(Events)
    BY EventTypes, AppendElements
  <2>2. QED BY <1>2, <2>1 DEF Withdraw, Announce
<1>3. ASSUME NEW n \in Names, Receive(n) PROVE TypeOK'
  <2>1. /\ Tail(watch[n]) \in Seq(Events)
        /\ Head(watch[n]) \in Events
    BY <1>3, TailElements DEF Receive
  <2>2. /\ Append(queue[n], Head(watch[n])) \in Seq(Events)
        /\ Head(watch[n]).obj \in Objects \cup {None}
    BY <2>1, EventTypes, AppendElements
  <2>3. QED BY <1>3, <2>1, <2>2 DEF Receive
<1>4. ASSUME NEW n \in Names, Resync(n) PROVE TypeOK'
  <2>1. Append(queue[n], Event(cache[n])) \in Seq(Events)
    BY EventTypes, AppendElements
  <2>2. QED BY <1>4, <2>1 DEF Resync
<1>5. ASSUME NEW n \in Names, Handle(n) PROVE TypeOK'
  <2>1. /\ Tail(queue[n]) \in Seq(Events)
        /\ Head(queue[n]).obj \in Objects \cup {None}
    BY <1>5, TailElements, EventTypes DEF Handle, HandleSet, HandleDelete,
                                          TakeNotice
  <2>2. QED BY <1>5, <2>1 DEF Handle, HandleSet, HandleDelete, TakeNotice
<1>6. CASE List
  <2>1. ASSUME NEW n \in Names PROVE watch[n] \o Listed(n) \in Seq(Events)
    <3>1. watch[n] \in Seq(Events)
      OBVIOUS
    <3>2. \A e \in Events : Append(watch[n], e) \in Seq(Events)
      BY <3>1, AppendElements
    <3>3. QED BY <3>1, <3>2, ListedEvents
  <2>2. watch' \in [Names -> Seq(Events)]
    BY <1>6, <2>1 DEF List
  <2>3. QED BY <1>6, <2>2 DEF List
<1>7. CASE Disconnect
  <2>1. PICK kept \in [Names -> 0..(2 * MaxRv + MaxFaults + 1)] :
          /\ \A n \in Names : kept[n] <= Len(watch[n])
          /\ watch' = [n \in Names |-> SubSeq(watch[n], 1, kept[n])]
    BY <1>7 DEF Disconnect
  <2>2. \A n \in Names : kept[n] \in 0..Len(watch[n])
    BY <2>1, ElementTypes, WatcherAssumption
  <2>3. \A n \in Names : SubSeq(watch[n], 1, kept[n]) \in Seq(Events)
    BY <2>2, PrefixElements
  <2>4. watch' \in [Names -> Seq(Events)]
    BY <2>1, <2>3
  <2>5. /\ UNCHANGED <<api, rv, cache, queue, store>>
        /\ connected' = FALSE
        /\ faults' = faults + 1
    BY <1>7 DEF Disconnect
  <2>6. faults' \in Nat
    BY <2>5
  <2>7. connected' \in BOOLEAN
    BY <2>5
  <2>8. QED BY <2>4, <2>5, <2>6, <2>7
<1>8. CASE Restart
  <2>1. faults' \in Nat
    BY <1>8 DEF Restart
  <2>7. connected' \in BOOLEAN
    BY <1>8 DEF Restart
  <2>2. watch' \in [Names -> Seq(Events)] /\ queue' \in [Names -> Seq(Events)]
    <3>1. <<>> \in Seq(Events)
      BY NoElements
    <3>2. NoEvents \in [Names -> Seq(Events)]
      BY <3>1 DEF NoEvents
    <3>3. QED BY <1>8, <3>2 DEF Restart
  <2>3. cache' \in [Names -> Objects \cup {None}]
    BY <1>8 DEF Restart, Nothing
  <2>4. store' \in [Names -> Objects \cup {None}]
    BY <1>8 DEF Restart, Nothing
  <2>5. UNCHANGED <<api, rv>>
    BY <1>8 DEF Restart
  <2>6. QED BY <2>1, <2>2, <2>3, <2>4, <2>5, <2>7
<1>9. CASE UNCHANGED vars
  BY <1>9 DEF vars
<1>10. QED BY <1>1, <1>2, <1>3, <1>4, <1>5, <1>6, <1>7, <1>8, <1>9 DEF Next

THEOREM TypeCorrect == Spec => []TypeOK
<1>1. Init => TypeOK
  BY InitInv DEF IInv
<1>2. QED BY <1>1, NextType, PTL DEF Spec

(***************************************************************************)
(* What one step does to one object.  The lemmas on the invariant's parts  *)
(* rest on these cases and no longer see which action it was.              *)
(***************************************************************************)
Still(n) ==
  /\ api'[n] = api[n] /\ rv'[n] = rv[n] /\ cache'[n] = cache[n]
  /\ queue'[n] = queue[n] /\ store'[n] = store[n]

(* The object is changed, and announced if the informer watches.             *)
Changed(n) ==
  \E o \in Objects \cup {None} :
    /\ api'[n] = o
    /\ \/ o = None /\ rv'[n] = rv[n]
       \/ o # None /\ o.rv = rv[n] + 1 /\ rv'[n] = rv[n] + 1
    /\ watch'[n] = IF connected THEN Append(watch[n], Event(o)) ELSE watch[n]
    /\ UNCHANGED connected
    /\ cache'[n] = cache[n] /\ queue'[n] = queue[n] /\ store'[n] = store[n]

Arrived(n) ==
  /\ watch[n] # <<>>
  /\ cache'[n] = Head(watch[n]).obj
  /\ queue'[n] = Append(queue[n], Head(watch[n]))
  /\ watch'[n] = Tail(watch[n])
  /\ UNCHANGED connected
  /\ api'[n] = api[n] /\ rv'[n] = rv[n] /\ store'[n] = store[n]

Repeated(n) ==
  /\ queue'[n] = Append(queue[n], Event(cache[n]))
  /\ UNCHANGED connected
  /\ api'[n] = api[n] /\ rv'[n] = rv[n] /\ store'[n] = store[n]
  /\ watch'[n] = watch[n] /\ cache'[n] = cache[n]

Handled(n) ==
  /\ queue[n] # <<>>
  /\ queue'[n] = Tail(queue[n])
  /\ store'[n] = IF Effective(Head(queue[n])) THEN Head(queue[n]).obj
                                              ELSE store[n]
  /\ UNCHANGED connected
  /\ api'[n] = api[n] /\ rv'[n] = rv[n]
  /\ watch'[n] = watch[n] /\ cache'[n] = cache[n]

Relisted(n) ==
  /\ Still(n)
  /\ \/ /\ watch'[n] = watch[n]
        /\ api[n] = None /\ cache[n] = None /\ watch[n] = <<>>
     \/ \E e \in Events : watch'[n] = Append(watch[n], e) /\ e.obj = api[n]

Cut(n) ==
  /\ Still(n)
  /\ connected' = FALSE
  /\ \E k \in 0..Len(watch[n]) : watch'[n] = SubSeq(watch[n], 1, k)

Emptied(n) ==
  /\ connected' = FALSE
  /\ api'[n] = api[n] /\ rv'[n] = rv[n]
  /\ cache'[n] = None /\ store'[n] = None
  /\ watch'[n] = <<>> /\ queue'[n] = <<>>

Untouched(n) == Still(n) /\ watch'[n] = watch[n] /\ UNCHANGED connected

LEMMA StepCases ==
  ASSUME TypeOK, [Next]_vars, NEW n \in Names
  PROVE  \/ Changed(n) \/ Arrived(n) \/ Repeated(n) \/ Handled(n)
         \/ Relisted(n) \/ Cut(n) \/ Emptied(n) \/ Untouched(n)
<1> USE DEF TypeOK
<1>1. ASSUME NEW m \in Names, Put(m) PROVE Changed(n) \/ Untouched(n)
  <2>1. PICK ok \in BOOLEAN :
          LET o == [rv |-> rv[m] + 1, ok |-> ok] IN
          /\ api' = [api EXCEPT ![m] = o]
          /\ Announce(m, o)
    BY <1>1 DEF Put
  <2> DEFINE o == [rv |-> rv[m] + 1, ok |-> ok]
  <2>2. o \in Objects /\ o # None /\ o.rv = rv[m] + 1
    BY WatcherAssumption DEF Objects
  <2>3. api' = [api EXCEPT ![m] = o] /\ Announce(m, o)
    BY <2>1
  <2> HIDE DEF o
  <2>4. /\ rv' = [rv EXCEPT ![m] = @ + 1]
        /\ UNCHANGED <<connected, cache, queue, store>>
    BY <1>1 DEF Put
  <2>5. CASE m = n
    BY <2>2, <2>3, <2>4, <2>5 DEF Changed, Announce
  <2>6. CASE m # n
    BY <2>3, <2>4, <2>6 DEF Untouched, Still, Announce
  <2>7. QED BY <2>5, <2>6
<1>2. ASSUME NEW m \in Names, Withdraw(m) PROVE Changed(n) \/ Untouched(n)
  <2>1. CASE m = n
    BY <1>2, <2>1 DEF Withdraw, Changed, Announce
  <2>2. CASE m # n
    BY <1>2, <2>2 DEF Withdraw, Untouched, Still, Announce
  <2>3. QED BY <2>1, <2>2
<1>3. ASSUME NEW m \in Names, Receive(m) PROVE Arrived(n) \/ Untouched(n)
  BY <1>3 DEF Receive, Arrived, Untouched, Still
<1>4. ASSUME NEW m \in Names, Resync(m) PROVE Repeated(n) \/ Untouched(n)
  BY <1>4 DEF Resync, Repeated, Untouched, Still
<1>5. ASSUME NEW m \in Names, Handle(m) PROVE Handled(n) \/ Untouched(n)
  <2>1. TakeNotice(m) /\ queue[m] # <<>>
    BY <1>5 DEF Handle, HandleSet, HandleDelete, TakeNotice
  <2>2. store' = IF Effective(Head(queue[m]))
                 THEN [store EXCEPT ![m] = Head(queue[m]).obj] ELSE store
    BY <1>5 DEF Handle, HandleSet, HandleDelete, Effective
  <2>3. CASE m = n
    BY <2>1, <2>2, <2>3 DEF TakeNotice, Handled
  <2>4. CASE m # n
    BY <2>1, <2>2, <2>4 DEF TakeNotice, Untouched, Still
  <2>5. QED BY <2>3, <2>4
<1>6. CASE List
  <2>1. watch'[n] = watch[n] \o Listed(n)
    BY <1>6 DEF List
  <2>2. QED BY <1>6, <2>1, ListedEvents DEF List, Relisted, Still
<1>7. CASE Disconnect
  <2>1. PICK kept \in [Names -> 0..(2 * MaxRv + MaxFaults + 1)] :
          /\ \A m \in Names : kept[m] <= Len(watch[m])
          /\ watch' = [m \in Names |-> SubSeq(watch[m], 1, kept[m])]
    BY <1>7 DEF Disconnect
  <2>2. kept[n] \in 0..Len(watch[n])
    BY <2>1, ElementTypes, WatcherAssumption
  <2>3. watch'[n] = SubSeq(watch[n], 1, kept[n])
    BY <2>1
  <2>4. Still(n) /\ connected' = FALSE
    BY <1>7 DEF Disconnect, Still
  <2>5. QED BY <2>2, <2>3, <2>4 DEF Cut
<1>8. CASE Restart
  BY <1>8 DEF Restart, Emptied, NoEvents, Nothing
<1>9. CASE UNCHANGED vars
  BY <1>9 DEF vars, Untouched, Still
<1>10. QED BY <1>1, <1>2, <1>3, <1>4, <1>5, <1>6, <1>7, <1>8, <1>9 DEF Next

-----------------------------------------------------------------------------
(* What one object's part of the invariant says.                             *)
CacheOf(n) == (IF cache[n] = None THEN TRUE ELSE cache[n].ok)
                => Settles(n, cache[n])
WatchOf(n) == connected => api[n] = IF watch[n] = <<>> THEN cache[n]
                                    ELSE watch[n][Len(watch[n])].obj

LEMMA NextCache ==
  ASSUME TypeOK, CacheInv, [Next]_vars PROVE CacheInv'
<1> SUFFICES ASSUME NEW n \in Names, CacheOf(n) PROVE CacheOf(n)'
  BY DEF CacheInv, CacheOf
<1>1. /\ queue[n] \in Seq(Events) /\ watch[n] \in Seq(Events)
      /\ cache[n] \in Objects \cup {None}
  BY DEF TypeOK
<1>2. CASE Changed(n) \/ Relisted(n) \/ Cut(n) \/ Untouched(n)
  <2>1. cache'[n] = cache[n] /\ queue'[n] = queue[n] /\ store'[n] = store[n]
    BY <1>2 DEF Changed, Relisted, Cut, Untouched, Still
  <2>2. QED BY <2>1 DEF CacheOf, Settles
<1>3. ASSUME NEW e \in Events, queue'[n] = Append(queue[n], e),
             cache'[n] = e.obj
      PROVE  CacheOf(n)'
  <2>1. /\ Len(queue'[n]) = Len(queue[n]) + 1
        /\ queue'[n][Len(queue'[n])] = e
        /\ Len(queue'[n]) \in 1..Len(queue'[n])
        /\ \A j \in Len(queue'[n])+1..Len(queue'[n]) : FALSE
    BY <1>1, <1>3, AppendElements, ElementTypes
  <2>2. QED BY <1>3, <2>1 DEF CacheOf, Settles, Effective
<1>4. CASE Arrived(n)
  BY <1>1, <1>3, <1>4, TailElements DEF Arrived
<1>5. CASE Repeated(n)
  BY <1>1, <1>3, <1>5, EventTypes DEF Repeated
<1>6. CASE Handled(n)
  <2>1. /\ Len(queue'[n]) = Len(queue[n]) - 1
        /\ Len(queue[n]) \in Nat \ {0}
        /\ Head(queue[n]) = queue[n][1]
        /\ \A i \in 1..Len(queue'[n]) : queue'[n][i] = queue[n][i + 1]
    BY <1>1, <1>6, TailElements DEF Handled
  <2>2. cache'[n] = cache[n]
    BY <1>6 DEF Handled
  <2>3. ASSUME Settles(n, cache[n]) PROVE Settles(n, cache[n])'
    <3>1. CASE /\ store[n] = cache[n]
               /\ \A i \in 1..Len(queue[n]) : ~Effective(queue[n][i])
      <4>1. store'[n] = cache[n]
        BY <1>6, <2>1, <3>1 DEF Handled
      <4>2. \A i \in 1..Len(queue'[n]) : i + 1 \in 1..Len(queue[n])
        BY <2>1
      <4>3. \A i \in 1..Len(queue'[n]) : ~Effective(queue'[n][i])
        BY <2>1, <3>1, <4>2
      <4>4. QED BY <2>2, <4>1, <4>3 DEF Settles, Effective
    <3>2. ASSUME NEW i \in 1..Len(queue[n]), Effective(queue[n][i]),
                 queue[n][i].obj = cache[n],
                 \A j \in i+1..Len(queue[n]) : ~Effective(queue[n][j])
          PROVE  Settles(n, cache[n])'
      <4>1. CASE i = 1
        <5>1. store'[n] = cache[n]
          BY <1>6, <2>1, <3>2, <4>1 DEF Handled
        <5>2. \A j \in 1..Len(queue'[n]) : j + 1 \in i+1..Len(queue[n])
          BY <2>1, <4>1
        <5>3. \A j \in 1..Len(queue'[n]) : ~Effective(queue'[n][j])
          BY <2>1, <3>2, <5>2
        <5>4. QED BY <2>2, <5>1, <5>3 DEF Settles, Effective
      <4>2. CASE i # 1
        <5>1. i - 1 \in 1..Len(queue'[n]) /\ queue'[n][i - 1] = queue[n][i]
          BY <2>1, <4>2
        <5>2. \A j \in i..Len(queue'[n]) : ~Effective(queue'[n][j])
          BY <2>1, <3>2
        <5>3. (i - 1) + 1 = i
          OBVIOUS
        <5>4. QED BY <2>2, <3>2, <5>1, <5>2, <5>3 DEF Settles, Effective
      <4>3. QED BY <4>1, <4>2
    <3>3. QED BY <2>3, <3>1, <3>2 DEF Settles
  <2>4. QED BY <2>2, <2>3 DEF CacheOf
<1>7. CASE Emptied(n)
  <2>1. Len(queue'[n]) = 0 /\ store'[n] = None /\ cache'[n] = None
    BY <1>7 DEF Emptied
  <2>2. QED BY <2>1 DEF CacheOf, Settles
<1>8. QED BY <1>2, <1>4, <1>5, <1>6, <1>7, StepCases

LEMMA NextWatch ==
  ASSUME TypeOK, WatchInv, [Next]_vars PROVE WatchInv'
<1> SUFFICES ASSUME NEW n \in Names, WatchOf(n) PROVE WatchOf(n)'
  BY DEF WatchInv, WatchOf
<1>1. watch[n] \in Seq(Events)
  BY DEF TypeOK
<1>2. ASSUME NEW e \in Events, watch'[n] = Append(watch[n], e),
             e.obj = api'[n]
      PROVE  WatchOf(n)'
  <2>1. watch'[n] # <<>> /\ watch'[n][Len(watch'[n])] = e
    BY <1>1, <1>2, AppendElements, ElementTypes
  <2>2. QED BY <1>2, <2>1 DEF WatchOf
<1>3. CASE Changed(n)
  <2>1. CASE connected
    BY <1>2, <1>3, <2>1, EventTypes DEF Changed
  <2>2. CASE ~connected
    BY <1>3, <2>2 DEF Changed, WatchOf
  <2>3. QED BY <2>1, <2>2
<1>4. CASE Arrived(n)
  <2>1. /\ Len(watch[n]) \in Nat \ {0}
        /\ Len(watch'[n]) = Len(watch[n]) - 1
        /\ Head(watch[n]) = watch[n][1]
        /\ watch'[n] \in Seq(Events)
        /\ \A i \in 1..Len(watch'[n]) : watch'[n][i] = watch[n][i + 1]
    BY <1>1, <1>4, TailElements DEF Arrived
  <2>2. CASE Len(watch[n]) = 1
    <3>1. watch'[n] = <<>>
      BY <2>1, <2>2, ElementTypes
    <3>2. QED BY <1>4, <2>1, <2>2, <3>1 DEF Arrived, WatchOf
  <2>3. CASE Len(watch[n]) # 1
    <3>0. Len(watch[n]) \in Nat /\ Len(watch[n]) # 0
      BY <2>1
    <3>1. /\ Len(watch'[n]) \in Nat
          /\ Len(watch'[n]) # 0
          /\ Len(watch'[n]) + 1 = Len(watch[n])
      BY <2>1, <2>3, <3>0
    <3>2. watch'[n] # <<>>
      <4>1. Len(<<>>) = 0
        OBVIOUS
      <4>2. QED BY <3>1, <4>1
    <3>3. Len(watch'[n]) \in 1..Len(watch'[n])
      BY <3>1
    <3>5. watch'[n][Len(watch'[n])] = watch[n][Len(watch[n])]
      BY <2>1, <3>1, <3>3
    <3>4. QED BY <1>4, <3>2, <3>5 DEF Arrived, WatchOf
  <2>4. QED BY <2>2, <2>3
<1>5. CASE Relisted(n)
  BY <1>2, <1>5 DEF Relisted, Still, WatchOf
<1>6. CASE Repeated(n) \/ Handled(n) \/ Untouched(n)
  BY <1>6 DEF Repeated, Handled, Untouched, Still, WatchOf
<1>7. CASE Cut(n) \/ Emptied(n)
  BY <1>7 DEF Cut, Emptied, WatchOf
<1>8. QED BY <1>3, <1>4, <1>5, <1>6, <1>7, StepCases

-----------------------------------------------------------------------------
(* Versions in a sequence of events.                                         *)
LEMMA AppendKnown ==
  ASSUME NEW s \in Seq(Events), NEW e \in Events
  PROVE  /\ Known(Append(s, e)) = Known(s) \cup {e.obj}
         /\ Sorted(s) /\ (\A x \in Known(s) : Le(x, e.obj))
              => Sorted(Append(s, e))
<1> DEFINE t == Append(s, e)
<1>1. /\ Len(s) \in Nat
      /\ Len(t) = Len(s) + 1
      /\ t[Len(s) + 1] = e
      /\ \A i \in 1..Len(s) : t[i] = s[i]
  BY AppendElements, ElementTypes
<1> HIDE DEF t
<1>2. \A i : i \in 1..Len(t) <=> i \in 1..Len(s) \/ i = Len(s) + 1
  BY <1>1
<1>3. Known(t) = Known(s) \cup {e.obj}
  BY <1>1, <1>2 DEF Known
<1>4. ASSUME Sorted(s), \A x \in Known(s) : Le(x, e.obj),
             NEW i \in 1..Len(t), NEW j \in 1..Len(t), i < j
      PROVE  Le(t[i].obj, t[j].obj)
  <2>1. i \in 1..Len(s)
    BY <1>1, <1>4
  <2>2. CASE j \in 1..Len(s)
    BY <1>1, <1>4, <2>1, <2>2 DEF Sorted
  <2>3. CASE j = Len(s) + 1
    BY <1>1, <1>4, <2>1, <2>3 DEF Known
  <2>4. QED BY <1>2, <2>2, <2>3
<1>5. QED BY <1>3, <1>4 DEF Sorted, t

LEMMA TailKnown ==
  ASSUME NEW s \in Seq(Events), s # <<>>, Sorted(s)
  PROVE  /\ Known(Tail(s)) \subseteq Known(s)
         /\ Head(s).obj \in Known(s)
         /\ Sorted(Tail(s))
         /\ \A y \in Known(Tail(s)) : Le(Head(s).obj, y)
<1> DEFINE t == Tail(s)
<1>1. /\ Len(s) \in Nat /\ Len(s) >= 1
      /\ Len(t) = Len(s) - 1
      /\ Head(s) = s[1]
      /\ \A i \in 1..Len(t) : t[i] = s[i + 1]
  BY TailElements
<1> HIDE DEF t
<1>2. \A i \in 1..Len(t) : i + 1 \in 1..Len(s) /\ 1 < i + 1
  BY <1>1
<1>3. 1 \in 1..Len(s)
  BY <1>1
<1>4. \A i, j \in 1..Len(t) : i < j => i + 1 < j + 1
  OBVIOUS
<1>5. Known(t) \subseteq Known(s)
  BY <1>1, <1>2 DEF Known
<1>6. Sorted(t)
  BY <1>1, <1>2, <1>4 DEF Sorted
<1>7. \A y \in Known(t) : Le(Head(s).obj, y)
  BY <1>1, <1>2, <1>3 DEF Known, Sorted
<1>8. QED BY <1>1, <1>3, <1>5, <1>6, <1>7 DEF Known, t

LEMMA PrefixKnown ==
  ASSUME NEW s \in Seq(Events), Sorted(s), NEW k \in 0..Len(s)
  PROVE  /\ Known(SubSeq(s, 1, k)) \subseteq Known(s)
         /\ Sorted(SubSeq(s, 1, k))
<1>1. Len(s) \in Nat /\ \A i \in 1..k : i \in 1..Len(s)
  BY ElementTypes
<1>2. QED BY <1>1, PrefixElements DEF Known, Sorted

(* An event with the present object may always come last.                    *)
LEMMA LastInLine ==
  ASSUME NEW st, NEW q, NEW c, NEW w \in Seq(Events), NEW e \in Events,
         NEW a \in Objects \cup {None}, NEW k,
         InLine(st, q, c, w, a, k), e.obj = a
  PROVE  InLine(st, q, c, Append(w, e), a, k)
<1>1. /\ Known(Append(w, e)) = Known(w) \cup {a}
      /\ Sorted(Append(w, e))
  BY AppendKnown DEF InLine
<1>2. Le(a, a)
  BY DEF Le, Objects
<1>3. QED BY <1>1, <1>2 DEF InLine

(* An object may always be deleted, and a new one is a later version than    *)
(* every one there is.                                                       *)
LEMMA GoneInLine ==
  ASSUME NEW st, NEW q, NEW c, NEW w, NEW a, NEW k, InLine(st, q, c, w, a, k)
  PROVE  InLine(st, q, c, w, None, k)
BY DEF InLine, Le, Bounded

LEMMA NewInLine ==
  ASSUME NEW st \in Objects \cup {None}, NEW c \in Objects \cup {None},
         NEW q \in Seq(Events), NEW w \in Seq(Events),
         NEW a, NEW k \in Nat, InLine(st, q, c, w, a, k),
         NEW o \in Objects, o.rv = k + 1
  PROVE  InLine(st, q, c, w, o, k + 1)
<1>1. /\ \A x \in Known(q) : x \in Objects \cup {None}
      /\ \A x \in Known(w) : x \in Objects \cup {None}
  BY EventTypes, ElementTypes DEF Known
<1>2. \A x \in Objects \cup {None} : x # None => x.rv \in Nat
  BY DEF Objects
<1>3. \A x \in Objects \cup {None} :
        Bounded(x, k) => Le(x, o) /\ Bounded(x, k + 1)
  BY <1>2 DEF Bounded, Le
<1>4. Bounded(o, k + 1)
  BY DEF Bounded, Objects
<1>5. QED BY <1>1, <1>3, <1>4 DEF InLine

LEMMA NextOrder ==
  ASSUME TypeOK, OrderInv, [Next]_vars PROVE OrderInv'
<1> SUFFICES ASSUME NEW n \in Names
             PROVE  InLine(store'[n], queue'[n], cache'[n], watch'[n],
                           api'[n], rv'[n])
  BY DEF OrderInv
<1>1. InLine(store[n], queue[n], cache[n], watch[n], api[n], rv[n])
  BY DEF OrderInv
<1>2. /\ queue[n] \in Seq(Events) /\ watch[n] \in Seq(Events)
      /\ store[n] \in Objects \cup {None}
      /\ cache[n] \in Objects \cup {None}
      /\ api[n] \in Objects \cup {None}
      /\ rv[n] \in Nat
  BY DEF TypeOK
<1>3. CASE Untouched(n)
  BY <1>1, <1>3 DEF Untouched, Still
<1>4. CASE Emptied(n)
  <2>1. InLine(None, <<>>, None, <<>>, api[n], rv[n])
    BY <1>1, EmptyKnown DEF InLine, Le, Bounded
  <2>2. QED BY <1>4, <2>1 DEF Emptied
<1>5. CASE Cut(n)
  <2>1. PICK k \in 0..Len(watch[n]) : watch'[n] = SubSeq(watch[n], 1, k)
    BY <1>5 DEF Cut
  <2>2. Known(watch'[n]) \subseteq Known(watch[n]) /\ Sorted(watch'[n])
    BY <1>1, <1>2, <2>1, PrefixKnown DEF InLine
  <2>3. InLine(store[n], queue[n], cache[n], watch'[n], api[n], rv[n])
    BY <1>1, <2>2 DEF InLine
  <2>4. QED BY <1>5, <2>3 DEF Cut, Still
<1>6. CASE Handled(n)
  <2>1. queue[n] # <<>> /\ Sorted(queue[n])
    BY <1>1, <1>6 DEF Handled, InLine
  <2>2. /\ Known(Tail(queue[n])) \subseteq Known(queue[n])
        /\ Head(queue[n]).obj \in Known(queue[n])
        /\ Sorted(Tail(queue[n]))
        /\ \A y \in Known(Tail(queue[n])) : Le(Head(queue[n]).obj, y)
    BY <1>2, <2>1, TailKnown
  <2>3. InLine(store[n], Tail(queue[n]), cache[n], watch[n], api[n], rv[n])
    BY <1>1, <2>2 DEF InLine
  <2>4. InLine(Head(queue[n]).obj, Tail(queue[n]), cache[n], watch[n],
               api[n], rv[n])
    BY <1>1, <2>2 DEF InLine
  <2>5. QED BY <1>6, <2>3, <2>4 DEF Handled
<1>7. CASE Arrived(n)
  <2> DEFINE e == Head(watch[n])
  <2>1. watch[n] # <<>> /\ Sorted(watch[n]) /\ Sorted(queue[n])
    BY <1>1, <1>7 DEF Arrived, InLine
  <2>2. e \in Events
    BY <1>2, <2>1, TailElements
  <2>3. /\ Known(Tail(watch[n])) \subseteq Known(watch[n])
        /\ e.obj \in Known(watch[n])
        /\ Sorted(Tail(watch[n]))
        /\ \A y \in Known(Tail(watch[n])) : Le(e.obj, y)
    BY <1>2, <2>1, TailKnown
  <2> HIDE DEF e
  <2>4. \A x \in Known(queue[n]) : Le(x, e.obj)
    BY <1>1, <2>3 DEF InLine
  <2>5. /\ Known(Append(queue[n], e)) = Known(queue[n]) \cup {e.obj}
        /\ Sorted(Append(queue[n], e))
    BY <1>2, <2>1, <2>2, <2>4, AppendKnown
  <2>6. Le(e.obj, e.obj)
    BY <1>2, <2>2, EventTypes DEF Le, Objects
  <2>7. InLine(store[n], Append(queue[n], e), e.obj, Tail(watch[n]),
               api[n], rv[n])
    BY <1>1, <2>3, <2>4, <2>5, <2>6 DEF InLine
  <2>8. QED BY <1>7, <2>7 DEF Arrived, e
<1>8. CASE Repeated(n)
  <2>1. Event(cache[n]) \in Events /\ Event(cache[n]).obj = cache[n]
    BY <1>2, EventTypes
  <2>2. /\ Known(Append(queue[n], Event(cache[n])))
             = Known(queue[n]) \cup {cache[n]}
        /\ Sorted(Append(queue[n], Event(cache[n])))
    BY <1>1, <1>2, <2>1, AppendKnown DEF InLine
  <2>3. Le(cache[n], cache[n])
    BY <1>2 DEF Le, Objects
  <2>4. InLine(store[n], Append(queue[n], Event(cache[n])), cache[n],
               watch[n], api[n], rv[n])
    BY <1>1, <2>2, <2>3 DEF InLine
  <2>5. QED BY <1>8, <2>4 DEF Repeated
<1>9. CASE Relisted(n)
  <2>1. CASE watch'[n] = watch[n]
    BY <1>1, <1>9, <2>1 DEF Relisted, Still
  <2>2. ASSUME NEW e \in Events, watch'[n] = Append(watch[n], e),
               e.obj = api[n]
        PROVE  InLine(store[n], queue[n], cache[n], watch'[n], api[n], rv[n])
    BY <1>1, <1>2, <2>2, LastInLine
  <2>3. QED BY <1>9, <2>1, <2>2 DEF Relisted, Still
<1>10. CASE Changed(n)
  <2>1. PICK o \in Objects \cup {None} :
          /\ api'[n] = o
          /\ \/ o = None /\ rv'[n] = rv[n]
             \/ o # None /\ o.rv = rv[n] + 1 /\ rv'[n] = rv[n] + 1
          /\ watch'[n] = IF connected THEN Append(watch[n], Event(o))
                                      ELSE watch[n]
          /\ UNCHANGED <<queue[n], store[n], cache[n]>>
    BY <1>10 DEF Changed
  <2>3. InLine(store[n], queue[n], cache[n], watch[n], o, rv'[n])
    <3>1. CASE o = None /\ rv'[n] = rv[n]
      BY <1>1, <3>1, GoneInLine
    <3>2. CASE o # None /\ o.rv = rv[n] + 1 /\ rv'[n] = rv[n] + 1
      <4>1. InLine(store[n], queue[n], cache[n], watch[n], o, rv[n] + 1)
        BY <1>1, <1>2, <3>2, NewInLine
      <4>2. QED BY <3>2, <4>1
    <3>3. QED BY <2>1, <3>1, <3>2
  <2>4. Event(o) \in Events /\ Event(o).obj = o
    BY EventTypes
  <2>5. InLine(store[n], queue[n], cache[n], Append(watch[n], Event(o)), o,
               rv'[n])
    BY <1>2, <2>3, <2>4, LastInLine
  <2>6. QED BY <2>1, <2>3, <2>5
<1>11. QED BY <1>3, <1>4, <1>5, <1>6, <1>7, <1>8, <1>9, <1>10, StepCases

-----------------------------------------------------------------------------
(* Every reachable state satisfies the invariant the results below rest on.  *)
THEOREM Invariance == Spec => []IInv
<1>1. IInv /\ [Next]_vars => IInv'
  BY NextType, NextCache, NextWatch, NextOrder DEF IInv
<1>2. QED BY InitInv, <1>1, PTL DEF Spec

(* README.md:112, changes propagate: for any set of objects and any number   *)
(* of changes, broken watches, resyncs and restarts, an informer with no     *)
(* event under way has left in the store what the API server has.            *)
THEOREM MirrorsApi == Spec => []DrainedMirrorsApi
<1>1. IInv => DrainedMirrorsApi
  <2> SUFFICES ASSUME IInv, NEW n \in Names, connected, watch[n] = <<>>,
                      queue[n] = <<>>
               PROVE  InStep(n)
    BY DEF DrainedMirrorsApi
  <2>1. api[n] = cache[n]
    BY DEF IInv, WatchInv
  <2>2. Len(queue[n]) = 0
    OBVIOUS
  <2>3. (IF cache[n] = None THEN TRUE ELSE cache[n].ok) => store[n] = cache[n]
    BY <2>2 DEF IInv, CacheInv, Settles
  <2>4. QED BY <2>1, <2>3 DEF InStep
<1>2. QED BY <1>1, Invariance, PTL

(* SetPool, SetLease, SetNetwork: however often lists and resyncs repeat an  *)
(* object, the store never goes back to an older version of it.              *)
THEOREM InOrder == Spec => NeverBackInTime
<1>1. IInv /\ [Next]_vars =>
        [\A n \in Names :
           store[n] # None /\ store'[n] # None => store[n].rv <= store'[n].rv]_store
  <2> SUFFICES ASSUME IInv, [Next]_vars, NEW n \in Names, store[n] # None,
                      store'[n] # None
               PROVE  store[n].rv <= store'[n].rv
    OBVIOUS
  <2>1. /\ store[n] \in Objects \cup {None} /\ queue[n] \in Seq(Events)
    BY DEF IInv, TypeOK
  <2>2. CASE Handled(n)
    <3>1. 1 \in 1..Len(queue[n]) /\ Head(queue[n]) = queue[n][1]
      BY <2>1, <2>2, TailElements DEF Handled
    <3>2. Le(store[n], queue[n][1].obj)
      BY <3>1 DEF IInv, OrderInv, InLine, Known
    <3>3. store'[n] = queue[n][1].obj \/ store'[n] = store[n]
      BY <2>2, <3>1 DEF Handled
    <3>4. QED BY <2>1, <3>2, <3>3 DEF Le, Objects
  <2>3. CASE Emptied(n)
    BY <2>3 DEF Emptied
  <2>4. CASE store'[n] = store[n]
    BY <2>1, <2>4 DEF Objects
  <2>5. TypeOK
    BY DEF IInv
  <2>6. QED BY <2>2, <2>3, <2>4, <2>5, StepCases
        DEF Changed, Arrived, Repeated, Relisted, Cut, Untouched, Still
<1>2. QED BY <1>1, Invariance, PTL DEF Spec, NeverBackInTime
=============================================================================
